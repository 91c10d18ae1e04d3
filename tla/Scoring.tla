------------------------------ MODULE Scoring ------------------------------
(***************************************************************************)
(* From a transaction to a verdict: FraudDetector.predict                  *)
(* (app/ml/model.py) and what the pipeline feeds it with - the median of   *)
(* recent gas prices, the transactions of a block, the sender's history in *)
(* the wallet graph (app/ml/wallet_graph.py) - and the stand-alone worker, *)
(* which asks a detector of its own through two adapters                   *)
(* (ml/feature_engineering.py, ml/feedback_loop.py).  What the learned     *)
(* models say is a free choice; scores are whole per cents, amounts are    *)
(* hundredths of an ETH.                                                   *)
(***************************************************************************)
EXTENDS Integers, Sequences, SequencesExt, FiniteSets

CONSTANTS
  Wallets, NoWallet, \* NoWallet: to_address of a contract creation
  Values,            \* amounts, in hundredths of an ETH
  Prices,            \* gas prices, in gwei
  Blocks,
  IsoScores,         \* what the isolation forest may say
  SupScores,         \* what the feedback model may say
  Threshold,         \* ANOMALY_THRESHOLD, 65 unless it is set
  FlagThreshold,     \* FLAG_THRESHOLD, 60 unless it is set: the worker's
  Busy,              \* transactions in a busy block, 50 in the code
  GasWindow,         \* length of _gas_prices, 200 in the code
  MaxTxs             \* bound: transactions taken

ASSUME NumbersAssumption ==
  /\ Values \subseteq Nat /\ Prices \subseteq Nat
  /\ IsoScores \subseteq 0..100 /\ SupScores \subseteq 0..100
  /\ Threshold \in 65..72 /\ FlagThreshold \in Nat
  /\ Busy \in Nat \ {0} /\ GasWindow \in Nat \ {0} /\ MaxTxs \in Nat
ASSUME WalletAssumption == NoWallet \notin Wallets

NoModel == -1        \* no feedback model
EdgeMin == 1         \* EDGE_WEIGHT_THRESHOLD
FlashValue == 10000  \* FLASH_LOAN_VALUE_THRESHOLD_ETH
HighValue == 50000   \* HIGH_VALUE_THRESHOLD_ETH

Inputs == {"none", "call", "flash"} \* calldata: none, some, a known flash-loan signature

(* What _parse_tx can make of a transaction: a receiver that is missing becomes
   None, calldata that is missing "0x", a missing amount or price zero. *)
Txs == [from : Wallets, to : Wallets \cup {NoWallet}, value : Values,
        price : Prices, input : Inputs, block : Blocks]

VARIABLES
  feed,    \* the listener that get_listener() chose when run_pipeline began
  risk,    \* the wallet graph: risk_score of the nodes it has
  marked,  \* _flagged_addresses
  window,  \* _gas_prices
  inBlock, \* _block_tx_count
  median,  \* _median_gas_price of the two detectors
  last,    \* the verdict in hand, with what it was given for
  scored   \* transactions so far

vars == <<feed, risk, marked, window, inBlock, median, last, scored>>

NoVerdict == [by |-> "nobody"]

Init ==
  /\ feed \in {"chain", "simulation"} \* is an API key or an RPC URL set?
  /\ risk = [w \in {} |-> 0] /\ marked = {} /\ window = <<>>
  /\ inBlock = [b \in Blocks |-> 0]
  /\ median = [pipeline |-> 30, worker |-> 30]
  /\ last = NoVerdict
  /\ scored = 0

Larger(a, b) == IF a >= b THEN a ELSE b
Capped(s) == IF s > 100 THEN 100 ELSE s

(***************************************************************************)
(* What the pipeline is fed with.  The simulation makes transfers between  *)
(* its wallets, without calldata except in flash loans, and those move at  *)
(* least 100 ETH for any gas price.                                        *)
(***************************************************************************)
Simulated(tx) ==
  /\ tx.to # NoWallet
  /\ \/ tx.input = "flash" /\ tx.value \in FlashValue..200000 /\ tx.price \in 1..300
     \/ tx.input = "none" /\ tx.price \in 10..50

Offered == IF feed = "chain" THEN Txs ELSE {tx \in Txs : Simulated(tx)}

(***************************************************************************)
(* What the verdict is computed from.                                      *)
(***************************************************************************)
(* The one feature besides amount and price that a rule looks at; the others
   only reach the learned models. *)
IsContractCall(tx) == tx.input # "none"

Rank(prices, m) == Cardinality({i \in DOMAIN prices : prices[i] < m})

(* Mutation of Median: the lower of the two middle prices. *)
LowerMedian(prices) ==
  CHOOSE m \in Range(prices) :
    /\ Rank(prices, m) <= (Len(prices) - 1) \div 2
    /\ Rank(prices, m + 1) > (Len(prices) - 1) \div 2

(* The upper of the two middle prices: sorted(prices)[n // 2]. *)
Median(prices) ==
  CHOOSE m \in Range(prices) :
    /\ Rank(prices, m) <= Len(prices) \div 2
    /\ Rank(prices, m + 1) > Len(prices) \div 2

(* A median of zero is falsy: the detector keeps the one it has. *)
Updated(old, new) == IF new = 0 THEN old ELSE new

NoProfile == [field \in {} |-> 0]

(* wallet_stats.  cluster_id stays None: nothing calls detect_clusters. *)
Profile(w) == IF w \in DOMAIN risk THEN [risk_score |-> risk[w], cluster_id |-> {}]
                                   ELSE NoProfile

(* The heuristics of _flash_loan_score. *)
FlashScore(tx, count) ==
  IF tx.input = "flash" THEN 90
  ELSE IF tx.value >= FlashValue /\ IsContractCall(tx) /\ count > Busy THEN 75
  ELSE 0

Blend(iso, sup) == IF sup = NoModel THEN iso ELSE (60 * iso + 40 * sup) \div 100

Floor(tx, count) == Larger(FlashScore(tx, count), IF tx.value > HighValue THEN 72 ELSE 0)

(* Mutation of Evidence: the learned score is blended in last. *)
EvidenceBlendedLast(tx, count, iso, sup) == Blend(Larger(iso, Floor(tx, count)), sup)

(* The learned score, raised to what the rules demand. *)
Evidence(tx, count, iso, sup) == Larger(Blend(iso, sup), Floor(tx, count))

Spike(tx, m) == m > 0 /\ tx.price > m * 5

KnownBad(profile) == "is_flagged" \in DOMAIN profile /\ profile.is_flagged
InCluster(profile) == "cluster_id" \in DOMAIN profile /\ profile.cluster_id # {}

Amplified(profile, s) ==
  LET t == IF KnownBad(profile) THEN Capped((s * 125) \div 100) ELSE s
  IN  IF InCluster(profile) THEN Capped(t + 10) ELSE t

Score(tx, count, profile, m, iso, sup) ==
  LET s == Evidence(tx, count, iso, sup)
  IN  Amplified(profile, IF Spike(tx, m) THEN Capped(s + 15) ELSE s)

FraudType(tx, count) ==
  IF FlashScore(tx, count) > 0 THEN "flash_loan"
  ELSE IF tx.value > HighValue THEN "high_value" ELSE "none"

Severity(s) ==
  IF s >= 85 THEN "critical" ELSE IF s >= 65 THEN "high" ELSE IF s >= 45 THEN "medium" ELSE "low"

Verdict(tx, count, profile, m, iso, sup) ==
  LET s == Score(tx, count, profile, m, iso, sup)
  IN  [by |-> "pipeline", from |-> tx.from, input |-> tx.input, value |-> tx.value,
       score |-> s, flagged |-> s >= Threshold, spike |-> Spike(tx, m),
       type |-> IF s >= Threshold THEN FraudType(tx, count) ELSE "none",
       severity |-> IF s >= Threshold THEN Severity(s) ELSE "none",
       before |-> tx.from \in marked, amplified |-> KnownBad(profile) \/ InCluster(profile)]

(***************************************************************************)
(* The wallet graph.                                                       *)
(***************************************************************************)

(* Mutation of Linked: a wallet's node is made anew. *)
LinkedAnew(old, tx, s) ==
  IF tx.to = NoWallet \/ tx.value < EdgeMin THEN old
  ELSE [w \in DOMAIN old \cup {tx.from, tx.to} |->
          IF w = tx.from THEN s ELSE IF w = tx.to THEN 0 ELSE old[w]]

(* add_transaction: a small amount or a contract creation leaves no trace. *)
Linked(old, tx, s) ==
  IF tx.to = NoWallet \/ tx.value < EdgeMin THEN old
  ELSE [w \in DOMAIN old \cup {tx.from, tx.to} |->
          LET was == IF w \in DOMAIN old THEN old[w] ELSE 0
          IN  IF w = tx.from THEN Larger(was, s) ELSE was]

(* flag_address: the node, if there is one, gets the worst score. *)
Flagged(nodes, w) == [v \in DOMAIN nodes |-> IF v = w THEN 100 ELSE nodes[v]]

(***************************************************************************)
(* One transaction, in the pipeline's process and in the worker's.         *)
(***************************************************************************)
Process(tx, iso, sup) ==
  LET w == LET all == Append(window, tx.price)
           IN  IF Len(all) > GasWindow THEN Tail(all) ELSE all
      m == Updated(median.pipeline, Median(w))
      count == inBlock[tx.block] + 1
      v == Verdict(tx, count, Profile(tx.from), m, iso, sup)
      nodes == Linked(risk, tx, v.score)
  IN  /\ last = NoVerdict
      /\ tx \in Offered
      /\ scored < MaxTxs
      /\ scored' = scored + 1
      /\ inBlock' = [inBlock EXCEPT ![tx.block] = count]
      /\ window' = w
      /\ median' = [median EXCEPT !.pipeline = m]
      /\ last' = v
      /\ risk' = IF v.flagged THEN Flagged(nodes, tx.from) ELSE nodes
      /\ marked' = IF v.flagged THEN marked \cup {tx.from} ELSE marked
      /\ UNCHANGED feed

(* The worker's messages are a node's: the amount is in wei under "value",  *)
(* the gas price under "gasPrice", the calldata under "input".             *)
(* extract_features looks for other names and finds an amount and a price  *)
(* of zero and no calldata, LiveIsolationForest.predict passes those on,   *)
(* and the rules see nothing of the transaction.                           *)
Adapted(tx) == [tx EXCEPT !.value = 0, !.price = 0, !.input = "none"]

(* The detector's own verdict and the kind are dropped; the score is held  *)
(* against a threshold of the worker's.                                    *)
WorkerFlags(s) == s > FlagThreshold

(* No profile, a block of one, and for the median the average gas price:   *)
(* that is the price above, and a median of zero is none.                  *)
WorkerScores(tx, iso, sup) ==
  LET seen == Adapted(tx)
      m == Updated(median.worker, seen.price)
      s == Score(seen, 1, NoProfile, m, iso, sup)
  IN  /\ last = NoVerdict
      /\ scored < MaxTxs
      /\ scored' = scored + 1
      /\ median' = [median EXCEPT !.worker = m]
      /\ last' = [by |-> "worker", score |-> s, flagged |-> WorkerFlags(s),
                  spike |-> Spike(seen, m)]
      /\ UNCHANGED <<feed, risk, marked, window, inBlock>>

(* The gas is "0x5208", as a node writes it: int() raises, and the message *)
(* gets no score.                                                          *)
WorkerRaises ==
  /\ last = NoVerdict
  /\ scored < MaxTxs
  /\ scored' = scored + 1
  /\ UNCHANGED <<feed, risk, marked, window, inBlock, median, last>>

(* The verdict goes to buffers, subscribers and tables; the next           *)
(* transaction is taken when that is done.                                 *)
HandOver ==
  /\ last # NoVerdict
  /\ last' = NoVerdict
  /\ UNCHANGED <<feed, risk, marked, window, inBlock, median, scored>>

Next ==
  \/ HandOver \/ WorkerRaises
  \/ \E tx \in Txs, iso \in IsoScores, sup \in SupScores \cup {NoModel} :
       Process(tx, iso, sup) \/ WorkerScores(tx, iso, sup)

Spec == Init /\ [][Next]_vars

-----------------------------------------------------------------------------
Majority == 2 * Cardinality({i \in DOMAIN window : window[i] * 5 < Last(window)}) > Len(window)

(* A gas spike (pipeline.py:104-105, model.py:175, 226) is signalled just  *)
(* when more than half of the recent transactions paid less than a fifth   *)
(* of the price - except that a majority that pays nothing leaves an older *)
(* median in force, which may hide the spike.  The worker, whose detector  *)
(* is never shown a price, signals none.                                   *)
SpikeIsMajority ==
  /\ last.by = "worker" => ~last.spike
  /\ last.by = "pipeline" =>
       /\ last.spike => Majority
       /\ Majority /\ Median(window) > 0 => last.spike

(* Neither learned model, nor the sender's past, nor gas prices can talk   *)
(* the rules down in the pipeline (model.py:209-245, pipeline.py:216-223): *)
(* it answers a known flash-loan signature with a critical flash-loan      *)
(* alert, flags a transfer above 500 ETH and names its kind, and every     *)
(* alert it raises is high or critical.                                    *)
RulesCannotBeOutvoted ==
  last.by = "pipeline" =>
    /\ last.input = "flash" =>
         last.flagged /\ last.type = "flash_loan" /\ last.severity = "critical"
    /\ last.value > HighValue => last.flagged /\ last.type # "none"
    /\ last.flagged => last.severity \in {"high", "critical"}

(* A wallet's record in the graph only gets worse: no transaction, sent or *)
(* received, lowers its risk or removes it, and a wallet flagged while the *)
(* graph has it is at 100 from then on (wallet_graph.py:59-69, 80-83).     *)
RecordOnlyWorsens ==
  [][/\ \A w \in DOMAIN risk : w \in DOMAIN risk' /\ risk'[w] >= risk[w]
     /\ last' # NoVerdict /\ last'.by = "pipeline" /\ last'.flagged /\ last'.from \in DOMAIN risk'
          => risk'[last'.from] = 100]_vars

(* "Wallet cluster risk amplification" (model.py:45), signalled as "Sender *)
(* wallet previously flagged" (model.py:237): the score of a sender that   *)
(* was flagged before is raised.                                           *)
FlaggedSenderAmplified == last.by = "pipeline" => (last.before => last.amplified)
=============================================================================
