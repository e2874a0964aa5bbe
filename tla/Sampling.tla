------------------------------- MODULE Sampling -------------------------------
(***************************************************************************)
(* Drawing a sample of bounded size from a stream of examples.             *)
(*                                                                         *)
(* The order in which examples come does not matter: each has a place in   *)
(* an order that depends on the seed and its identifier alone, and the     *)
(* sample is made of the first ones of that order.  The stream is read     *)
(* once and only as many examples are kept as the sample may need.  An     *)
(* example is a natural number here, its place in that order.              *)
(*                                                                         *)
(* Besides the samples of sampling.py there are the selections that fill   *)
(* the cells of a matrix with equally many examples each: those a          *)
(* conformance run is made on, and those of the baselines (pilots and      *)
(* demonstrations), which are kept in a manifest and read again later.     *)
(* The label of an example stands for its cell there.                      *)
(***************************************************************************)
EXTENDS Naturals, Sequences, FiniteSets, SequencesExt

CONSTANTS
  Pool,        \* the examples of the stream
  Labels,      \* the gold labels
  LabelOrders, \* the labels a configuration may ask for, in its order
  LabelRank,   \* the place of each label in the order of the labels' names
  MaxSize,     \* bound: the largest sample that is asked for
  Twins,       \* examples that have the same normalized content
  Shown,       \* examples that a demonstration is, or has the content of
  Altered,     \* in place of a label: an example with another content
  Missing,     \* in place of a label: an example that is gone
  Refused      \* there is no sample

(* Examples have places of their own. *)
ASSUME PoolAssumption == Pool \subseteq Nat /\ IsFiniteSet(Pool)

(* Two labels have two names, and no configuration names a label twice     *)
(* (research/models.py, validate_unique_filters).                          *)
ASSUME LabelsAssumption ==
  /\ IsFiniteSet(Labels)
  /\ LabelRank \in [Labels -> Nat]
  /\ \A l, m \in Labels : LabelRank[l] = LabelRank[m] => l = m
  /\ \A order \in LabelOrders :
       /\ order \in Seq(Labels) /\ order # <<>>
       /\ \A i, j \in DOMAIN order : order[i] = order[j] => i = j

ASSUME RefusedAssumption == \A S \in SUBSET Pool : S # Refused

VARIABLES
  labelOf,     \* the label of each example
  strategy,    \* how the sample is made
  wanted,      \* the labels asked for, in order
  target,      \* the size asked for (of a cell, for a selection); 0 for all
  unread,      \* the examples that have not come yet
  kept,        \* for each label, the examples that are kept
  available,   \* for each label, how many eligible examples came
  sample,      \* the sample, or Refused
  loaded,      \* what a manifest of the sample gave when it was read again
  phase        \* "ready", "reading", "drawn" or "loaded"

samplingVars ==
  <<labelOf, strategy, wanted, target, unread, kept, available, sample,
    loaded, phase>>

(* Selections, the second one with a manifest. *)
Selections == {"CONFORMANCE", "MANIFEST"}

Strategies == {"RANDOM", "BALANCED", "STRATIFIED"} \cup Selections

-----------------------------------------------------------------------------
(* The first n of a set of examples, and the set without its last one. *)

Take(S, n) == {x \in S : Cardinality({y \in S : y < x}) < n}

(* An example is put among those that are kept; the last one leaves if     *)
(* there are more than may be kept.  The slip keeps the newest instead.    *)
RetainNewest(S, x, capacity) ==
  IF Cardinality(S) < capacity THEN S \cup {x} ELSE Take(S, capacity - 1) \cup {x}

RetainBest(S, x, capacity) == Take(S \cup {x}, capacity)

Total(count) == MapThenSumSet(LAMBDA l : count[l], DOMAIN count)

-----------------------------------------------------------------------------
(* Quotas *)

(* Equal shares; the first labels of the configuration get what is left. *)
BalancedQuota(order, size) ==
  [l \in ToSet(order) |->
     LET i == CHOOSE k \in DOMAIN order : order[k] = l
     IN  size \div Len(order) + (IF i <= size % Len(order) THEN 1 ELSE 0)]

(* Shares in proportion to what there is, rounded down; one more for those *)
(* that lost most by it, the first in the order of names among equals.     *)
Share(count, size, l)  == (count[l] * size) \div Total(count)
Excess(count, size, l) == (count[l] * size) % Total(count)

Precedes(count, size, l, m) ==
  \/ Excess(count, size, l) > Excess(count, size, m)
  \/ /\ Excess(count, size, l) = Excess(count, size, m)
     /\ LabelRank[l] < LabelRank[m]

(* Only a label that has more examples than its share gets another one. *)
StratifiedQuota(count, size) ==
  LET present == {l \in DOMAIN count : count[l] > 0}
      growing == {l \in present : Share(count, size, l) < count[l]}
      left    == size - Total([l \in present |-> Share(count, size, l)])
      extra   == {l \in growing :
                    Cardinality({m \in growing : Precedes(count, size, m, l)}) < left}
  IN  [l \in present |->
         Share(count, size, l) + (IF l \in extra THEN 1 ELSE 0)]

-----------------------------------------------------------------------------
(* Reading the stream *)

Eligible(x) == labelOf[x] \in ToSet(wanted)

(* How many examples with a label may be kept: all of them, unless there   *)
(* is a limit and the sample is not a selection.                           *)
Capacity(l) ==
  CASE target = 0 \/ strategy \in Selections -> Cardinality(Pool)
    [] target > 0 /\ strategy = "BALANCED" -> BalancedQuota(wanted, target)[l]
    [] target > 0 /\ strategy \in {"RANDOM", "STRATIFIED"} -> target

SamplingInit ==
  /\ labelOf = <<>>
  /\ strategy = "RANDOM"
  /\ wanted = <<>>
  /\ target = 0
  /\ unread = Pool
  /\ kept = [l \in Labels |-> {}]
  /\ available = [l \in Labels |-> 0]
  /\ sample = {}
  /\ loaded = {}
  /\ phase = "ready"

(* A configuration comes in.  A balanced sample has at least one example   *)
(* for each label, or nothing is read.                                     *)
Configure ==
  /\ phase = "ready"
  /\ labelOf' \in [Pool -> Labels]
  /\ strategy' \in Strategies
  /\ wanted' \in LabelOrders
  /\ target' \in IF strategy' \in Selections THEN 1..(MaxSize \div 2) ELSE 0..MaxSize
  /\ IF strategy' = "BALANCED" /\ target' \in 1..(Len(wanted') - 1)
     THEN sample' = Refused /\ phase' = "drawn"
     ELSE phase' = "reading" /\ UNCHANGED sample
  /\ UNCHANGED <<unread, kept, available, loaded>>

(* For a random sample all examples share one store. *)
Store(x) == IF strategy = "RANDOM" THEN wanted[1] ELSE labelOf[x]

Read(x) ==
  /\ phase = "reading"
  /\ x \in unread
  /\ unread' = unread \ {x}
  /\ IF Eligible(x)
     THEN /\ available' = [available EXCEPT ![labelOf[x]] = @ + 1]
          /\ kept' = [kept EXCEPT ![Store(x)] =
                        RetainBest(@, x, Capacity(Store(x)))]
     ELSE UNCHANGED <<available, kept>>
  /\ UNCHANGED <<labelOf, strategy, wanted, target, sample, loaded, phase>>

(* Without a limit a balanced sample is as large as the smallest label     *)
(* allows.                                                                 *)
EqualShare ==
  CHOOSE n \in 0..Cardinality(Pool) :
    /\ \A l \in ToSet(wanted) : n <= available[l]
    /\ \E l \in ToSet(wanted) : n = available[l]

(* A sample for each of the strategies, when the stream has ended. *)
All == UNION {kept[l] : l \in Labels}

OfEach(quota) == UNION {Take(kept[l], quota[l]) : l \in DOMAIN quota}

Balanced ==
  CASE target = 0 ->
         IF EqualShare = 0 THEN Refused
         ELSE OfEach([l \in ToSet(wanted) |-> EqualShare])
    [] target > 0 ->
         IF \E l \in ToSet(wanted) : available[l] < Capacity(l) THEN Refused ELSE All

Stratified ==
  LET quota == StratifiedQuota(available, target)
  IN  CASE target = 0 \/ target >= Total(available) -> All
        [] target \in 1..(Total(available) - 1) ->
             IF Total(quota) < target THEN Refused ELSE OfEach(quota)

(* No content twice. *)
IsManifest(S) == ~(Twins \subseteq S)

(* Every cell is filled. *)
Selected ==
  LET chosen == OfEach([l \in ToSet(wanted) |-> target])
  IN  IF \/ \E l \in ToSet(wanted) : available[l] < target
         \/ strategy = "MANIFEST" /\ Twins \subseteq chosen
      THEN Refused ELSE chosen

Drawn ==
  CASE strategy \in Selections -> Selected
    [] strategy \notin Selections /\ Total(available) = 0 -> Refused
    [] strategy = "RANDOM" /\ Total(available) > 0 -> All
    [] strategy = "BALANCED" /\ Total(available) > 0 -> Balanced
    [] strategy = "STRATIFIED" /\ Total(available) > 0 -> Stratified

Draw ==
  /\ phase = "reading"
  /\ unread = {}
  /\ sample' = Drawn
  /\ phase' = "drawn"
  /\ UNCHANGED <<labelOf, strategy, wanted, target, unread, kept, available, loaded>>

(* A pilot has as many examples in each cell as it should. *)
IsPilot(S) ==
  /\ Cardinality(S) = Len(wanted) * target
  /\ \A l \in ToSet(wanted) : Cardinality({x \in S : labelOf[x] = l}) = target

Overlaps(S) == S \cap Shown # {}

(* Every entry is found, with the content and the label it had. *)
IsFound(entries, now) == \A x \in entries : now[x] = labelOf[x]

(* prepare_baseline: the examples of the manifest are read again.  Its     *)
(* file may lack an entry, or not have the hash it should, and one example *)
(* may have changed: one with another content or another label than the    *)
(* manifest says, or one that is missing, refuses all of them.  With       *)
(* demonstrations, none of the examples may be one.                        *)
Load ==
  /\ phase = "drawn"
  /\ strategy = "MANIFEST" /\ sample # Refused
  /\ \E entries \in {sample} \cup {sample \ {y} : y \in sample},
        hashed, demonstrated \in BOOLEAN,
        x \in Pool, l \in Labels \cup {Altered, Missing} :
       LET now == [labelOf EXCEPT ![x] = l]
           accepted == /\ hashed /\ IsManifest(entries) /\ IsPilot(entries)
                       /\ IsFound(entries, now)
                       /\ demonstrated => ~Overlaps(entries)
       IN  loaded' = IF accepted
                     THEN [labels |-> [y \in entries |-> now[y]],
                           demonstrated |-> demonstrated]
                     ELSE Refused
  /\ phase' = "loaded"
  /\ UNCHANGED <<labelOf, strategy, wanted, target, unread, kept, available, sample>>

SamplingNext == Configure \/ (\E x \in Pool : Read(x)) \/ Draw \/ Load

-----------------------------------------------------------------------------
(* Properties *)

(* The sample as it is meant: drawn from all eligible examples at once. *)
Group(l) == {x \in Pool : Eligible(x) /\ labelOf[x] = l}

IsSample(S) ==
  LET all == {x \in Pool : Eligible(x)}
      Of(l) == S \cap Group(l)
      IsBeginning(T, U) == T \subseteq U /\ \A x \in T, y \in U : y < x => y \in T
      size ==
        CASE strategy \in Selections -> Len(wanted) * target
          [] target = 0 /\ strategy = "BALANCED" -> Len(wanted) * EqualShare
          [] target = 0 /\ strategy \in {"RANDOM", "STRATIFIED"} -> Cardinality(all)
          [] target > 0 /\ strategy \notin Selections ->
               IF target < Cardinality(all) THEN target ELSE Cardinality(all)
  IN  /\ S \subseteq all
      /\ Cardinality(S) = size
      /\ strategy = "RANDOM" => IsBeginning(S, all)
      /\ strategy # "RANDOM" => \A l \in Labels : IsBeginning(Of(l), Group(l))
      /\ strategy = "BALANCED" =>
           \A i, j \in DOMAIN wanted :
             i < j => Cardinality(Of(wanted[i])) - Cardinality(Of(wanted[j])) \in {0, 1}
      /\ strategy \in Selections =>
           \A l \in ToSet(wanted) : Cardinality(Of(l)) = target
      /\ strategy = "MANIFEST" => ~(Twins \subseteq S)
      /\ strategy = "STRATIFIED" =>
           \A l \in Labels :
             LET exact == Cardinality(Group(l)) * size
                 drawn == Cardinality(Of(l)) * Cardinality(all)
             IN  /\ drawn < exact + Cardinality(all)
                 /\ exact < drawn + Cardinality(all)

(* The i-th label has fewer examples than a sample needs of it. *)
IsTooRare(i) ==
  LET there == Cardinality(Group(wanted[i]))
  IN  CASE strategy \in Selections -> there < target
        [] strategy = "BALANCED" /\ target = 0 -> there = 0
        [] strategy = "BALANCED" /\ target > 0 ->
             \/ target < Len(wanted)
             \/ there < target \div Len(wanted) + (IF i <= target % Len(wanted) THEN 1 ELSE 0)
        [] OTHER -> \A x \in Pool : ~Eligible(x)

(* A sample of the wanted size that is the beginning of the order within   *)
(* the whole, or within each label, with equal shares, or with shares less *)
(* than one example away from proportion: whatever order the examples come *)
(* in, although no more of them are kept than the sample may need.  It is  *)
(* refused only when nothing is eligible or a label has too few examples   *)
(* (or one content would be selected twice), and a manifest of it gives it *)
(* back with its labels or nothing, and none of what the demonstrations    *)
(* show (datasets/sampling.py, baselines/configuration.py,                 *)
(* baselines/selection.py, reasoning/proofwriter.py).                      *)
SampleIgnoresArrival ==
  /\ phase = "drawn" /\ sample # Refused => IsSample(sample)
  /\ phase = "drawn" /\ sample = Refused =>
       \/ \A x \in Pool : ~Eligible(x)
       \/ \E i \in DOMAIN wanted : IsTooRare(i)
       \/ strategy = "MANIFEST" /\ \A x \in Twins : Eligible(x)
  /\ phase = "loaded" /\ loaded # Refused =>
       /\ loaded.labels = [x \in sample |-> labelOf[x]]
       /\ IsSample(DOMAIN loaded.labels)
       /\ loaded.demonstrated => DOMAIN loaded.labels \cap Shown = {}
  /\ target > 0 /\ strategy \notin Selections =>
       \A l \in Labels : Cardinality(kept[l]) <= target
=============================================================================
