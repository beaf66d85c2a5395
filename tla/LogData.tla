------------------------------ MODULE LogData -------------------------------
(***************************************************************************)
(* unwrapLogData of handlers/callback.go, which setStatusCode calls before *)
(* it answers a request that failed.  It collects the log data of a chain  *)
(* of wrapped errors, then merges the maps, key by key in the order Go     *)
(* happens to iterate them.  Comparing two lists or two maps with != is a  *)
(* run-time panic.                                                         *)
(***************************************************************************)
EXTENDS Integers, Sequences, Functions

CONSTANTS Data,       \* the log data maps in use: functions from keys to values
          MaxLevels   \* bounds the length of a chain

VARIABLES chain,   \* the errors, outermost first: each wraps the next
          pc,      \* "unwrap", "merge", "done" or "panicked"
          level,   \* unwrap: the error looked at; merge: the map looked at
          data,    \* the maps collected
          todo,    \* the keys of the current map not yet merged
          logData  \* the merged map

vars == <<chain, pc, level, data, todo, logData>>

\* What an interface{} holds, as far as the merge can tell values apart.
Scalar(x) == [kind |-> "scalar", value |-> x]
Map(x) == [kind |-> "map", value |-> x]
List(items) == [kind |-> "list", items |-> items]

NoData == [k \in {} |-> Scalar("")]

\* logs: the error is a dataLogger, and its LogData is not nil.
Errors == [logs : {TRUE}, data : Data] \cup {[logs |-> FALSE, data |-> NoData]}

Values == UNION {{d[k] : k \in DOMAIN d} : d \in Data}
Keys == UNION {DOMAIN d : d \in Data}

\* A value is of one kind; one that is a list is a []interface{}.
DataAssumption ==
  \A v \in Values :
    /\ v.kind \in {"scalar", "map", "list"}
    /\ v.kind = "list" => v = List(v.items) /\ v.items \in Seq(Range(v.items))
ASSUME DataAssumption
ASSUME MaxLevelsAssumption == MaxLevels \in Nat \ {0}

Elements(v) == IF v.kind = "list" THEN v.items ELSE <<v>>

\* What a list may hold.
Items == Values \cup UNION {Range(Elements(v)) : v \in Values}

TypeOK ==
  /\ chain \in Seq(Errors) /\ Len(chain) <= MaxLevels
  /\ pc \in {"unwrap", "merge", "done", "panicked"}
  /\ level \in 1 .. MaxLevels
  /\ data \in Seq(Data) /\ Len(data) < MaxLevels
  /\ todo \subseteq Keys
  /\ DOMAIN logData \subseteq Keys
  /\ \A k \in DOMAIN logData :
       \/ logData[k] \in Values
       \/ logData[k] = List(logData[k].items) /\ logData[k].items \in Seq(Items)

Init ==
  /\ \E n \in 0 .. MaxLevels : chain \in [1 .. n -> Errors]
  /\ pc = "unwrap" /\ level = 1
  /\ data = <<>> /\ todo = {} /\ logData = NoData

\* Faulty variant: the last error is read as well.
WrapsOrIsLast == level <= Len(chain)

\* err != nil && errors.Unwrap(err) != nil: the last error wraps none.
Wraps == level < Len(chain)

Unwrap ==
  /\ pc = "unwrap" /\ Wraps
  /\ data' = IF chain[level].logs THEN Append(data, chain[level].data) ELSE data
  /\ level' = level + 1
  /\ UNCHANGED <<chain, pc, todo, logData>>

\* The outer loop enters a map, or ends.
Enter(l) ==
  /\ level' = l
  /\ IF l <= Len(data) THEN pc' = "merge" /\ todo' = DOMAIN data[l]
                       ELSE pc' = "done" /\ todo' = {}
  /\ UNCHANGED <<chain, data, logData>>

StartMerge == pc = "unwrap" /\ ~Wraps /\ Enter(1)

NextMap == pc = "merge" /\ todo = {} /\ Enter(level + 1)

Set(k, v) == logData' = [x \in DOMAIN logData \cup {k} |-> IF x = k THEN v ELSE logData[x]]

\* Faulty variant: only equal kinds of list cannot be compared.
IncomparableLists(v, w) == v.kind = "list" /\ w.kind = "list"

\* v != w panics: the dynamic types are the same and cannot be compared.
Incomparable(v, w) == v.kind = w.kind /\ v.kind \in {"list", "map"}

\* Faulty variant: a second value starts the list anew.
Restarted(v, w) == List(<<v, w>>)

\* Two different values become a list, a list gets one more element.
Combined(v, w) == IF v.kind = "list" THEN List(Append(v.items, w)) ELSE List(<<v, w>>)

MergeKey(k) ==
  /\ pc = "merge" /\ k \in todo
  /\ LET v == data[level][k] IN
       \/ k \notin DOMAIN logData /\ Set(k, v) /\ pc' = pc
       \/ /\ k \in DOMAIN logData /\ Incomparable(logData[k], v)
          /\ pc' = "panicked" /\ UNCHANGED logData
       \/ /\ k \in DOMAIN logData /\ ~Incomparable(logData[k], v)
          /\ IF logData[k] = v THEN UNCHANGED logData ELSE Set(k, Combined(logData[k], v))
          /\ pc' = pc
  /\ todo' = todo \ {k}
  /\ UNCHANGED <<chain, level, data>>

Ended == pc \in {"done", "panicked"}

HasEnded == Ended /\ UNCHANGED vars

Next == Unwrap \/ StartMerge \/ NextMap \/ (\E k \in todo : MergeKey(k)) \/ HasEnded

Spec == Init /\ [][Next]_vars

-----------------------------------------------------------------------------
(* Properties.                                                               *)

\* The log data along the chain, outermost first; the innermost error has no say.
Along == [i \in 1 .. Len(chain) - 1 |-> chain[i].data]

Having(maps, k) == {i \in DOMAIN maps : k \in DOMAIN maps[i]}

Outermost(i, at) == i \in at /\ \A j \in at : i <= j

\* The places of a key from the first one whose value is not the outermost one.
Later(maps, at, k, first) == {i \in at : \E j \in at : j <= i /\ maps[j][k] # maps[first][k]}

\* s goes through a set of places in order.
Enumerates(s, at) ==
  /\ Range(s) = at
  /\ \A m, n \in DOMAIN s : m < n => s[m] < s[n]

ValuesAt(maps, s, k) == [n \in DOMAIN s |-> maps[s[n]][k]]

\* What a key becomes if it is at these places of the maps: the one value it has; or,
\* when it has several, the outermost one (or its elements), then each value from the
\* first one that differs, in the order of the places.
IsMergeOf(v, maps, at, k) ==
  \E first \in at :
    LET later == Later(maps, at, k, first)
        value == maps[first][k]
    IN  /\ Outermost(first, at)
        /\ \/ later = {} /\ v = value
           \/ /\ later # {} /\ v.kind = "list" /\ v.items \in Seq(Items)
              /\ \E s \in [1 .. Len(v.items) - Len(Elements(value)) -> later] :
                   /\ Enumerates(s, later)
                   /\ v = List(Elements(value) \o ValuesAt(maps, s, k))

\* Whatever the order of the keys, the result has every key of the chain but those of
\* the innermost error alone, each merged from all the errors that have it.
MergeIsReference ==
  pc = "done" =>
    /\ DOMAIN logData = {k \in Keys : Having(Along, k) # {}}
    /\ \A k \in DOMAIN logData : IsMergeOf(logData[k], Along, Having(Along, k), k)

\* A value cannot be merged with those before it: a list with another list, or with
\* two values that differ; a map with a map that is the only value so far.
Collides(maps, at, k) ==
  \E i, j \in at :
    /\ i < j
    /\ \/ /\ maps[j][k].kind = "list"
          /\ maps[i][k].kind = "list" \/ \E h \in at : h < i /\ maps[h][k] # maps[i][k]
       \/ /\ maps[j][k].kind = "map" /\ maps[i][k].kind = "map"
          /\ \A h \in at : h < j => maps[h][k] = maps[i][k]

\* A failed request loses its answer to a panic while its error is logged exactly when
\* some key of the chain has values that collide.
PanicHasCause ==
  Ended => (pc = "panicked" <=> \E k \in Keys : Collides(Along, Having(Along, k), k))

-----------------------------------------------------------------------------
(* The inductive invariant.                                                  *)

\* Where the loops stand.
InOrder ==
  /\ pc = "unwrap" =>
       /\ level = 1 \/ level <= Len(chain)
       /\ Len(data) < level /\ todo = {} /\ logData = NoData
  /\ pc = "merge" => level <= Len(data) /\ todo \subseteq DOMAIN data[level]
  /\ pc = "done" => level = Len(data) + 1 /\ todo = {}

\* The errors read so far that have log data; the innermost one is never read.
Logged == {i \in 1 .. (IF pc = "unwrap" THEN level ELSE Len(chain)) - 1 : chain[i].logs}

\* The maps collected are those of the errors read, in their order.
Collected ==
  \E from \in [1 .. Len(data) -> Logged] :
    /\ Enumerates(from, Logged)
    /\ \A i \in DOMAIN data : data[i] = chain[from[i]].data

\* The places of a key in the maps that have been merged already.
Seen(k) == {i \in Having(data, k) : i < level \/ (i = level /\ k \notin todo)}

\* What is merged is the merge of the maps looked at, and nothing in them collides;
\* a panic is a collision of the maps collected.
Merged ==
  /\ pc \in {"merge", "done"} =>
       /\ DOMAIN logData = {k \in Keys : Seen(k) # {}}
       /\ \A k \in DOMAIN logData :
            IsMergeOf(logData[k], data, Seen(k), k) /\ ~Collides(data, Seen(k), k)
  /\ pc = "panicked" => \E k \in Keys : Collides(data, Having(data, k), k)

\* The chain is read and merged as far as the loops have come.
Inv == TypeOK /\ InOrder /\ Collected /\ Merged

-----------------------------------------------------------------------------
(* What the comment in the code says.                                        *)

\* handlers/callback.go:31-33: "slice entries for duplicate keyed entries, but not for
\* duplicate key-value pairs": a value does not come twice under one key.
NoDuplicatePairs ==
  pc = "done" =>
    \A k \in DOMAIN logData : logData[k].kind = "list" => IsInjective(logData[k].items)
=============================================================================
