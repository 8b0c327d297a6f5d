---------------------------- MODULE PagesProofs ----------------------------
(***************************************************************************)
(* Theorems about the pages of the console (MCPages), for any number of    *)
(* rows, keys, fields, channels, models and tabs.  The parts share no      *)
(* variable, so each one has an inductive invariant of its own: a step of  *)
(* the console is a step of one part, and leaves the other parts as they   *)
(* are.  In this order: the multi-key manager, the tables, the settings    *)
(* forms, the edit dialogs, the upstream model updates, the price editors, *)
(* the browser tabs, and last the properties that range over several       *)
(* parts.                                                                  *)
(***************************************************************************)
EXTENDS MCPages, FiniteSetTheorems, TLAPS

-----------------------------------------------------------------------------
(* A step of the console is a step of one part, and the variables of every *)
(* other part stay as they are.                                            *)
LEMMA KeysStep ==
    ASSUME [Next]_vars
    PROVE  Manager!Next \/ UNCHANGED Manager!vars
<1>1. UNCHANGED manager => UNCHANGED Manager!vars
  BY DEF manager, Manager!vars, Manager!traffic
<1>2. Manager!Next \/ UNCHANGED manager
  BY Zenon DEF Next, Of, vars
<1> QED
  BY <1>1, <1>2, Zenon

-----------------------------------------------------------------------------
(* The keys of a channel.                                                  *)

(* The inductive invariant.                                                *)

(* A row has keys, all different.                                          *)
GoodRow(r) ==
    /\ r = [keys |-> r.keys, status |-> r.status, size |-> r.size]
    /\ r.keys \in Seq(Manager!AnyKey) /\ r.keys # <<>>
    /\ \A i, j \in DOMAIN r.keys : r.keys[i] = r.keys[j] => i = j

IsOp(o) ==
    /\ DOMAIN o = {"id", "op", "index", "new", "st", "row"}
    /\ o = [f \in DOMAIN o |-> o[f]]

(* An operation that is going to put a new key into the row.               *)
Brings(o) == o.op \in {"update", "add"} /\ o.st \in {"sent", "read"}

(* The operations in flight are told apart by their ids.                   *)
OpsOK ==
    /\ started \in Nat
    /\ \A o \in ops : IsOp(o) /\ o.id \in Nat /\ o.id < started
    /\ \A o, p \in ops : o.id = p.id => o = p

RowsOK ==
    /\ torn \in BOOLEAN
    /\ GoodRow(record)
    /\ \A o \in ops : o.st = "read" => GoodRow(o.row)

(* A key that has not been put into the row yet is in no row that was or   *)
(* will be saved, and only one operation will put it there.                *)
Unplaced(k) == k \in spare \/ \E o \in ops : Brings(o) /\ o.new = k

NewOK ==
    /\ spare \subseteq NewKeys
    /\ \A o \in ops : Brings(o) => o.new \in NewKeys \ spare
    /\ \A o, p \in ops : Brings(o) /\ Brings(p) /\ o.new = p.new => o = p
    /\ \A k \in NewKeys : Unplaced(k) =>
          /\ k \notin Manager!Keys(record)
          /\ \A o \in ops : o.st = "read" => k \notin Manager!Keys(o.row)

KeysInv == OpsOK /\ RowsOK /\ NewOK /\ Manager!RowWellFormed

-----------------------------------------------------------------------------
(* The n-th of the indices kept.                                           *)
Place(keep, i) == Cardinality({j \in keep : j <= i})
Pos(keep, n) == CHOOSE i \in keep : Place(keep, i) = n

LEMMA PlaceGrows ==
    ASSUME NEW keep \in SUBSET Nat, IsFiniteSet(keep), NEW i \in keep, NEW k \in keep
    PROVE  /\ Place(keep, i) \in 1..Cardinality(keep)
           /\ i < k => Place(keep, i) < Place(keep, k)
<1> DEFINE UpTo(x) == {j \in keep : j <= x}
<1>1. \A x \in keep : x \in Nat
  OBVIOUS
<1>2. \A x \in keep : /\ UpTo(x) \in SUBSET keep /\ IsFiniteSet(UpTo(x))
                      /\ Cardinality(UpTo(x)) \in Nat
                      /\ Cardinality(UpTo(x)) <= Cardinality(keep)
                      /\ x \in UpTo(x)
  <2> TAKE x \in keep
  <2>1. UpTo(x) \in SUBSET keep /\ x \in UpTo(x)
    BY <1>1
  <2> HIDE DEF UpTo
  <2> QED
    BY <2>1, FS_Subset, FS_CardinalityType
<1>3. Cardinality(UpTo(i)) # 0
  <2> HIDE DEF UpTo
  <2> QED
    BY <1>2, FS_EmptySet
<1>4. i < k => Cardinality(UpTo(i)) < Cardinality(UpTo(k))
  <2> HAVE i < k
  <2>1. \A x \in keep : x <= i => x <= k
    <3>1. \A x \in Nat : x <= i => x <= k
      BY <1>1
    <3> QED
      BY <1>1, <3>1
  <2>2. UpTo(i) \in SUBSET UpTo(k)
    BY <2>1, Zenon
  <2>3. k \notin UpTo(i)
    BY <1>1
  <2> HIDE DEF UpTo
  <2>4. Cardinality(UpTo(i)) <= Cardinality(UpTo(k)) /\ UpTo(i) # UpTo(k)
    BY <1>2, <2>2, <2>3, FS_Subset
  <2>5. Cardinality(UpTo(k)) # Cardinality(UpTo(i))
    BY <1>2, <2>2, <2>4, FS_Subset
  <2> QED
    BY <1>2, <2>4, <2>5
<1>5. Place(keep, i) = Cardinality(UpTo(i)) /\ Place(keep, k) = Cardinality(UpTo(k))
  BY DEF Place
<1>6. Cardinality(keep) \in Nat
  BY FS_CardinalityType
<1> HIDE DEF UpTo
<1> QED
  BY <1>2, <1>3, <1>4, <1>5, <1>6

LEMMA PlaceOne ==
    ASSUME NEW keep \in SUBSET Nat, IsFiniteSet(keep), NEW i \in keep, NEW k \in keep,
           Place(keep, i) = Place(keep, k)
    PROVE  i = k
<1>1. i \in Nat /\ k \in Nat
  OBVIOUS
<1>2. Cardinality(keep) \in Nat
  BY FS_CardinalityType
<1>3. Place(keep, i) \in 1..Cardinality(keep) /\ Place(keep, k) \in 1..Cardinality(keep)
  BY PlaceGrows, Zenon
<1>4. i < k => Place(keep, i) < Place(keep, k)
  BY PlaceGrows
<1>5. k < i => Place(keep, k) < Place(keep, i)
  BY PlaceGrows
<1> QED
  BY <1>1, <1>2, <1>3, <1>4, <1>5

(* Pos enumerates the indices kept, each once.                             *)
LEMMA PosEnumerates ==
    ASSUME NEW keep \in SUBSET Nat, IsFiniteSet(keep)
    PROVE  /\ \A n \in 1..Cardinality(keep) :
                 Pos(keep, n) \in keep /\ Place(keep, Pos(keep, n)) = n
           /\ \A i \in keep : \E n \in 1..Cardinality(keep) : Pos(keep, n) = i
<1> DEFINE c == Cardinality(keep)
           f == [i \in keep |-> Place(keep, i)]
<1>1. c \in Nat
  BY FS_CardinalityType
<1>2. IsFiniteSet(1..c) /\ Cardinality(1..c) = c
  <2> HIDE DEF c
  <2> QED
    BY <1>1, FS_Interval
<1>3. f \in [keep -> 1..c]
  BY PlaceGrows
<1>4. \A i, k \in keep : Place(keep, i) = Place(keep, k) => i = k
  BY PlaceOne
<1>5. f \in Injection(keep, 1..c)
  BY <1>3, <1>4 DEF Injection, IsInjective
<1>6. Cardinality(keep) = Cardinality(1..c)
  BY <1>2
<1> HIDE DEF f, c
<1>7. f \in Surjection(keep, 1..c)
  BY <1>2, <1>5, <1>6, FS_Injection
<1>8. \A n \in 1..c : \E i \in keep : f[i] = n
  BY <1>7 DEF Surjection
<1>9. \A n \in 1..c : \E i \in keep : Place(keep, i) = n
  BY <1>8 DEF f
<1>10. \A n \in 1..c : Pos(keep, n) \in keep /\ Place(keep, Pos(keep, n)) = n
  BY <1>9 DEF Pos
<1>11. \A i \in keep : \E n \in 1..c : Pos(keep, n) = i
  <2> TAKE i \in keep
  <2>1. Place(keep, i) \in 1..c
    BY PlaceGrows DEF c
  <2>2. /\ Pos(keep, Place(keep, i)) \in keep
        /\ Place(keep, Pos(keep, Place(keep, i))) = Place(keep, i)
    BY <1>10, <2>1
  <2>3. Pos(keep, Place(keep, i)) = i
    BY <1>4, <2>2
  <2> QED
    BY <2>1, <2>3
<1> QED
  BY <1>10, <1>11 DEF c

-----------------------------------------------------------------------------
(* What Keep makes of a row.                                               *)
LEMMA KeepIs ==
    ASSUME NEW r, NEW keep
    PROVE  LET dom == 1..Cardinality(keep)
           IN  Manager!Keep(r, keep) =
                 [keys |-> [n \in dom |-> r.keys[Pos(keep, n)]],
                  status |-> [n \in {m \in dom : Manager!StatusOf(r, Pos(keep, m)) # 1} |->
                                 Manager!StatusOf(r, Pos(keep, n))],
                  size |-> Cardinality(keep)]
<1> DEFINE dom == 1..Cardinality(keep)
           new == [n \in dom |-> Pos(keep, n)]
           marked == {n \in DOMAIN new : Manager!StatusOf(r, new[n]) # 1}
<1>1. Manager!Keep(r, keep) = [keys |-> [n \in DOMAIN new |-> r.keys[new[n]]],
                       status |-> [n \in marked |-> Manager!StatusOf(r, new[n])],
                       size |-> Cardinality(keep)]
  BY Zenon DEF Manager!Keep, Pos, Place, Manager!Cardinality, Cardinality
<1>2. DOMAIN new = dom /\ \A n \in dom : new[n] = Pos(keep, n)
  OBVIOUS
<1>3. marked = {m \in dom : Manager!StatusOf(r, Pos(keep, m)) # 1}
  BY <1>2
<1> HIDE DEF new, dom
<1>4. [n \in DOMAIN new |-> r.keys[new[n]]] = [n \in dom |-> r.keys[Pos(keep, n)]]
  BY <1>2
<1>5. [n \in marked |-> Manager!StatusOf(r, new[n])]
         = [n \in {m \in dom : Manager!StatusOf(r, Pos(keep, m)) # 1} |-> Manager!StatusOf(r, Pos(keep, n))]
  BY <1>2, <1>3
<1> QED
  BY <1>1, <1>4, <1>5 DEF dom

LEMMA KeepRow ==
    ASSUME NEW r, GoodRow(r), NEW keep \in SUBSET DOMAIN r.keys, keep # {}
    PROVE  LET q == Manager!Keep(r, keep)
           IN  /\ GoodRow(q)
               /\ \A n \in DOMAIN q.keys : \E i \in keep :
                     q.keys[n] = r.keys[i] /\ Manager!StatusOf(q, n) = Manager!StatusOf(r, i)
               /\ \A i \in keep : \E n \in DOMAIN q.keys : q.keys[n] = r.keys[i]
<1> DEFINE c == Cardinality(keep)
           q == Manager!Keep(r, keep)
<1>1. /\ r.keys \in Seq(Manager!AnyKey) /\ DOMAIN r.keys = 1..Len(r.keys) /\ Len(r.keys) \in Nat
      /\ \A i, j \in DOMAIN r.keys : r.keys[i] = r.keys[j] => i = j
  BY DEF GoodRow
<1>2. IsFiniteSet(DOMAIN r.keys)
  BY <1>1, FS_Interval
<1>3. IsFiniteSet(keep) /\ keep \in SUBSET Nat
  BY <1>1, <1>2, FS_Subset
<1>4. c \in Nat \ {0}
  BY <1>3, FS_CardinalityType, FS_EmptySet
<1>5. /\ \A n \in 1..c : Pos(keep, n) \in keep /\ Place(keep, Pos(keep, n)) = n
      /\ \A i \in keep : \E n \in 1..c : Pos(keep, n) = i
  BY <1>3, PosEnumerates
<1> HIDE DEF c
<1>6. q = [keys |-> [n \in 1..c |-> r.keys[Pos(keep, n)]],
           status |-> [n \in {m \in 1..c : Manager!StatusOf(r, Pos(keep, m)) # 1} |->
                          Manager!StatusOf(r, Pos(keep, n))],
           size |-> c]
  BY KeepIs DEF c
<1> HIDE DEF q
<1>7. /\ q.keys = [n \in 1..c |-> r.keys[Pos(keep, n)]]
      /\ q.status = [n \in {m \in 1..c : Manager!StatusOf(r, Pos(keep, m)) # 1} |->
                        Manager!StatusOf(r, Pos(keep, n))]
      /\ q = [keys |-> q.keys, status |-> q.status, size |-> q.size]
  BY <1>6
<1>8. DOMAIN q.keys = 1..c /\ \A n \in 1..c : q.keys[n] = r.keys[Pos(keep, n)]
  BY <1>7
<1>9. \A n \in 1..c : Manager!StatusOf(q, n) = Manager!StatusOf(r, Pos(keep, n))
  <2> TAKE n \in 1..c
  <2>1. CASE Manager!StatusOf(r, Pos(keep, n)) = 1
    <3>1. n \notin DOMAIN q.status
      BY <1>7, <2>1
    <3>2. Manager!StatusOf(q, n) = 1
      BY <3>1 DEF Manager!StatusOf
    <3> QED
      BY <2>1, <3>2
  <2>2. CASE Manager!StatusOf(r, Pos(keep, n)) # 1
    <3>1. n \in DOMAIN q.status /\ q.status[n] = Manager!StatusOf(r, Pos(keep, n))
      BY <1>7, <2>2
    <3>2. Manager!StatusOf(q, n) = q.status[n]
      BY <3>1 DEF Manager!StatusOf
    <3> QED
      BY <3>1, <3>2
  <2> QED
    BY <2>1, <2>2
<1>10. \A n \in 1..c : r.keys[Pos(keep, n)] \in Manager!AnyKey
  <2>1. \A i \in DOMAIN r.keys : r.keys[i] \in Manager!AnyKey
    BY <1>1
  <2> QED
    BY <1>5, <2>1
<1>11. q.keys \in Seq(Manager!AnyKey) /\ q.keys # <<>>
  <2>1. q.keys \in [1..c -> Manager!AnyKey]
    BY <1>7, <1>10
  <2>2. q.keys \in Seq(Manager!AnyKey)
    BY <1>4, <2>1
  <2>3. 1 \in DOMAIN q.keys
    BY <1>4, <1>8
  <2> QED
    BY <2>2, <2>3
<1>12. ASSUME NEW m \in 1..c, NEW n \in 1..c, q.keys[m] = q.keys[n] PROVE m = n
  <2>1. Pos(keep, m) \in DOMAIN r.keys /\ Pos(keep, n) \in DOMAIN r.keys
    BY <1>5
  <2>2. Pos(keep, m) = Pos(keep, n)
    BY <1>1, <1>8, <1>12, <2>1
  <2> QED
    BY <1>5, <2>2
<1>13. GoodRow(q)
  BY <1>7, <1>8, <1>11, <1>12 DEF GoodRow
<1>14. \A n \in DOMAIN q.keys : \E i \in keep :
          q.keys[n] = r.keys[i] /\ Manager!StatusOf(q, n) = Manager!StatusOf(r, i)
  BY <1>5, <1>8, <1>9
<1>15. \A i \in keep : \E n \in DOMAIN q.keys : q.keys[n] = r.keys[i]
  BY <1>5, <1>8
<1> QED
  BY <1>13, <1>14, <1>15 DEF q

-----------------------------------------------------------------------------
(* Channel.Update drops statuses and nothing else.                         *)
LEMMA UpdateRow ==
    ASSUME NEW q, GoodRow(q)
    PROVE  /\ GoodRow(Manager!Update(q)) /\ Manager!Update(q).keys = q.keys
           /\ DOMAIN Manager!Update(q).status \subseteq DOMAIN q.keys
           /\ \A n \in DOMAIN q.keys : Manager!StatusOf(Manager!Update(q), n) = Manager!StatusOf(q, n)
<1>1. /\ q = [keys |-> q.keys, status |-> q.status, size |-> q.size]
      /\ q.keys \in Seq(Manager!AnyKey) /\ q.keys # <<>>
      /\ \A i, j \in DOMAIN q.keys : q.keys[i] = q.keys[j] => i = j
  BY DEF GoodRow
<1> DEFINE u == [keys |-> q.keys,
                 status |-> [i \in DOMAIN q.status \cap DOMAIN q.keys |-> q.status[i]],
                 size |-> Len(q.keys)]
<1>2. Manager!Update(q) = u
  BY DEF Manager!Update
<1>3. /\ Manager!Update(q).keys = q.keys
      /\ Manager!Update(q).status = [i \in DOMAIN q.status \cap DOMAIN q.keys |-> q.status[i]]
      /\ Manager!Update(q) = [keys |-> Manager!Update(q).keys, status |-> Manager!Update(q).status,
                               size |-> Manager!Update(q).size]
  BY <1>2
<1>4. GoodRow(Manager!Update(q))
  BY <1>1, <1>3, Zenon DEF GoodRow
<1>5. \A n \in DOMAIN q.keys : Manager!StatusOf(Manager!Update(q), n) = Manager!StatusOf(q, n)
  BY <1>3 DEF Manager!StatusOf
<1>6. DOMAIN Manager!Update(q).status \subseteq DOMAIN q.keys
  BY <1>3
<1> QED
  BY <1>3, <1>4, <1>5, <1>6

LEMMA KeysAt ==
    ASSUME NEW r, NEW k
    PROVE  k \in Manager!Keys(r) <=> \E i \in DOMAIN r.keys : r.keys[i] = k
BY DEF Manager!Keys

(* The rows the operations make.                                           *)
LEMMA DeleteRow ==
    ASSUME NEW r, GoodRow(r), NEW i, Manager!DeleteKey(r, i) # Manager!Refused
    PROVE  LET keep == DOMAIN r.keys \ {i}
           IN  Manager!DeleteKey(r, i) = Manager!Keep(r, keep) /\ keep \in SUBSET DOMAIN r.keys /\ keep # {}
<1>1. DOMAIN r.keys # {}
  BY DEF GoodRow
<1> QED
  BY <1>1 DEF Manager!DeleteKey

LEMMA DeleteDisabledRow ==
    ASSUME NEW r, GoodRow(r), Manager!DeleteDisabledKeys(r) # Manager!Refused
    PROVE  LET keep == {i \in DOMAIN r.keys : Manager!StatusOf(r, i) # Manager!AutoDisabled}
           IN  \/ keep = {} /\ Manager!DeleteDisabledKeys(r) = [keys |-> record.keys, status |-> <<>>, size |-> 0]
               \/ keep # {} /\ Manager!DeleteDisabledKeys(r) = Manager!Keep(r, keep)
<1> DEFINE keep == {i \in DOMAIN r.keys : Manager!StatusOf(r, i) # Manager!AutoDisabled}
<1>1. DOMAIN r.keys # {}
  BY DEF GoodRow
<1>2. CASE keep = DOMAIN r.keys
  <2>1. keep # {}
    BY <1>1, <1>2
  <2>2. Manager!DeleteDisabledKeys(r) = Manager!Refused
    BY <1>2, <2>1 DEF Manager!DeleteDisabledKeys
  <2> QED
    BY <2>2
<1>3. CASE keep # DOMAIN r.keys /\ keep = {}
  <2>1. Manager!DeleteDisabledKeys(r) = [keys |-> record.keys, status |-> <<>>, size |-> 0]
    BY <1>3, Zenon DEF Manager!DeleteDisabledKeys
  <2> QED
    BY <1>3, <2>1, Zenon
<1>4. CASE keep # DOMAIN r.keys /\ keep # {}
  <2>1. Manager!DeleteDisabledKeys(r) = Manager!Keep(r, keep)
    BY <1>4 DEF Manager!DeleteDisabledKeys
  <2> QED
    BY <1>4, <2>1, Zenon
<1> QED
  BY <1>2, <1>3, <1>4, Zenon

LEMMA ReplaceRow ==
    ASSUME NEW r, GoodRow(r), NEW i \in DOMAIN r.keys, NEW k \in Manager!AnyKey, k \notin Manager!Keys(r)
    PROVE  LET q == [r EXCEPT !.keys[i] = k]
           IN  /\ GoodRow(q) /\ q.status = r.status /\ DOMAIN q.keys = DOMAIN r.keys
               /\ q.keys[i] = k /\ \A j \in DOMAIN r.keys \ {i} : q.keys[j] = r.keys[j]
<1> DEFINE q == [r EXCEPT !.keys[i] = k]
<1>1. /\ r = [keys |-> r.keys, status |-> r.status, size |-> r.size]
      /\ r.keys \in Seq(Manager!AnyKey) /\ r.keys # <<>>
      /\ \A m, n \in DOMAIN r.keys : r.keys[m] = r.keys[n] => m = n
  BY DEF GoodRow
<1>2. q = [keys |-> [r.keys EXCEPT ![i] = k], status |-> r.status, size |-> r.size]
  BY <1>1
<1> HIDE DEF q
<1>3. /\ q.keys = [r.keys EXCEPT ![i] = k] /\ q.status = r.status
      /\ q = [keys |-> q.keys, status |-> q.status, size |-> q.size]
  BY <1>2
<1>4. /\ DOMAIN q.keys = DOMAIN r.keys /\ q.keys[i] = k
      /\ \A j \in DOMAIN r.keys \ {i} : q.keys[j] = r.keys[j]
  BY <1>1, <1>3
<1>5. q.keys \in Seq(Manager!AnyKey) /\ q.keys # <<>>
  BY <1>1, <1>3
<1>6. \A j \in DOMAIN r.keys : r.keys[j] # k
  BY KeysAt
<1>7. ASSUME NEW m \in DOMAIN q.keys, NEW n \in DOMAIN q.keys, q.keys[m] = q.keys[n]
      PROVE  m = n
  BY <1>1, <1>4, <1>6, <1>7, Zenon
<1>8. GoodRow(q)
  BY <1>3, <1>5, <1>7, Zenon DEF GoodRow
<1> QED
  BY <1>3, <1>4, <1>8 DEF q

LEMMA AddRow ==
    ASSUME NEW r, GoodRow(r), NEW k, k \in Manager!AnyKey, k \notin Manager!Keys(r),
           NEW q, q = [keys |-> q.keys, status |-> q.status, size |-> q.size],
           q.keys = Append(r.keys, k), q.status = r.status
    PROVE  /\ GoodRow(q)
           /\ DOMAIN q.keys = DOMAIN r.keys \cup {Len(r.keys) + 1}
           /\ Len(r.keys) + 1 \notin DOMAIN r.keys
           /\ q.keys[Len(r.keys) + 1] = k
           /\ \A j \in DOMAIN r.keys : q.keys[j] = r.keys[j]
<1>1. /\ r.keys \in Seq(Manager!AnyKey) /\ r.keys # <<>>
      /\ DOMAIN r.keys = 1..Len(r.keys) /\ Len(r.keys) \in Nat
      /\ \A m, n \in DOMAIN r.keys : r.keys[m] = r.keys[n] => m = n
  BY DEF GoodRow
<1>4. /\ q.keys \in Seq(Manager!AnyKey) /\ DOMAIN q.keys = 1..(Len(r.keys) + 1)
      /\ q.keys[Len(r.keys) + 1] = k
      /\ \A j \in 1..Len(r.keys) : q.keys[j] = r.keys[j]
  BY <1>1
<1>5. /\ DOMAIN q.keys = DOMAIN r.keys \cup {Len(r.keys) + 1}
      /\ Len(r.keys) + 1 \notin DOMAIN r.keys
      /\ \A j \in DOMAIN r.keys : q.keys[j] = r.keys[j]
  BY <1>1, <1>4
<1>6. \A j \in DOMAIN r.keys : r.keys[j] # k
  BY KeysAt
<1>7. ASSUME NEW m \in DOMAIN q.keys, NEW n \in DOMAIN q.keys, q.keys[m] = q.keys[n]
      PROVE  m = n
  BY <1>1, <1>4, <1>5, <1>6, <1>7, Zenon
<1>8. q.keys # <<>>
  BY <1>1, <1>4
<1>9. GoodRow(q)
  BY <1>4, <1>7, <1>8, Zenon DEF GoodRow
<1> QED
  BY <1>4, <1>5, <1>9

LEMMA AddOp ==
    ASSUME NEW o, GoodRow(o.row), o.new \in Manager!AnyKey, o.new \notin Manager!Keys(o.row),
           Manager!Result(o) = [o.row EXCEPT !.keys = Append(@, o.new)]
    PROVE  /\ GoodRow(Manager!Result(o)) /\ Manager!Result(o).status = o.row.status
           /\ DOMAIN Manager!Result(o).keys = DOMAIN o.row.keys \cup {Len(o.row.keys) + 1}
           /\ Manager!Result(o).keys[Len(o.row.keys) + 1] = o.new
           /\ \A j \in DOMAIN o.row.keys : Manager!Result(o).keys[j] = o.row.keys[j]
<1> DEFINE r == o.row
           q == Manager!Result(o)
<1>1. GoodRow(r) /\ o.new \in Manager!AnyKey /\ o.new \notin Manager!Keys(r)
  OBVIOUS
<1>2. q = [r EXCEPT !.keys = Append(@, o.new)]
  OBVIOUS
<1> HIDE DEF r, q
<1>3. /\ q = [keys |-> q.keys, status |-> q.status, size |-> q.size]
      /\ q.keys = Append(r.keys, o.new) /\ q.status = r.status
  <2>1. r = [keys |-> r.keys, status |-> r.status, size |-> r.size]
    BY <1>1 DEF GoodRow
  <2>2. \A a, b, c, d : [[keys |-> a, status |-> b, size |-> d] EXCEPT !.keys = c]
                          = [keys |-> c, status |-> b, size |-> d]
    OBVIOUS
  <2>3. q = [[keys |-> r.keys, status |-> r.status, size |-> r.size]
               EXCEPT !.keys = Append(r.keys, o.new)]
    BY <1>2, <2>1
  <2>4. q = [keys |-> Append(r.keys, o.new), status |-> r.status, size |-> r.size]
    BY <2>2, <2>3
  <2> QED
    BY <2>4
<1>4. /\ GoodRow(q)
      /\ DOMAIN q.keys = DOMAIN r.keys \cup {Len(r.keys) + 1}
      /\ q.keys[Len(r.keys) + 1] = o.new
      /\ \A j \in DOMAIN r.keys : q.keys[j] = r.keys[j]
  BY <1>1, <1>3, AddRow
<1> QED
  BY <1>3, <1>4 DEF q, r

(* Which of these an operation makes of the row it has read.               *)
LEMMA ResultIs ==
    ASSUME NEW o, GoodRow(o.row), Manager!Result(o) # Manager!Refused
    PROVE  \/ o.op = "delete" /\ Manager!Result(o) = Manager!DeleteKey(o.row, o.index)
           \/ o.op = "delete_disabled" /\ Manager!Result(o) = Manager!DeleteDisabledKeys(o.row)
           \/ /\ o.op = "update" /\ o.index \in DOMAIN o.row.keys
              /\ Manager!Result(o) = [o.row EXCEPT !.keys[o.index] = o.new]
           \/ o.op = "add" /\ Manager!Result(o) = [o.row EXCEPT !.keys = Append(@, o.new)]
           \/ /\ o.op \notin {"delete", "delete_disabled", "update", "add"}
              /\ GoodRow(Manager!Result(o)) /\ Manager!Result(o).keys = o.row.keys
<1> DEFINE r == o.row
<1>0. /\ o.op \in Manager!OfOneKey => o.index \in Manager!Indices(o)
      /\ o.op \in {"update", "look"} => o.index \in DOMAIN r.keys
  BY DEF Manager!Result, Manager!Indices, Manager!OfOneKey
<1>1. CASE o.op = "delete"
  BY <1>0, <1>1 DEF Manager!Result, Manager!OfOneKey
<1>2. CASE o.op = "delete_disabled"
  BY <1>2 DEF Manager!Result, Manager!OfOneKey
<1>3. CASE o.op = "update"
  BY <1>0, <1>3 DEF Manager!Result, Manager!OfOneKey
<1>4. CASE o.op = "add"
  BY <1>4 DEF Manager!Result, Manager!OfOneKey
<1>5. CASE o.op \notin {"delete", "delete_disabled", "update", "add"}
  <2>1. \E s : Manager!Result(o) = [r EXCEPT !.status = s]
    <3>1. CASE o.op = "disable"
      BY <1>0, <3>1 DEF Manager!Result, Manager!OfOneKey
    <3>2. CASE o.op = "enable"
      BY <1>0, <3>2 DEF Manager!Result, Manager!OfOneKey
    <3>3. CASE o.op = "enable_all"
      BY <3>3 DEF Manager!Result, Manager!OfOneKey
    <3>4. CASE o.op = "disable_all"
      <4>1. Manager!Result(o) = Manager!DisableAllKeys(r)
        BY <3>4 DEF Manager!Result, Manager!OfOneKey
      <4> QED
        BY <4>1 DEF Manager!DisableAllKeys
    <3>5. CASE o.op \notin {"disable", "enable", "enable_all", "disable_all"}
      <4>1. Manager!Result(o) = r
        BY <1>0, <1>5, <3>5 DEF Manager!Result
      <4>2. r = [r EXCEPT !.status = r.status]
        BY DEF GoodRow
      <4> QED
        BY <4>1, <4>2
    <3> QED
      BY <3>1, <3>2, <3>3, <3>4, <3>5
  <2>2. PICK s : Manager!Result(o) = [r EXCEPT !.status = s]
    BY <2>1
  <2>3. r = [keys |-> r.keys, status |-> r.status, size |-> r.size]
    BY DEF GoodRow
  <2>4. Manager!Result(o) = [keys |-> r.keys, status |-> s, size |-> r.size]
    BY <2>2, <2>3
  <2>5. Manager!Result(o).keys = r.keys /\ Manager!Result(o).status = s
    BY <2>4
  <2>6. GoodRow(Manager!Result(o))
    BY <2>4, <2>5 DEF GoodRow
  <2> QED
    BY <1>5, <2>5, <2>6
<1> QED
  BY <1>1, <1>2, <1>3, <1>4, <1>5

-----------------------------------------------------------------------------
(* An operation saves keys of the row it read, keys that are in the row    *)
(* now, and the new key it brings.                                         *)
LEMMA ResultGood ==
    ASSUME NEW o, GoodRow(o.row), GoodRow(record), Manager!Result(o) # Manager!Refused,
           o.op \in {"update", "add"} => o.new \in Manager!AnyKey /\ o.new \notin Manager!Keys(o.row)
    PROVE  /\ GoodRow(Manager!Result(o))
           /\ \A k \in Manager!Keys(Manager!Result(o)) :
                 \/ k \in Manager!Keys(o.row) \cup Manager!Keys(record)
                 \/ o.op \in {"update", "add"} /\ k = o.new
<1> DEFINE r == o.row
           q == Manager!Result(o)
<1>1. CASE o.op = "delete" /\ q = Manager!DeleteKey(r, o.index)
  <2>1. PICK keep \in SUBSET DOMAIN r.keys : keep # {} /\ q = Manager!Keep(r, keep)
    BY <1>1, DeleteRow
  <2>2. GoodRow(q) /\ \A n \in DOMAIN q.keys : \E i \in keep : q.keys[n] = r.keys[i]
    BY <2>1, KeepRow
  <2> QED
    BY <2>2, Zenon DEF Manager!Keys
<1>2. CASE o.op = "delete_disabled" /\ q = Manager!DeleteDisabledKeys(r)
  <2> DEFINE keep == {i \in DOMAIN r.keys : Manager!StatusOf(r, i) # Manager!AutoDisabled}
  <2>1. \/ keep = {} /\ q = [keys |-> record.keys, status |-> <<>>, size |-> 0]
        \/ keep # {} /\ q = Manager!Keep(r, keep)
    BY <1>2, DeleteDisabledRow, Zenon
  <2>2. CASE q = [keys |-> record.keys, status |-> <<>>, size |-> 0]
    <3>1. q.keys = record.keys /\ q = [keys |-> q.keys, status |-> q.status, size |-> q.size]
      BY <2>2
    <3>2. GoodRow(q)
      BY <3>1, Zenon DEF GoodRow
    <3>3. Manager!Keys(q) = Manager!Keys(record)
      BY <3>1, Zenon DEF Manager!Keys
    <3> QED
      BY <3>2, <3>3
  <2>3. CASE keep # {} /\ q = Manager!Keep(r, keep)
    <3>1. keep \in SUBSET DOMAIN r.keys
      OBVIOUS
    <3> HIDE DEF keep
    <3>2. GoodRow(q) /\ \A n \in DOMAIN q.keys : \E i \in keep : q.keys[n] = r.keys[i]
      BY <2>3, <3>1, KeepRow
    <3> QED
      BY <3>1, <3>2, Zenon DEF Manager!Keys
  <2> QED
    BY <2>1, <2>2, <2>3, Zenon
<1>3. CASE o.op = "update" /\ o.index \in DOMAIN r.keys
           /\ q = [r EXCEPT !.keys[o.index] = o.new]
  <2>1. /\ GoodRow(q) /\ DOMAIN q.keys = DOMAIN r.keys
        /\ q.keys[o.index] = o.new
        /\ \A j \in DOMAIN r.keys \ {o.index} : q.keys[j] = r.keys[j]
    BY <1>3, ReplaceRow
  <2> QED
    BY <1>3, <2>1 DEF Manager!Keys
<1>4. CASE o.op = "add" /\ q = [r EXCEPT !.keys = Append(@, o.new)]
  <2>1. /\ GoodRow(q)
        /\ DOMAIN q.keys = DOMAIN r.keys \cup {Len(r.keys) + 1}
        /\ q.keys[Len(r.keys) + 1] = o.new
        /\ \A j \in DOMAIN r.keys : q.keys[j] = r.keys[j]
    BY <1>4, AddOp
  <2> QED
    BY <1>4, <2>1 DEF Manager!Keys
<1>5. CASE GoodRow(q) /\ q.keys = r.keys
  BY <1>5 DEF Manager!Keys
<1> QED
  BY <1>1, <1>2, <1>3, <1>4, <1>5, ResultIs

(* A key has the status of its one index.                                  *)
LEMMA StatusAt ==
    ASSUME NEW r, GoodRow(r), NEW i \in DOMAIN r.keys
    PROVE  Manager!Status(r, r.keys[i]) = Manager!StatusOf(r, i)
<1>1. \A j \in DOMAIN r.keys : r.keys[j] = r.keys[i] => j = i
  BY DEF GoodRow
<1>2. (CHOOSE j \in DOMAIN r.keys : r.keys[j] = r.keys[i]) = i
  BY <1>1
<1> QED
  BY <1>2 DEF Manager!Status

LEMMA Carried ==
    ASSUME NEW r, GoodRow(r), NEW q, GoodRow(q),
           \A n \in DOMAIN q.keys : q.keys[n] \in Manager!Keys(r) =>
              \E i \in DOMAIN r.keys : q.keys[n] = r.keys[i] /\ Manager!StatusOf(q, n) = Manager!StatusOf(r, i)
    PROVE  \A k \in Manager!Keys(r) \cap Manager!Keys(q) : Manager!Status(q, k) = Manager!Status(r, k)
<1> TAKE k \in Manager!Keys(r) \cap Manager!Keys(q)
<1>1. PICK n \in DOMAIN q.keys : q.keys[n] = k
  BY KeysAt
<1>2. PICK i \in DOMAIN r.keys : q.keys[n] = r.keys[i] /\ Manager!StatusOf(q, n) = Manager!StatusOf(r, i)
  BY <1>1
<1>3. Manager!Status(q, q.keys[n]) = Manager!StatusOf(q, n) /\ Manager!Status(r, r.keys[i]) = Manager!StatusOf(r, i)
  BY StatusAt
<1> QED
  BY <1>1, <1>2, <1>3

(* Keeping some of the indices keeps their keys and the statuses of these, *)
(* and the other keys are gone.                                            *)
LEMMA KeepFollows ==
    ASSUME NEW r, GoodRow(r), NEW keep \in SUBSET DOMAIN r.keys, keep # {}
    PROVE  LET q == Manager!Update(Manager!Keep(r, keep))
           IN  /\ \A k \in Manager!Keys(r) \cap Manager!Keys(q) : Manager!Status(q, k) = Manager!Status(r, k)
               /\ Manager!Keys(q) = {r.keys[i] : i \in keep}
<1> DEFINE p == Manager!Keep(r, keep)
           q == Manager!Update(p)
<1>1. /\ GoodRow(p)
      /\ \A n \in DOMAIN p.keys : \E i \in keep :
            p.keys[n] = r.keys[i] /\ Manager!StatusOf(p, n) = Manager!StatusOf(r, i)
      /\ \A i \in keep : \E n \in DOMAIN p.keys : p.keys[n] = r.keys[i]
  BY KeepRow
<1> HIDE DEF p
<1>2. /\ GoodRow(q) /\ q.keys = p.keys
      /\ \A n \in DOMAIN q.keys : Manager!StatusOf(q, n) = Manager!StatusOf(p, n)
  BY <1>1, UpdateRow
<1> HIDE DEF q
<1>3. \A n \in DOMAIN q.keys : \E i \in keep :
         q.keys[n] = r.keys[i] /\ Manager!StatusOf(q, n) = Manager!StatusOf(r, i)
  BY <1>1, <1>2
<1>4. \A k \in Manager!Keys(r) \cap Manager!Keys(q) : Manager!Status(q, k) = Manager!Status(r, k)
  BY <1>2, <1>3, Carried
<1>5. Manager!Keys(q) = {r.keys[i] : i \in keep}
  <2>1. \A k : k \in Manager!Keys(q) <=> \E i \in keep : k = r.keys[i]
    <3> TAKE k
    <3>1. k \in Manager!Keys(q) <=> \E n \in DOMAIN q.keys : q.keys[n] = k
      BY KeysAt
    <3>2. \A i \in keep : \E n \in DOMAIN q.keys : q.keys[n] = r.keys[i]
      BY <1>1, <1>2
    <3> QED
      BY <1>3, <3>1, <3>2
  <2> QED
    BY <2>1
<1> QED
  BY <1>4, <1>5 DEF p, q

(* What an operation that works on the current row leaves of it.           *)
LEMMA ResultFollows ==
    ASSUME NEW o, GoodRow(o.row), o.row = record, Manager!Result(o) # Manager!Refused,
           o.op \in {"update", "add"} => o.new \in Manager!AnyKey /\ o.new \notin Manager!Keys(o.row)
    PROVE  LET q == Manager!Update(Manager!Result(o))
           IN  /\ o.op \in {"delete", "update", "add"} =>
                    \A k \in Manager!Keys(record) \cap Manager!Keys(q) : Manager!Status(q, k) = Manager!Status(record, k)
               /\ o.op = "delete" =>
                    Manager!Keys(q) = {record.keys[i] : i \in DOMAIN record.keys \ {o.index}}
               /\ o.op = "delete_disabled" /\ ~Manager!AllAuto(record) =>
                    /\ Manager!Keys(q) = {k \in Manager!Keys(record) : Manager!Status(record, k) # Manager!AutoDisabled}
                    /\ \A k \in Manager!Keys(q) : Manager!Status(q, k) = Manager!Status(record, k)
<1> DEFINE r == o.row
           p == Manager!Result(o)
           q == Manager!Update(p)
<1>1. CASE o.op = "delete" /\ p = Manager!DeleteKey(r, o.index)
  <2> DEFINE keep == DOMAIN r.keys \ {o.index}
  <2>1. p = Manager!Keep(r, keep) /\ keep \in SUBSET DOMAIN r.keys /\ keep # {}
    BY <1>1, DeleteRow
  <2>2. /\ \A k \in Manager!Keys(r) \cap Manager!Keys(q) : Manager!Status(q, k) = Manager!Status(r, k)
        /\ Manager!Keys(q) = {r.keys[i] : i \in keep}
    BY <2>1, KeepFollows
  <2> QED
    BY <1>1, <2>2
<1>2. CASE o.op = "delete_disabled" /\ p = Manager!DeleteDisabledKeys(r)
  <2> SUFFICES ASSUME ~Manager!AllAuto(r)
               PROVE  /\ Manager!Keys(q) = {k \in Manager!Keys(r) : Manager!Status(r, k) # Manager!AutoDisabled}
                      /\ \A k \in Manager!Keys(q) : Manager!Status(q, k) = Manager!Status(r, k)
    BY <1>2
  <2> DEFINE keep == {i \in DOMAIN r.keys : Manager!StatusOf(r, i) # Manager!AutoDisabled}
  <2>1. keep # {} /\ keep \in SUBSET DOMAIN r.keys
    BY DEF Manager!AllAuto
  <2>2. p = Manager!Keep(r, keep)
    BY <1>2, <2>1, DeleteDisabledRow, Zenon
  <2>3. \A i \in DOMAIN r.keys : i \in keep <=> Manager!StatusOf(r, i) # Manager!AutoDisabled
    OBVIOUS
  <2> HIDE DEF keep
  <2>4. /\ \A k \in Manager!Keys(r) \cap Manager!Keys(q) : Manager!Status(q, k) = Manager!Status(r, k)
        /\ Manager!Keys(q) = {r.keys[i] : i \in keep}
    BY <2>1, <2>2, KeepFollows
  <2>5. \A i \in DOMAIN r.keys : Manager!Status(r, r.keys[i]) = Manager!StatusOf(r, i)
    BY StatusAt
  <2>6. \A k : k \in Manager!Keys(q) <=> k \in Manager!Keys(r) /\ Manager!Status(r, k) # Manager!AutoDisabled
    <3> TAKE k
    <3>1. k \in Manager!Keys(q) <=> \E i \in keep : k = r.keys[i]
      BY <2>4
    <3>2. k \in Manager!Keys(r) <=> \E i \in DOMAIN r.keys : r.keys[i] = k
      BY KeysAt
    <3> QED
      BY <2>1, <2>3, <2>5, <3>1, <3>2
  <2> QED
    BY <2>4, <2>6
<1>3. CASE o.op = "update" /\ o.index \in DOMAIN r.keys
           /\ p = [r EXCEPT !.keys[o.index] = o.new]
  <2>1. /\ GoodRow(p) /\ p.status = r.status /\ DOMAIN p.keys = DOMAIN r.keys
        /\ p.keys[o.index] = o.new
        /\ \A j \in DOMAIN r.keys \ {o.index} : p.keys[j] = r.keys[j]
    BY <1>3, ReplaceRow
  <2> HIDE DEF p
  <2>2. /\ GoodRow(q) /\ q.keys = p.keys
        /\ \A n \in DOMAIN p.keys : Manager!StatusOf(q, n) = Manager!StatusOf(p, n)
    BY <2>1, UpdateRow
  <2>3. \A n \in DOMAIN r.keys : Manager!StatusOf(q, n) = Manager!StatusOf(r, n)
    BY <2>1, <2>2 DEF Manager!StatusOf
  <2> HIDE DEF q
  <2>4. \A n \in DOMAIN q.keys : q.keys[n] \in Manager!Keys(r) =>
           \E i \in DOMAIN r.keys : q.keys[n] = r.keys[i] /\ Manager!StatusOf(q, n) = Manager!StatusOf(r, i)
    BY <1>3, <2>1, <2>2, <2>3
  <2>5. \A k \in Manager!Keys(r) \cap Manager!Keys(q) : Manager!Status(q, k) = Manager!Status(r, k)
    BY <2>2, <2>4, Carried
  <2> QED
    BY <1>3, <2>5 DEF p, q
<1>4. CASE o.op = "add" /\ p = [r EXCEPT !.keys = Append(@, o.new)]
  <2>1. /\ GoodRow(p) /\ p.status = r.status
        /\ DOMAIN p.keys = DOMAIN r.keys \cup {Len(r.keys) + 1}
        /\ p.keys[Len(r.keys) + 1] = o.new
        /\ \A j \in DOMAIN r.keys : p.keys[j] = r.keys[j]
    BY <1>4, AddOp
  <2> HIDE DEF p
  <2>2. /\ GoodRow(q) /\ q.keys = p.keys
        /\ \A n \in DOMAIN p.keys : Manager!StatusOf(q, n) = Manager!StatusOf(p, n)
    BY <2>1, UpdateRow
  <2>3. \A n \in DOMAIN r.keys : Manager!StatusOf(q, n) = Manager!StatusOf(r, n)
    BY <2>1, <2>2 DEF Manager!StatusOf
  <2> HIDE DEF q
  <2>4. \A n \in DOMAIN q.keys : q.keys[n] \in Manager!Keys(r) =>
           \E i \in DOMAIN r.keys : q.keys[n] = r.keys[i] /\ Manager!StatusOf(q, n) = Manager!StatusOf(r, i)
    BY <1>4, <2>1, <2>2, <2>3
  <2>5. \A k \in Manager!Keys(r) \cap Manager!Keys(q) : Manager!Status(q, k) = Manager!Status(r, k)
    BY <2>2, <2>4, Carried
  <2> QED
    BY <1>4, <2>5 DEF p, q
<1>5. CASE o.op \notin {"delete", "delete_disabled", "update", "add"}
  BY <1>5
<1> QED
  BY <1>1, <1>2, <1>3, <1>4, <1>5, ResultIs

-----------------------------------------------------------------------------
(* What SaveRow of an operation does to the row.                           *)
LEMMA SaveGood ==
    ASSUME KeysInv, NEW o \in ops, Manager!SaveRow(o)
    PROVE  /\ o.st = "read" /\ GoodRow(o.row) /\ GoodRow(record')
           /\ o.op \in {"update", "add"} => o.new \in Manager!AnyKey /\ o.new \notin Manager!Keys(o.row)
           /\ \/ record' = record
              \/ /\ Manager!Result(o) # Manager!Refused /\ record' = Manager!Update(Manager!Result(o))
                 /\ DOMAIN record'.status \subseteq DOMAIN record'.keys
                 /\ \A k \in Manager!Keys(record') :
                       \/ k \in Manager!Keys(o.row) \cup Manager!Keys(record)
                       \/ Brings(o) /\ k = o.new
<1>1. /\ o.st = "read"
      /\ record' = IF Manager!Result(o) = Manager!Refused \/ o.op = "look" THEN record ELSE Manager!Update(Manager!Result(o))
  BY DEF Manager!SaveRow
<1>2. GoodRow(o.row) /\ GoodRow(record)
  BY <1>1 DEF KeysInv, RowsOK
<1>3. o.op \in {"update", "add"} => o.new \in Manager!AnyKey /\ o.new \notin Manager!Keys(o.row)
  <2> HAVE o.op \in {"update", "add"}
  <2>1. Brings(o) /\ o.new \in NewKeys
    BY <1>1 DEF KeysInv, NewOK, Brings
  <2>2. Unplaced(o.new)
    BY <2>1 DEF Unplaced
  <2> QED
    BY <1>1, <2>1, <2>2 DEF KeysInv, NewOK, Manager!AnyKey
<1>4. CASE record' = record
  BY <1>1, <1>2, <1>3, <1>4
<1>5. CASE Manager!Result(o) # Manager!Refused /\ record' = Manager!Update(Manager!Result(o))
  <2> DEFINE q == Manager!Result(o)
  <2>1. /\ GoodRow(q)
        /\ \A k \in Manager!Keys(q) : \/ k \in Manager!Keys(o.row) \cup Manager!Keys(record)
                                      \/ o.op \in {"update", "add"} /\ k = o.new
    BY <1>2, <1>3, <1>5, ResultGood
  <2>2. /\ GoodRow(Manager!Update(q)) /\ Manager!Update(q).keys = q.keys
        /\ DOMAIN Manager!Update(q).status \subseteq DOMAIN q.keys
    BY <2>1, UpdateRow
  <2> HIDE DEF q
  <2>3. Manager!Keys(record') = Manager!Keys(q)
    BY <1>5, <2>2 DEF Manager!Keys, q
  <2>4. o.op \in {"update", "add"} => Brings(o)
    BY <1>1 DEF Brings
  <2>5. GoodRow(record') /\ DOMAIN record'.status \subseteq DOMAIN record'.keys
    BY <1>5, <2>2 DEF q
  <2>6. \A k \in Manager!Keys(record') : \/ k \in Manager!Keys(o.row) \cup Manager!Keys(record)
                                         \/ Brings(o) /\ k = o.new
    BY <2>1, <2>3, <2>4
  <2> QED
    BY <1>1, <1>2, <1>3, <1>5, <2>5, <2>6
<1> QED
  BY <1>1, <1>4, <1>5

(* A step that leaves the row and its statuses alone, starts no operation, *)
(* and at most makes operations disappear.                                 *)
LEMMA FewerOps ==
    ASSUME KeysInv, ops' \subseteq ops, UNCHANGED <<record, started, spare, torn>>
    PROVE  KeysInv'
<1>1. OpsOK'
  BY DEF KeysInv, OpsOK
<1>2. RowsOK'
  BY DEF KeysInv, RowsOK
<1>3. Manager!RowWellFormed'
  BY DEF KeysInv, Manager!RowWellFormed
<1>4. NewOK'
  <2>1. \A k : Unplaced(k)' => Unplaced(k)
    BY DEF Unplaced
  <2>2. Manager!Keys(record)' = Manager!Keys(record)
    BY DEF Manager!Keys
  <2> QED
    BY <2>1, <2>2 DEF KeysInv, NewOK
<1> QED
  BY <1>1, <1>2, <1>3, <1>4 DEF KeysInv

LEMMA InitInv ==
    ASSUME Manager!Init
    PROVE  KeysInv
<1>1. record.keys = InitialKeys /\ record.status = <<>> /\ ops = {} /\ started = 0
      /\ spare = NewKeys /\ torn = FALSE
      /\ record = [keys |-> InitialKeys, status |-> <<>>, size |-> record.size]
  BY DEF Manager!Init
<1>2. GoodRow(record)
  BY <1>1, KeysAssumption DEF GoodRow
<1>3. \A k \in NewKeys : k \notin Manager!Keys(record)
  BY <1>1, KeysAssumption DEF Manager!Keys
<1>4. Manager!RowWellFormed
  BY <1>1, <1>2 DEF Manager!RowWellFormed, GoodRow
<1>5. OpsOK /\ RowsOK
  BY <1>1, <1>2 DEF OpsOK, RowsOK
<1>6. NewOK
  BY <1>1, <1>3 DEF NewOK
<1> QED
  BY <1>4, <1>5, <1>6 DEF KeysInv

-----------------------------------------------------------------------------
(* A click starts an operation, with a key that was not used yet if it     *)
(* brings one.                                                             *)
LEMMA ClickStep ==
    ASSUME KeysInv, NEW op, NEW i, NEW new, Manager!Click(op, i, new),
           op \in {"update", "add"} => new \in spare
    PROVE  KeysInv'
<1> DEFINE n == [id |-> started, op |-> op, index |-> i, new |-> new, st |-> "sent",
                 row |-> Manager!Refused]
<1>1. /\ started' = started + 1 /\ spare' = spare \ {new} /\ ops' = ops \cup {n}
      /\ UNCHANGED <<record, torn>>
  BY Zenon DEF Manager!Click, Manager!traffic
<1>2. /\ n.id = started /\ n.op = op /\ n.new = new /\ n.st = "sent" /\ IsOp(n)
  BY DEF IsOp
<1> HIDE DEF n
<1>3. OpsOK /\ RowsOK /\ NewOK /\ Manager!RowWellFormed /\ started \in Nat
  BY DEF KeysInv, OpsOK
<1>4. OpsOK'
  <2>1. started' \in Nat /\ \A o \in ops : o.id # started /\ o.id < started'
    BY <1>1, <1>3 DEF OpsOK
  <2>2. \A o \in ops' : IsOp(o) /\ o.id \in Nat /\ o.id < started'
    BY <1>1, <1>2, <1>3, <2>1 DEF OpsOK
  <2>3. \A o, p \in ops' : o.id = p.id => o = p
    BY <1>1, <1>2, <1>3, <2>1 DEF OpsOK
  <2> QED
    BY <2>1, <2>2, <2>3 DEF OpsOK
<1>5. RowsOK' /\ Manager!RowWellFormed'
  BY <1>1, <1>2, <1>3 DEF RowsOK, Manager!RowWellFormed
<1>6. NewOK'
  <2>1. Brings(n) => new \in spare /\ new \in NewKeys
    BY <1>2, <1>3 DEF Brings, NewOK
  <2>2. \A o \in ops : Brings(o) => o.new \notin spare
    BY <1>3 DEF NewOK
  <2>3. \A k : Unplaced(k)' => Unplaced(k)
    BY <1>1, <1>2, <2>1 DEF Unplaced
  <2>4. spare' \subseteq NewKeys /\ \A o \in ops' : Brings(o) => o.new \in NewKeys \ spare'
    BY <1>1, <1>2, <1>3, <2>1 DEF NewOK
  <2>5. \A o, p \in ops' : Brings(o) /\ Brings(p) /\ o.new = p.new => o = p
    BY <1>1, <1>2, <1>3, <2>1, <2>2 DEF NewOK
  <2>6. \A k \in NewKeys : Unplaced(k)' =>
           k \notin Manager!Keys(record') /\ \A o \in ops' : o.st = "read" => k \notin Manager!Keys(o.row)
    BY <1>1, <1>2, <1>3, <2>3 DEF NewOK, Manager!Keys
  <2> QED
    BY <2>4, <2>5, <2>6 DEF NewOK, Brings, Manager!Keys
<1> QED
  BY <1>4, <1>5, <1>6 DEF KeysInv

(* An operation goes on: its state and its row change, nothing else.       *)
GoesOn(o, s, r) == [o EXCEPT !.st = s, !.row = r]

LEMMA OpGoesOn ==
    ASSUME NEW o, IsOp(o), NEW s, NEW r
    PROVE  /\ IsOp(GoesOn(o, s, r))
           /\ GoesOn(o, s, r).id = o.id /\ GoesOn(o, s, r).op = o.op
           /\ GoesOn(o, s, r).new = o.new
           /\ GoesOn(o, s, r).st = s /\ GoesOn(o, s, r).row = r
BY DEF IsOp, GoesOn

(* ReadRow takes a copy of the row.                                        *)
LEMMA ReadStep ==
    ASSUME KeysInv, NEW o \in ops, Manager!ReadRow(o)
    PROVE  KeysInv'
<1> DEFINE n == GoesOn(o, "read", record)
<1>1. /\ o.st = "sent" /\ ops' = (ops \ {o}) \cup {n}
      /\ UNCHANGED <<record, started, spare, torn>>
  BY Zenon DEF Manager!ReadRow, Manager!traffic, GoesOn
<1>2. OpsOK /\ RowsOK /\ NewOK /\ Manager!RowWellFormed /\ IsOp(o)
  BY DEF KeysInv, OpsOK
<1>4. /\ n.id = o.id /\ n.op = o.op /\ n.new = o.new /\ n.st = "read" /\ n.row = record
      /\ IsOp(n)
  BY <1>2, OpGoesOn
<1> HIDE DEF n
<1>5. OpsOK'
  BY <1>1, <1>2, <1>4 DEF OpsOK
<1>6. RowsOK' /\ Manager!RowWellFormed'
  BY <1>1, <1>2, <1>4 DEF RowsOK, Manager!RowWellFormed
<1>7. NewOK'
  <2>1. Brings(n) <=> Brings(o)
    BY <1>1, <1>4 DEF Brings
  <2>2. \A k : Unplaced(k)' => Unplaced(k)
    BY <1>1, <1>4, <2>1 DEF Unplaced
  <2>3. spare' \subseteq NewKeys /\ \A p \in ops' : Brings(p) => p.new \in NewKeys \ spare'
    BY <1>1, <1>2, <1>4, <2>1 DEF NewOK
  <2>4. \A p, q \in ops' : Brings(p) /\ Brings(q) /\ p.new = q.new => p = q
    BY <1>1, <1>2, <1>4, <2>1 DEF NewOK
  <2>5. \A k \in NewKeys : Unplaced(k)' =>
           k \notin Manager!Keys(record') /\ \A p \in ops' : p.st = "read" => k \notin Manager!Keys(p.row)
    BY <1>1, <1>2, <1>4, <2>2 DEF NewOK
  <2> QED
    BY <2>3, <2>4, <2>5 DEF NewOK, Brings, Manager!Keys
<1> QED
  BY <1>5, <1>6, <1>7 DEF KeysInv

(* SaveRow writes the whole row, and with it the key the operation brings. *)
LEMMA SaveStep ==
    ASSUME KeysInv, NEW o \in ops, Manager!SaveRow(o)
    PROVE  KeysInv'
<1> DEFINE s == IF Manager!Result(o) = Manager!Refused THEN "refused" ELSE "done"
           n == GoesOn(o, s, Manager!Refused)
<1>1. /\ ops' = (ops \ {o}) \cup {n} /\ torn' = (torn /\ record' = record)
      /\ UNCHANGED <<started, spare>>
  BY Zenon DEF Manager!SaveRow, GoesOn
<1>2. OpsOK /\ RowsOK /\ NewOK /\ Manager!RowWellFormed /\ IsOp(o)
  BY DEF KeysInv, OpsOK
<1>3. /\ o.st = "read" /\ GoodRow(o.row) /\ GoodRow(record')
      /\ \/ record' = record
         \/ /\ DOMAIN record'.status \subseteq DOMAIN record'.keys
            /\ \A k \in Manager!Keys(record') : \/ k \in Manager!Keys(o.row) \cup Manager!Keys(record)
                                                \/ Brings(o) /\ k = o.new
  BY SaveGood
<1>4. s \in {"refused", "done"}
  OBVIOUS
<1> HIDE DEF s
<1>5. IsOp(n) /\ n.id = o.id /\ n.op = o.op /\ n.new = o.new /\ n.st = s
  BY <1>2, OpGoesOn
<1> HIDE DEF n
<1>6. /\ n.id = o.id /\ n.op = o.op /\ n.new = o.new /\ n.st # "read" /\ n.st # "sent"
      /\ IsOp(n) /\ ~Brings(n)
  BY <1>4, <1>5 DEF Brings
<1>7. OpsOK'
  BY <1>1, <1>2, <1>6 DEF OpsOK
<1>8. RowsOK'
  BY <1>1, <1>2, <1>3, <1>6 DEF RowsOK
<1>9. Manager!RowWellFormed'
  <2>1. record'.keys # <<>>
    BY <1>3 DEF GoodRow
  <2>2. ~torn' => DOMAIN record'.status \subseteq DOMAIN record'.keys
    BY <1>1, <1>2, <1>3 DEF Manager!RowWellFormed
  <2> QED
    BY <2>1, <2>2 DEF Manager!RowWellFormed
<1>10. NewOK'
  <2>1. \A k : Unplaced(k)' => Unplaced(k)
    BY <1>1, <1>6 DEF Unplaced
  <2>2. spare' \subseteq NewKeys /\ \A p \in ops' : Brings(p) => p.new \in NewKeys \ spare'
    BY <1>1, <1>2, <1>6 DEF NewOK
  <2>3. \A p, q \in ops' : Brings(p) /\ Brings(q) /\ p.new = q.new => p = q
    BY <1>1, <1>2, <1>6 DEF NewOK
  <2>4. ASSUME NEW k \in NewKeys, Unplaced(k)'
        PROVE  k \notin Manager!Keys(record') /\ \A p \in ops' : p.st = "read" => k \notin Manager!Keys(p.row)
    <3>1. /\ k \notin Manager!Keys(record)
          /\ \A p \in ops : p.st = "read" => k \notin Manager!Keys(p.row)
      BY <1>2, <2>1, <2>4 DEF NewOK
    <3>2. Brings(o) => k # o.new
      BY <1>1, <1>2, <1>6, <2>4 DEF Unplaced, NewOK
    <3>3. k \notin Manager!Keys(record')
      BY <1>3, <3>1, <3>2
    <3>4. \A p \in ops' : p.st = "read" => k \notin Manager!Keys(p.row)
      BY <1>1, <1>6, <3>1
    <3> QED
      BY <3>3, <3>4
  <2> QED
    BY <2>2, <2>3, <2>4 DEF NewOK, Brings, Manager!Keys
<1> QED
  BY <1>7, <1>8, <1>9, <1>10 DEF KeysInv

(* A failing request writes statuses it read earlier, and no keys.         *)
LEMMA FailureStep ==
    ASSUME KeysInv, Manager!SaveWithoutKey
    PROVE  KeysInv'
<1>1. /\ record' = [record EXCEPT !.status = failure.status, !.size = failure.size]
      /\ torn' = ~(DOMAIN failure.status \subseteq DOMAIN record.keys)
      /\ UNCHANGED <<ops, started, spare>>
  BY Zenon DEF Manager!SaveWithoutKey
<1>2. OpsOK /\ RowsOK /\ NewOK /\ Manager!RowWellFormed /\ GoodRow(record)
  BY DEF KeysInv, RowsOK
<1>3. record' = [keys |-> record.keys, status |-> failure.status, size |-> failure.size]
  <2>1. record = [keys |-> record.keys, status |-> record.status, size |-> record.size]
    BY <1>2 DEF GoodRow
  <2> QED
    BY <1>1, <2>1
<1>4. /\ record'.keys = record.keys /\ record'.status = failure.status
      /\ record' = [keys |-> record'.keys, status |-> record'.status, size |-> record'.size]
  BY <1>3
<1>5. GoodRow(record')
  BY <1>2, <1>4, Zenon DEF GoodRow
<1>6. OpsOK' /\ RowsOK'
  BY <1>1, <1>2, <1>5 DEF OpsOK, RowsOK
<1>7. Manager!RowWellFormed'
  BY <1>1, <1>2, <1>4 DEF Manager!RowWellFormed, GoodRow
<1>8. NewOK'
  <2>1. Manager!Keys(record)' = Manager!Keys(record)
    BY <1>4 DEF Manager!Keys
  <2>2. \A k : Unplaced(k)' <=> Unplaced(k)
    BY <1>1 DEF Unplaced
  <2> QED
    BY <1>1, <1>2, <2>1, <2>2 DEF NewOK
<1> QED
  BY <1>6, <1>7, <1>8 DEF KeysInv

LEMMA NextInv ==
    ASSUME KeysInv, Manager!Next \/ UNCHANGED Manager!vars
    PROVE  KeysInv'
<1>1. CASE Manager!ClickAny
  <2>1. ASSUME NEW op \in {"enable_all", "disable_all", "delete_disabled"},
               Manager!Click(op, 0, Manager!NoKey)
        PROVE  KeysInv'
    BY <2>1, ClickStep
  <2>2. ASSUME NEW op \in {"disable", "enable", "delete", "look"},
               NEW i \in DOMAIN listed.keys, Manager!Click(op, i, Manager!NoKey)
        PROVE  KeysInv'
    BY <2>2, ClickStep
  <2>3. ASSUME NEW new \in spare, Manager!Click("add", 0, new) PROVE KeysInv'
    BY <2>3, ClickStep
  <2>4. ASSUME NEW new \in spare, NEW i \in DOMAIN listed.keys, Manager!Click("update", i, new)
        PROVE  KeysInv'
    BY <2>4, ClickStep
  <2> QED
    BY <1>1, <2>1, <2>2, <2>3, <2>4, Zenon DEF Manager!ClickAny
<1>2. ASSUME NEW o \in ops, Manager!ReadRow(o) PROVE KeysInv'
  BY <1>2, ReadStep
<1>3. ASSUME NEW o \in ops, Manager!SaveRow(o) PROVE KeysInv'
  BY <1>3, SaveStep
<1>4. ASSUME NEW o \in ops, Manager!Answered(o) \/ Manager!OpFails(o) PROVE KeysInv'
  <2>1. ops' \subseteq ops /\ UNCHANGED <<record, started, spare, torn>>
    BY <1>4 DEF Manager!Answered, Manager!OpFails, Manager!traffic
  <2> QED
    BY <2>1, FewerOps
<1>5. CASE Manager!SaveWithoutKey
  BY <1>5, FailureStep
<1>6. CASE Manager!Close \/ (\E l \in lists : Manager!GetKeyStatus(l) \/ Manager!ListArrives(l) \/ Manager!ListFails(l))
           \/ (\E k \in Manager!AnyKey : Manager!FailureReads(k)) \/ UNCHANGED Manager!vars
  <2>1. UNCHANGED <<ops, record, started, spare, torn>>
    BY <1>6, Zenon DEF Manager!Close, Manager!GetKeyStatus, Manager!ListArrives, Manager!ListFails, Manager!FailureReads, Manager!vars, Manager!traffic
  <2> QED
    BY <2>1, FewerOps
<1>7. CASE Manager!Open
  <2>1. UNCHANGED <<ops, record, spare, torn>> /\ started' = started + 1
    BY <1>7, Zenon DEF Manager!Open, Manager!traffic
  <2>2. OpsOK'
    BY <2>1 DEF KeysInv, OpsOK
  <2>3. RowsOK' /\ Manager!RowWellFormed'
    BY <2>1 DEF KeysInv, RowsOK, Manager!RowWellFormed
  <2>4. NewOK'
    BY <2>1 DEF KeysInv, NewOK, Unplaced, Manager!Keys
  <2> QED
    BY <2>2, <2>3, <2>4 DEF KeysInv
<1> QED
  BY <1>1, <1>2, <1>3, <1>4, <1>5, <1>6, <1>7, Zenon DEF Manager!Next

(* The step in which an operation is done is its SaveRow.                  *)
LEMMA DoneBySave ==
    ASSUME KeysInv, Manager!Next, NEW o \in ops, o.st = "read", NEW n \in ops', n.id = o.id,
           n.st = "done"
    PROVE  Manager!SaveRow(o)
<1>1. OpsOK
  BY DEF KeysInv
<1>2. n \notin ops
  BY <1>1 DEF OpsOK
<1>3. CASE Manager!ClickAny
  <2>1. \E m : ops' = ops \cup {m} /\ m.st = "sent"
    <3>1. ASSUME NEW op, NEW i, NEW new, Manager!Click(op, i, new)
          PROVE  \E m : ops' = ops \cup {m} /\ m.st = "sent"
      <4> DEFINE m == [id |-> started, op |-> op, index |-> i, new |-> new, st |-> "sent",
                       row |-> Manager!Refused]
      <4>1. ops' = ops \cup {m}
        BY <3>1, Zenon DEF Manager!Click
      <4>2. m.st = "sent"
        OBVIOUS
      <4> QED
        BY <4>1, <4>2, Zenon
    <3> QED
      BY <1>3, <3>1, Zenon DEF Manager!ClickAny
  <2> QED
    BY <1>2, <2>1
<1>4. ASSUME NEW p \in ops, Manager!ReadRow(p) PROVE FALSE
  <2> DEFINE m == GoesOn(p, "read", record)
  <2>1. ops' = (ops \ {p}) \cup {m}
    BY <1>4, Zenon DEF Manager!ReadRow, GoesOn
  <2>2. m.st = "read"
    BY <1>1, OpGoesOn DEF OpsOK
  <2> QED
    BY <1>2, <2>1, <2>2
<1>5. ASSUME NEW p \in ops, Manager!SaveRow(p) PROVE p = o
  <2> DEFINE m == GoesOn(p, IF Manager!Result(p) = Manager!Refused THEN "refused" ELSE "done", Manager!Refused)
  <2>1. ops' = (ops \ {p}) \cup {m}
    BY <1>5, Zenon DEF Manager!SaveRow, GoesOn
  <2>2. m.id = p.id
    BY <1>1, OpGoesOn DEF OpsOK
  <2>3. n = m
    BY <1>2, <2>1
  <2> QED
    BY <1>1, <2>2, <2>3 DEF OpsOK
<1>6. CASE \/ Manager!Open \/ Manager!Close \/ Manager!SaveWithoutKey
           \/ \E p \in ops : Manager!Answered(p) \/ Manager!OpFails(p)
           \/ \E l \in lists : Manager!GetKeyStatus(l) \/ Manager!ListArrives(l) \/ Manager!ListFails(l)
           \/ \E k \in Manager!AnyKey : Manager!FailureReads(k)
  <2>1. ops' \subseteq ops
    BY <1>6 DEF Manager!Open, Manager!Close, Manager!SaveWithoutKey, Manager!Answered, Manager!OpFails, Manager!GetKeyStatus, Manager!ListArrives,
                Manager!ListFails, Manager!FailureReads
  <2> QED
    BY <1>2, <2>1
<1> QED
  BY <1>3, <1>4, <1>5, <1>6, Zenon DEF Manager!Next

-----------------------------------------------------------------------------
(* The list of the dialog.  While no request has failed and traffic has    *)
(* changed no status, one list is in flight at most; and when the list on  *)
(* the screen is older than the row, a saved operation is going to load it *)
(* again or a list with the row as it is now is on its way.                *)
IsList(l) ==
    /\ DOMAIN l = {"id", "read", "row"}
    /\ l = [f \in DOMAIN l |-> l[f]]

Reloads(o) == o.st = "done" /\ o.op # "look"
Brought(l) == ~l.read \/ l.row = record

ListInv ==
    /\ \A l \in lists : IsList(l)
    /\ ~excused => \A l, m \in lists : l = m
    /\ ~excused /\ dialog =>
         \/ \E o \in ops : Reloads(o)
         \/ \E l \in lists : Brought(l)
         \/ listed = record /\ lists = {}

LEMMA ListUnchanged ==
    ASSUME ListInv, UNCHANGED <<record, ops, lists, dialog, listed, excused>>
    PROVE  ListInv'
BY DEF ListInv, Brought

(* loadKeyStatus adds an unread list.                                      *)
LEMMA LoadStep ==
    ASSUME ListInv, Manager!LoadKeyStatus
    PROVE  ListInv'
<1>1. PICK n : lists' = lists \cup {[id |-> n, read |-> FALSE, row |-> Manager!Refused]}
  BY Zenon DEF Manager!LoadKeyStatus
<1> DEFINE l == [id |-> n, read |-> FALSE, row |-> Manager!Refused]
<1>2. IsList(l) /\ ~l.read
  BY DEF IsList
<1> HIDE DEF l
<1>3. lists' = lists \cup {l} /\ excused' = (excused \/ lists # {})
  BY <1>1, Zenon DEF l, Manager!LoadKeyStatus
<1>4. \A m \in lists' : IsList(m)
  BY <1>2, <1>3 DEF ListInv
<1>5. ~excused' => lists' = {l}
  BY <1>3
<1>6. Brought(l)'
  BY <1>2 DEF Brought
<1> QED
  BY <1>3, <1>4, <1>5, <1>6, Zenon DEF ListInv

(* Operations come and go on, as long as none is lost that reloads.        *)
LEMMA OpsGoOn ==
    ASSUME ListInv, UNCHANGED <<record, lists, dialog, listed, excused>>,
           \A o \in ops : Reloads(o) => o \in ops'
    PROVE  ListInv'
<1>1. \A l : Brought(l)' <=> Brought(l)
  BY DEF Brought
<1> QED
  BY <1>1, Zenon DEF ListInv

LEMMA ListStep ==
    ASSUME KeysInv, ListInv, Manager!Next \/ UNCHANGED Manager!vars
    PROVE  ListInv'
<1>1. CASE Manager!Open
  BY <1>1, LoadStep DEF Manager!Open
<1>2. CASE Manager!Close
  <2>1. UNCHANGED <<record, ops, lists, excused>> /\ ~dialog'
    BY <1>2 DEF Manager!Close
  <2> QED
    BY <2>1, Zenon DEF ListInv
<1>3. CASE Manager!ClickAny
  <2>1. ASSUME NEW op, NEW i, NEW new, Manager!Click(op, i, new)
        PROVE  ListInv'
    <3>1. UNCHANGED <<record, lists, dialog, listed, excused>> /\ ops \subseteq ops'
      BY <2>1 DEF Manager!Click
    <3> QED
      BY <3>1, OpsGoOn
  <2> QED
    BY <1>3, <2>1, Zenon DEF Manager!ClickAny
<1>4. ASSUME NEW o \in ops, Manager!ReadRow(o) PROVE ListInv'
  <2>1. UNCHANGED <<record, lists, dialog, listed, excused>> /\ ops \ {o} \subseteq ops'
        /\ ~Reloads(o)
    BY <1>4 DEF Manager!ReadRow, Reloads
  <2> QED
    BY <2>1, OpsGoOn
<1>5. ASSUME NEW o \in ops, Manager!SaveRow(o) PROVE ListInv'
  <2> DEFINE s == IF Manager!Result(o) = Manager!Refused THEN "refused" ELSE "done"
             n == GoesOn(o, s, Manager!Refused)
  <2>1. /\ ops' = (ops \ {o}) \cup {n} /\ o.st = "read"
        /\ record' = IF Manager!Result(o) = Manager!Refused \/ o.op = "look" THEN record
                     ELSE Manager!Update(Manager!Result(o))
        /\ UNCHANGED <<lists, dialog, listed, excused>>
    BY <1>5, Zenon DEF Manager!SaveRow, GoesOn
  <2>2. n.op = o.op /\ n.st = s
    BY OpGoesOn DEF KeysInv, OpsOK
  <2>3. CASE record' = record
    <3>1. ~Reloads(o)
      BY <2>1 DEF Reloads
    <3> QED
      BY <2>1, <2>3, <3>1, OpsGoOn
  <2>4. CASE record' # record
    <3>1. Reloads(n)
      BY <2>1, <2>2, <2>4 DEF Reloads
    <3> HIDE DEF n
    <3>2. n \in ops'
      BY <2>1
    <3> QED
      BY <2>1, <3>1, <3>2, Zenon DEF ListInv, Reloads
  <2> QED
    BY <2>3, <2>4
<1>6. ASSUME NEW o \in ops, Manager!Answered(o) PROVE ListInv'
  <2>1. CASE Manager!LoadKeyStatus
    BY <2>1, LoadStep
  <2>2. CASE ~Reloads(o) /\ UNCHANGED <<lists, excused>>
    <3>1. UNCHANGED <<record, lists, dialog, listed, excused>> /\ ops' = ops \ {o}
      BY <1>6, <2>2 DEF Manager!Answered
    <3> QED
      BY <2>2, <3>1, OpsGoOn
  <2> QED
    BY <1>6, <2>1, <2>2, Zenon DEF Manager!Answered, Reloads
<1>7. ASSUME NEW o \in ops, Manager!OpFails(o) PROVE ListInv'
  <2>1. lists' = lists /\ excused' = TRUE
    BY <1>7 DEF Manager!OpFails
  <2> QED
    BY <2>1, Zenon DEF ListInv
<1>8. ASSUME NEW l \in lists, Manager!GetKeyStatus(l) PROVE ListInv'
  <2>0. PICK m : m = [l EXCEPT !.read = TRUE, !.row = record]
    BY Zenon
  <2>1. /\ lists' = (lists \ {l}) \cup {m}
        /\ UNCHANGED <<record, ops, dialog, listed, excused>>
    BY <1>8, <2>0, Zenon DEF Manager!GetKeyStatus
  <2>2. IsList(m) /\ m.row = record
    BY <2>0 DEF ListInv, IsList
  <2>3. Brought(m)'
    BY <2>1, <2>2 DEF Brought
  <2>4. \A k \in lists' : IsList(k)
    BY <2>1, <2>2 DEF ListInv
  <2>5. ~excused' => \A k \in lists' : k = m
    BY <2>1 DEF ListInv
  <2>6. m \in lists'
    BY <2>1
  <2> QED
    BY <2>3, <2>4, <2>5, <2>6, Zenon DEF ListInv
<1>9. ASSUME NEW l \in lists, Manager!ListArrives(l) PROVE ListInv'
  <2>1. /\ lists' = lists \ {l} /\ listed' = l.row /\ l.read
        /\ UNCHANGED <<record, ops, dialog, excused>>
    BY <1>9 DEF Manager!ListArrives
  <2>2. ~excused => lists' = {}
    BY <2>1 DEF ListInv
  <2>3. ~excused /\ dialog => (\E o \in ops : Reloads(o)) \/ listed' = record
    BY <2>1 DEF ListInv, Brought
  <2>4. \A k \in lists' : IsList(k)
    BY <2>1 DEF ListInv
  <2> QED
    BY <2>1, <2>2, <2>3, <2>4, Zenon DEF ListInv
<1>10. ASSUME NEW l \in lists, Manager!ListFails(l) PROVE ListInv'
  <2>1. lists' \subseteq lists /\ excused' = TRUE
    BY <1>10 DEF Manager!ListFails
  <2> QED
    BY <2>1, Zenon DEF ListInv
<1>11. CASE Manager!SaveWithoutKey
  <2>1. lists' = lists /\ excused' = TRUE
    BY <1>11 DEF Manager!SaveWithoutKey
  <2> QED
    BY <2>1, Zenon DEF ListInv
<1>12. CASE (\E k \in Manager!AnyKey : Manager!FailureReads(k)) \/ UNCHANGED Manager!vars
  <2>1. UNCHANGED <<record, ops, lists, dialog, listed, excused>>
    BY <1>12, Zenon DEF Manager!FailureReads, Manager!vars
  <2> QED
    BY <2>1, ListUnchanged
<1> QED
  BY <1>1, <1>2, <1>3, <1>4, <1>5, <1>6, <1>7, <1>8, <1>9, <1>10, <1>11, <1>12, Zenon
     DEF Manager!Next

-----------------------------------------------------------------------------
(* The invariants of the manager hold in the console.                      *)
LEMMA KeysInductive == Spec => [](KeysInv /\ ListInv)
<1>1. Init => KeysInv /\ ListInv
  <2> SUFFICES ASSUME Manager!Init PROVE KeysInv /\ ListInv
    BY Zenon DEF Init
  <2>1. KeysInv
    BY InitInv
  <2>2. lists = {} /\ ~dialog
    BY DEF Manager!Init
  <2> QED
    BY <2>1, <2>2 DEF ListInv
<1>2. KeysInv /\ ListInv /\ [Next]_vars => (KeysInv /\ ListInv)'
  <2> SUFFICES ASSUME KeysInv, ListInv, [Next]_vars PROVE KeysInv' /\ ListInv'
    OBVIOUS
  <2>1. Manager!Next \/ UNCHANGED Manager!vars
    BY KeysStep
  <2> QED
    BY <2>1, NextInv, ListStep
<1> QED
  BY <1>1, <1>2, PTL DEF Spec

(* Whatever operations of the dialog and failing requests overlap, and     *)
(* whoever saves last: the row keeps a key, ManageMultiKeys never leaves a *)
(* status without a key, and once everything is answered the dialog lists  *)
(* the row as it is, unless a request failed, two lists were in flight at  *)
(* once or traffic disabled a key.                                         *)
THEOREM Listed == Spec => []KeysListed
<1>1. KeysInv /\ ListInv => KeysListed
  <2> SUFFICES ASSUME KeysInv, ListInv PROVE Manager!RowWellFormed /\ Manager!ListFresh
    BY DEF KeysListed, On
  <2>1. Manager!RowWellFormed
    BY DEF KeysInv
  <2>2. Manager!ListFresh
    BY Zenon DEF ListInv, Manager!ListFresh
  <2> QED
    BY <2>1, <2>2
<1> QED
  BY <1>1, KeysInductive, PTL

(* Keys and statuses are addressed by index, and still an operation that   *)
(* is saved over the row it has read moves no status to another key:       *)
(* deleting one key or the disabled ones, replacing a key and adding one   *)
(* leave every other key its status and delete exactly what they are to    *)
(* delete, for rows of any length.  It says nothing of an operation that   *)
(* another one has overtaken between its read and its save: that one works *)
(* on an outdated row, and its index may be another key's.                 *)
THEOREM StatusGoesWithKey == Spec => StatusFollowsKey
<1> DEFINE Kept ==
      \A o \in ops :
         /\ o.st = "read" /\ o.row = record /\ record' # record
         /\ \E n \in ops' : n.id = o.id /\ n.st = "done"
         =>
         /\ o.op \in {"delete", "update", "add"} =>
              \A k \in Manager!Keys(record) \cap Manager!Keys(record') : Manager!Status(record', k) = Manager!Status(record, k)
         /\ o.op = "delete" =>
              Manager!Keys(record') = {record.keys[i] : i \in DOMAIN record.keys \ {o.index}}
         /\ o.op = "delete_disabled" /\ ~Manager!AllAuto(record) =>
              /\ Manager!Keys(record') = {k \in Manager!Keys(record) : Manager!Status(record, k) # Manager!AutoDisabled}
              /\ \A k \in Manager!Keys(record') : Manager!Status(record', k) = Manager!Status(record, k)
<1>1. KeysInv /\ [Next]_vars => [Kept]_(Manager!vars)
  <2> SUFFICES ASSUME KeysInv, Manager!Next PROVE Kept
    BY KeysStep
  <2> SUFFICES ASSUME NEW o \in ops, o.st = "read", o.row = record, record' # record,
                      NEW n \in ops', n.id = o.id, n.st = "done"
               PROVE  /\ o.op \in {"delete", "update", "add"} =>
                           \A k \in Manager!Keys(record) \cap Manager!Keys(record') :
                               Manager!Status(record', k) = Manager!Status(record, k)
                      /\ o.op = "delete" =>
                           Manager!Keys(record')
                              = {record.keys[i] : i \in DOMAIN record.keys \ {o.index}}
                      /\ o.op = "delete_disabled" /\ ~Manager!AllAuto(record) =>
                           /\ Manager!Keys(record')
                                 = {k \in Manager!Keys(record) : Manager!Status(record, k) # Manager!AutoDisabled}
                           /\ \A k \in Manager!Keys(record') : Manager!Status(record', k) = Manager!Status(record, k)
    BY Zenon
  <2>1. Manager!SaveRow(o)
    BY DoneBySave
  <2>2. /\ GoodRow(o.row) /\ Manager!Result(o) # Manager!Refused /\ record' = Manager!Update(Manager!Result(o))
        /\ o.op \in {"update", "add"} => o.new \in Manager!AnyKey /\ o.new \notin Manager!Keys(o.row)
    BY <2>1, SaveGood
  <2> QED
    BY <2>2, ResultFollows
<1>2. Spec => [][Kept]_(Manager!vars)
  BY <1>1, KeysInductive, PTL DEF Spec
<1> QED
  BY <1>2 DEF StatusFollowsKey, Manager!StatusFollowsKey
-----------------------------------------------------------------------------
(* The tables.  A request answers the calls for its URL; Counted are the   *)
(* hooks as long as they number every request.                             *)
Matches(c, r) == r.kind = c.kind /\ r.q = c.q
Counted == table \in {"usage", "deployments"} \/ (table = "channels" /\ ~typed)
Latest(c) == c.gen = counter
NoWord == ""

(* Numbers grow, the request of a row action is that of one of the three   *)
(* tables, and nothing on the wire is newer than the server's data.        *)
TableBase ==
    /\ table \in Tables!Table
    /\ {typed, failed, joined, crossed, loading, searching} \subseteq BOOLEAN
    /\ counter \in Nat /\ version \in Nat \ {0}
    /\ \A c \in calls : c.gen \in 0..counter
    /\ table \in {"tokens", "users", "tasks"} => \A c \in calls : c.gen = 0
    /\ Counted => \A c \in calls : c.gen # 0
    /\ form # NoWord => typed
    /\ write # Tables!None =>
         /\ table \in {"tokens", "users", "deployments"}
         /\ DOMAIN write = {"kw", "group", "page", "size", "ver", "rows"}
    /\ \A r \in wire : /\ DOMAIN r = {"kind", "q", "ver"} /\ r = [f \in DOMAIN r |-> r[f]]
                       /\ r.ver \in 0..version

(* The call with the highest number asks for what was asked last, and as   *)
(* long as it is awaited the rows may be others.                           *)
LatestInv ==
    Counted /\ ~failed =>
        /\ \A c \in calls : Latest(c) => c.q = last
        /\ (\E c \in calls : Latest(c)) \/ shown = Tables!RowsOf(last, shown.ver)

(* The page follows the rows, and the rows a click remembers are still     *)
(* those on screen unless others came in.                                  *)
PageInv ==
    /\ table \in {"tokens", "tasks"} /\ shown # Tables!None /\ ~crossed => page = shown.page
    /\ table = "users" /\ ~failed /\ ~crossed => calls # {} \/ page = shown.page
    /\ write # Tables!None /\ table # "deployments" /\ ~crossed => write.rows = shown

(* No answer that the newest call waits for was read before the last       *)
(* action.                                                                 *)
FreshInv ==
    table = "deployments" /\ ~failed /\ ~joined /\ write = Tables!None =>
        /\ \A c \in calls, r \in wire : Latest(c) /\ Matches(c, r) => r.ver \in {0, version}
        /\ (\E c \in calls : Latest(c)) \/ shown.ver = version

SelectInv ==
    /\ Tables!SelectionOnScreen
    /\ table # "deployments" => selected = Tables!None

(* A spinner that turns is one that a pending call or action will stop.    *)
Stops(c, spinner) == spinner \in Tables!TurnsOff(c, "ok")

TurnInv ==
    /\ table = "usage" => ~searching
    /\ (failed => table \in {"usage", "deployments"}) =>
         /\ loading => \/ \E c \in calls : Stops(c, "loading")
                       \/ write # Tables!None /\ table # "deployments"
         /\ searching => \E c \in calls : Stops(c, "searching")

TableInv == TableBase /\ LatestInv /\ PageInv /\ FreshInv /\ SelectInv /\ TurnInv

LEMMA TablesStep ==
    ASSUME [Next]_vars
    PROVE  Tables!Next \/ UNCHANGED Tables!vars
<1>1. UNCHANGED paged => UNCHANGED Tables!vars
  BY DEF paged, Tables!vars, Tables!box, Tables!view, Tables!spinners, Tables!net
<1>2. Tables!Next \/ UNCHANGED paged
  BY Zenon DEF Next, Of, vars
<1> QED
  BY <1>1, <1>2, Zenon

(* Which spinners the answer of a call stops, hook by hook.                *)
StopsIs(c) ==
    /\ table = "channels" => /\ Stops(c, "loading") <=> Tables!Applies(c) /\ "loading" \in c.spin
                             /\ Stops(c, "searching") <=> "searching" \in c.spin
    /\ table = "usage" => \A s : Stops(c, s) <=> Tables!Applies(c) /\ s \in c.spin
    /\ table = "deployments" =>
         \A s \in {"loading", "searching"} : Stops(c, s) <=> Tables!Applies(c)
    /\ table \in {"tokens", "users", "tasks"} => \A s : Stops(c, s) <=> s \in c.spin

LEMMA StopsTable ==
    /\ \A c : StopsIs(c)
    /\ \A c : StopsIs(c)'
<1>1. \A c : StopsIs(c)
  BY DEF StopsIs, Stops, Tables!TurnsOff
<1>2. \A c : StopsIs(c)'
  BY DEF StopsIs, Stops, Tables!TurnsOff
<1> QED
  BY <1>1, <1>2

(* A call as the hook of this table makes it.                              *)
Fits(d) ==
    /\ d.gen \in {0, counter + 1}
    /\ table \in {"tokens", "users", "tasks"} => d.gen = 0
    /\ Counted => d.gen # 0
    /\ table = "channels" /\ d.gen # 0 => "loading" \in d.spin
    /\ table = "usage" => d.spin = {"loading"}

(* Calls are sent.                                                         *)
LEMMA SendStep ==
    ASSUME TableInv, NEW cs, NEW c \in cs, Tables!Get(cs, c), Tables!SpinFor(cs),
           \A d \in cs : Fits(d), table # "tokens" => cs = {c},
           UNCHANGED <<table, form, shown, selected, version, typed, failed, crossed>>,
           table \in {"tokens", "tasks"} => page' = page,
           write' = write \/ (table = "deployments" /\ write' = Tables!None)
    PROVE  TableInv'
<1>1. /\ counter' = IF c.gen = 0 THEN counter ELSE c.gen
      /\ calls' = calls \cup cs
      /\ wire' = wire \cup {[kind |-> d.kind, q |-> d.q, ver |-> 0] :
                              d \in {e \in cs : ~Tables!Flies(e)}}
      /\ joined' = (joined \/ \E d \in cs : Tables!Stale(d))
      /\ last' = c.q
  BY DEF Tables!Get
<1>2. TableBase /\ LatestInv /\ PageInv /\ FreshInv /\ SelectInv /\ TurnInv
  BY DEF TableInv
<1>3. /\ counter \in Nat /\ counter' \in Nat /\ counter <= counter'
      /\ c.gen # 0 => counter' = counter + 1 /\ c.gen = counter'
      /\ c.gen = 0 => counter' = counter
  BY <1>1, <1>2 DEF TableBase, Fits
<1>4. \A d \in cs : d.gen = 0 \/ (d.gen = counter' /\ c.gen # 0)
  BY <1>3 DEF Fits, Tables!Table
<1>5. Counted' <=> Counted
  BY DEF Counted
<1>6. TableBase'
  <2>1. \A d \in calls' : d.gen \in 0..counter'
    BY <1>1, <1>2, <1>3, <1>4 DEF TableBase
  <2>2. table' \in {"tokens", "users", "tasks"} => \A d \in calls' : d.gen = 0
    BY <1>1, <1>2 DEF TableBase, Fits
  <2>3. Counted' => \A d \in calls' : d.gen # 0
    BY <1>1, <1>2, <1>5 DEF TableBase, Fits
  <2>4. \A r \in wire' : /\ DOMAIN r = {"kind", "q", "ver"} /\ r = [f \in DOMAIN r |-> r[f]]
                         /\ r.ver \in 0..version'
    BY <1>1, <1>2 DEF TableBase
  <2>5. joined' \in BOOLEAN /\ loading' \in BOOLEAN /\ searching' \in BOOLEAN
    BY <1>1, <1>2 DEF TableBase, Tables!SpinFor
  <2>6. /\ {typed', failed', joined', crossed', loading', searching'} \subseteq BOOLEAN
        /\ table' \in Tables!Table /\ version' \in Nat \ {0} /\ (form' # NoWord => typed')
    BY <1>2, <2>5 DEF TableBase, Tables!Table
  <2>7. write' # Tables!None =>
         /\ table' \in {"tokens", "users", "deployments"}
         /\ DOMAIN write' = {"kw", "group", "page", "size", "ver", "rows"}
    BY <1>2 DEF TableBase
  <2> QED
    BY <1>3, <2>1, <2>2, <2>3, <2>4, <2>6, <2>7 DEF TableBase, Tables!Table
<1>7. Counted => c.gen = counter + 1 /\ counter' = counter + 1 /\ cs = {c}
  BY <1>3 DEF Fits, Counted
<1>8. Counted => \A d \in calls' : d.gen = counter' <=> d = c
  <2>1. \A d \in calls : d.gen \in Nat /\ d.gen <= counter
    BY <1>2 DEF TableBase
  <2> QED
    BY <1>1, <1>3, <1>7, <2>1
<1>9. LatestInv'
  BY <1>1, <1>5, <1>8 DEF LatestInv, Latest
<1>10. PageInv'
  <2>1. calls' # {}
    BY <1>1
  <2> QED
    BY <1>2, <2>1 DEF PageInv
<1>11. FreshInv'
  <2> SUFFICES ASSUME table = "deployments", ~joined'
               PROVE  /\ \A d \in calls', r \in wire' :
                            Latest(d)' /\ Matches(d, r) => r.ver \in {0, version}
                      /\ \E d \in calls' : Latest(d)'
    BY DEF FreshInv, Matches
  <2>1. Counted
    BY DEF Counted
  <2>2. ~Tables!Stale(c)
    BY <1>1
  <2>3. \A r \in wire : Matches(c, r) => r.ver \in {0, version}
    <3>1. \A r \in wire : Matches(c, r) => r.ver \notin 1..(version - 1)
      BY <2>2 DEF Tables!Stale, Matches
    <3>2. version \in Nat \ {0} /\ \A r \in wire : r.ver \in 0..version
      BY <1>2 DEF TableBase
    <3> QED
      BY <3>1, <3>2
  <2>4. \A r \in wire' : r \in wire \/ r.ver = 0
    BY <1>1
  <2>5. \A d \in calls' : Latest(d)' <=> d = c
    BY <1>8, <2>1 DEF Latest
  <2>6. c \in calls'
    BY <1>1
  <2> QED
    BY <2>3, <2>4, <2>5, <2>6, Zenon
<1>12. SelectInv'
  BY <1>2 DEF SelectInv, Tables!SelectionOnScreen
<1>13. TurnInv'
  <2>1. \A d \in cs : Tables!Applies(d)'
    BY <1>3, <1>4 DEF Tables!Applies
  <2>2. c.gen = 0 => \A d : Tables!Applies(d)' <=> Tables!Applies(d)
    BY <1>3 DEF Tables!Applies
  <2>3. \A d \in cs, s \in {"loading", "searching"} : s \in d.spin => Stops(d, s)'
    BY <1>2, <2>1, StopsTable DEF StopsIs, TableBase, Tables!Table
  <2>4. c.gen = 0 => \A d, s : Stops(d, s) /\ s \in {"loading", "searching"} => Stops(d, s)'
    BY <1>2, <2>2, StopsTable DEF StopsIs, TableBase, Tables!Table
  <2>5. c.gen # 0 => Stops(c, "loading")'
    <3>1. c.gen # 0 => table \in {"channels", "usage", "deployments"} /\ Fits(c)
      BY <1>2 DEF Fits, TableBase, Tables!Table
    <3> QED
      BY <2>1, <3>1, StopsTable DEF StopsIs, Fits
  <2>6. table = "usage" => ~searching'
    <3> HAVE table = "usage"
    <3>1. ~searching
      BY <1>2 DEF TurnInv
    <3>2. \A d \in cs : d.spin = {"loading"}
      BY DEF Fits
    <3>3. \A d \in cs : "searching" \notin d.spin
      BY <3>2
    <3> QED
      BY <3>1, <3>3, Zenon DEF Tables!SpinFor
  <2>7. c.gen # 0 /\ searching' => \/ Stops(c, "searching")'
                                   \/ table = "channels"
    <3>1. c.gen # 0 => table \in {"channels", "usage", "deployments"}
      BY <1>2 DEF Fits, TableBase, Tables!Table
    <3> QED
      BY <2>1, <2>6, <3>1, StopsTable DEF StopsIs
  <2>8. table = "channels" => \A d : Stops(d, "searching") => Stops(d, "searching")'
    BY StopsTable DEF StopsIs
  <2>9. loading' => loading \/ \E d \in cs : Stops(d, "loading")'
    BY <2>3 DEF Tables!SpinFor
  <2>10. searching' => searching \/ \E d \in cs : Stops(d, "searching")'
    BY <2>3 DEF Tables!SpinFor
  <2>11. ASSUME failed => table \in {"usage", "deployments"}, loading'
         PROVE  (\E d \in calls' : Stops(d, "loading")')
                \/ (write' # Tables!None /\ table' # "deployments")
    <3>1. CASE loading
      <4>1. (\E d \in calls : Stops(d, "loading"))
            \/ (write # Tables!None /\ table # "deployments")
        BY <1>2, <2>11, <3>1, Zenon DEF TurnInv
      <4>2. \A d : Stops(d, "loading") => Stops(d, "loading")' \/ Stops(c, "loading")'
        BY <2>4, <2>5
      <4>3. write # Tables!None /\ table # "deployments" => write' = write
        OBVIOUS
      <4> QED
        BY <1>1, <4>1, <4>2, <4>3
    <3>2. CASE \E d \in cs : Stops(d, "loading")'
      BY <1>1, <3>2
    <3> QED
      BY <2>9, <2>11, <3>1, <3>2
  <2>12. ASSUME failed => table \in {"usage", "deployments"}, searching'
         PROVE  \E d \in calls' : Stops(d, "searching")'
    <3>1. CASE searching
      <4>1. \E d \in calls : Stops(d, "searching")
        BY <1>2, <2>12, <3>1, Zenon DEF TurnInv
      <4>2. \A d : Stops(d, "searching") => Stops(d, "searching")' \/ Stops(c, "searching")'
        BY <2>4, <2>7, <2>8, <2>12
      <4> QED
        BY <1>1, <4>1, <4>2
    <3>2. CASE \E d \in cs : Stops(d, "searching")'
      BY <1>1, <3>2
    <3> QED
      BY <2>10, <2>12, <3>1, <3>2
  <2> QED
    BY <2>6, <2>11, <2>12, Zenon DEF TurnInv
<1> QED
  BY <1>6, <1>9, <1>10, <1>11, <1>12, <1>13 DEF TableInv

(* What the hooks send fits.                                               *)
LEMMA ChannelFits ==
    ASSUME TableBase, table = "channels", NEW e, NEW g, NEW p, NEW s
    PROVE  Fits(Tables!ChannelCall(e, g, p, s))
<1> DEFINE c == [kind |-> IF form = NoWord THEN "load" ELSE "search",
                 q |-> [Tables!Q(form, p, s) EXCEPT !.group = g],
                 gen |-> IF form = NoWord THEN counter + 1 ELSE 0,
                 spin |-> {IF form = NoWord THEN "loading" ELSE "searching", e}]
<1>1. Tables!ChannelCall(e, g, p, s) = c
  BY Zenon DEF Tables!ChannelCall, NoWord
<1>2. counter \in Nat /\ (form # NoWord => typed)
  BY DEF TableBase
<1>3. /\ c.gen = IF form = NoWord THEN counter + 1 ELSE 0
      /\ c.spin = {IF form = NoWord THEN "loading" ELSE "searching", e}
  OBVIOUS
<1> HIDE DEF c
<1>4. c.gen # 0 => form = NoWord /\ "loading" \in c.spin
  BY <1>2, <1>3
<1>5. Counted => c.gen # 0
  BY <1>2, <1>3 DEF Counted
<1>6. Fits(c)
  BY <1>2, <1>3, <1>4, <1>5 DEF Fits
<1> QED
  BY <1>1, <1>6

LEMMA PlainFits ==
    ASSUME TableBase, NEW c, c.gen = 0, table \in {"tokens", "users", "tasks"}
    PROVE  Fits(c)
BY DEF Fits, Counted

LEMMA TokenPlain ==
    ASSUME NEW p, NEW s
    PROVE  /\ Tables!TokenLoad(p, s).gen = 0 /\ Tables!TokenLoad(p, s).spin = {"loading"}
           /\ Tables!TokenSearch(p, s).gen = 0
           /\ \A k : Tables!UserCall(k, p, s).gen = 0
           /\ Tables!TaskCall(p, s).gen = 0 /\ Tables!TaskCall(p, s).spin = {"loading"}
<1>1. \A x, y : Tables!TokenLoad(x, y)
         = [kind |-> "load", q |-> Tables!Q(NoWord, x, y), gen |-> 0, spin |-> {"loading"}]
  BY Zenon DEF Tables!TokenLoad, NoWord
<1>2. \A x, y : Tables!TokenLoad(x, y).gen = 0 /\ Tables!TokenLoad(x, y).spin = {"loading"}
  BY <1>1
<1>3. \/ Tables!TokenSearch(p, s) = Tables!TokenLoad(1, size)
      \/ Tables!TokenSearch(p, s)
           = [kind |-> "search", q |-> Tables!Q(form, p, s), gen |-> 0, spin |-> {"searching"}]
  BY Zenon DEF Tables!TokenSearch
<1>4. Tables!TokenSearch(p, s).gen = 0
  BY <1>2, <1>3
<1>5. ASSUME NEW k PROVE Tables!UserCall(k, p, s).gen = 0
  <2>1. \/ Tables!UserCall(k, p, s) = Tables!TokenLoad(p, s)
        \/ Tables!UserCall(k, p, s)
             = [kind |-> "search", q |-> Tables!Q(k, p, s), gen |-> 0, spin |-> {"searching"}]
    BY Zenon DEF Tables!UserCall
  <2> QED
    BY <1>2, <2>1
<1>6. Tables!TaskCall(p, s).gen = 0 /\ Tables!TaskCall(p, s).spin = {"loading"}
  BY DEF Tables!TaskCall
<1> QED
  BY <1>2, <1>4, <1>5, <1>6

LEMMA UsageFits ==
    ASSUME TableBase, table = "usage", NEW p, NEW s
    PROVE  Fits(Tables!UsageCall(p, s))
<1>1. /\ Tables!UsageCall(p, s).gen = counter + 1
      /\ Tables!UsageCall(p, s).spin = {"loading"}
  BY DEF Tables!UsageCall, Tables!TaskCall
<1>2. counter \in Nat
  BY DEF TableBase
<1> QED
  BY <1>1, <1>2 DEF Fits

LEMMA DeploymentFits ==
    ASSUME TableBase, table = "deployments", NEW k, NEW p, NEW s
    PROVE  Fits(Tables!DeploymentCall(k, p, s))
<1>1. Tables!DeploymentCall(k, p, s)
        = [kind |-> IF k = NoWord THEN "load" ELSE "search", q |-> Tables!Q(k, p, s),
           gen |-> counter + 1, spin |-> {IF k = NoWord THEN "loading" ELSE "searching"}]
  BY Zenon DEF Tables!DeploymentCall, NoWord
<1>2. Tables!DeploymentCall(k, p, s).gen = counter + 1
  BY <1>1
<1>3. counter \in Nat
  BY DEF TableBase
<1> QED
  BY <1>2, <1>3 DEF Fits

(* The actions that send one call.                                         *)
Screen == <<table, form, shown, selected, version, typed, failed, crossed>>

LEMMA OneStep ==
    ASSUME TableInv, NEW c, Fits(c), Tables!Send(c), UNCHANGED Screen,
           table \in {"tokens", "tasks"} => page' = page,
           write' = write \/ (table = "deployments" /\ write' = Tables!None)
    PROVE  TableInv'
<1>1. Tables!Get({c}, c) /\ Tables!SpinFor({c})
  BY DEF Tables!Send
<1>2. \A d \in {c} : Fits(d)
  OBVIOUS
<1>3. c \in {c}
  OBVIOUS
<1>4. UNCHANGED <<table, form, shown, selected, version, typed, failed, crossed>>
  BY DEF Screen
<1> HIDE DEF Screen
<1> QED
  BY <1>1, <1>2, <1>3, <1>4, SendStep

LEMMA SearchStep ==
    ASSUME TableInv, Tables!Search
    PROVE  TableInv'
<1>1. TableBase
  BY DEF TableInv
<1>2. UNCHANGED <<table, write, version, writes, typed, failed, crossed>>
  BY Zenon DEF Tables!Search
<1>3. CASE table = "channels" /\ Tables!SearchChannels
  <2>1. UNCHANGED Screen /\ page' = page
    BY <1>2, <1>3 DEF Tables!SearchChannels, Tables!box, Tables!view, Screen
  <2>2. Tables!Send(Tables!ChannelCall("searching", 0, 1, size))
    BY <1>3, Zenon DEF Tables!SearchChannels
  <2> QED
    BY <1>1, <1>2, <1>3, <2>1, <2>2, ChannelFits, OneStep
<1>4. CASE table = "tokens" /\ Tables!SearchTokens
  <2>1. UNCHANGED Screen /\ page' = page
    BY <1>2, <1>4 DEF Tables!SearchTokens, Tables!box, Tables!view, Screen
  <2>2. Tables!Send(Tables!TokenSearch(1, size))
    BY <1>4, Zenon DEF Tables!SearchTokens
  <2>3. Fits(Tables!TokenSearch(1, size))
    BY <1>1, <1>4, TokenPlain, PlainFits
  <2> QED
    BY <1>2, <2>1, <2>2, <2>3, OneStep
<1>5. CASE table = "users" /\ Tables!SearchUsers
  <2>1. UNCHANGED Screen /\ page' = page
    BY <1>2, <1>5 DEF Tables!SearchUsers, Tables!box, Tables!view, Screen
  <2>2. Tables!Send(Tables!UserCall(form, 1, size))
    BY <1>5, Zenon DEF Tables!SearchUsers
  <2>3. Tables!UserCall(form, 1, size).gen = 0
    BY TokenPlain, Zenon
  <2>4. Fits(Tables!UserCall(form, 1, size))
    BY <1>1, <1>5, <2>3, PlainFits
  <2> QED
    BY <1>2, <2>1, <2>2, <2>4, OneStep
<1>6. CASE table = "tasks" /\ Tables!RefreshTasks
  <2>1. UNCHANGED Screen /\ page' = page
    BY <1>2, <1>6 DEF Tables!RefreshTasks, Tables!box, Tables!view, Screen
  <2>2. Tables!Send(Tables!TaskCall(1, size))
    BY <1>6, Zenon DEF Tables!RefreshTasks
  <2>3. Fits(Tables!TaskCall(1, size))
    BY <1>1, <1>6, TokenPlain, PlainFits
  <2> QED
    BY <1>2, <2>1, <2>2, <2>3, OneStep
<1>7. CASE table = "usage" /\ Tables!RefreshUsage
  <2>1. UNCHANGED Screen
    BY <1>2, <1>7 DEF Tables!RefreshUsage, Tables!box, Tables!view, Screen
  <2>2. Tables!Send(Tables!UsageCall(1, size))
    BY <1>7, Zenon DEF Tables!RefreshUsage
  <2> QED
    BY <1>1, <1>2, <1>7, <2>1, <2>2, UsageFits, OneStep
<1>8. CASE table = "deployments" /\ Tables!SearchDeployments
  <2>1. UNCHANGED Screen
    BY <1>2, <1>8 DEF Tables!SearchDeployments, Tables!box, Tables!view, Screen
  <2>2. Tables!Send(Tables!DeploymentCall(form, 1, size))
    BY <1>8, Zenon DEF Tables!SearchDeployments
  <2> QED
    BY <1>1, <1>2, <1>8, <2>1, <2>2, DeploymentFits, OneStep
<1> QED
  BY <1>3, <1>4, <1>5, <1>6, <1>7, <1>8, Zenon DEF Tables!Search

LEMMA PageStep ==
    ASSUME TableInv, NEW p, Tables!ChangePage(p)
    PROVE  TableInv'
<1>1. TableBase
  BY DEF TableInv
<1>2. UNCHANGED <<table, write, version, writes, typed, failed, crossed>>
  BY Zenon DEF Tables!ChangePage
<1>3. CASE table = "channels" /\ Tables!PageChannels(p)
  <2>1. UNCHANGED <<form, shown, selected>>
    BY <1>3, Zenon DEF Tables!PageChannels, Tables!box
  <2>2. UNCHANGED Screen
    BY <1>2, <2>1 DEF Screen
  <2>3. \/ Tables!Send(Tables!ChannelCall("loading", 0, p, size))
        \/ Tables!Send(Tables!ChannelCall("searching", p, size, size))
    BY <1>3, Zenon DEF Tables!PageChannels
  <2> QED
    BY <1>1, <1>2, <1>3, <2>2, <2>3, ChannelFits, OneStep
<1>4. CASE table = "tokens" /\ Tables!PageTokens(p)
  <2>1. UNCHANGED Screen /\ page' = page
    <3>1. UNCHANGED <<form, shown, selected, page>>
      BY <1>4, Zenon DEF Tables!PageTokens, Tables!view
    <3> QED
      BY <1>2, <3>1 DEF Screen
  <2>2. PICK c : c.gen = 0 /\ Tables!Send(c)
    <3>1. \/ Tables!Send(Tables!TokenSearch(p, size))
          \/ Tables!Send(Tables!TokenLoad(p, size))
      BY <1>4, Zenon DEF Tables!PageTokens
    <3> QED
      BY <3>1, TokenPlain
  <2>3. Fits(c)
    BY <1>1, <1>4, <2>2, PlainFits
  <2> QED
    BY <1>2, <2>1, <2>2, <2>3, OneStep
<1>5. CASE table = "users" /\ Tables!PageUsers(p)
  <2>1. UNCHANGED Screen
    BY <1>2, <1>5 DEF Tables!PageUsers, Tables!box, Screen
  <2>2. Tables!Send(Tables!UserCall(form, p, size))
    BY <1>5, Zenon DEF Tables!PageUsers
  <2>3. Fits(Tables!UserCall(form, p, size))
    BY <1>1, <1>5, TokenPlain, PlainFits
  <2> QED
    BY <1>2, <1>5, <2>1, <2>2, <2>3, OneStep
<1>6. CASE table = "tasks" /\ Tables!PageTasks(p)
  <2>1. UNCHANGED Screen /\ page' = page
    BY <1>2, <1>6 DEF Tables!PageTasks, Tables!box, Tables!view, Screen
  <2>2. Tables!Send(Tables!TaskCall(p, size))
    BY <1>6, Zenon DEF Tables!PageTasks
  <2>3. Fits(Tables!TaskCall(p, size))
    BY <1>1, <1>6, TokenPlain, PlainFits
  <2> QED
    BY <1>2, <2>1, <2>2, <2>3, OneStep
<1>7. CASE table = "usage" /\ Tables!PageUsage(p)
  <2>1. UNCHANGED Screen
    BY <1>2, <1>7 DEF Tables!PageUsage, Tables!box, Screen
  <2>2. Tables!Send(Tables!UsageCall(p, size))
    BY <1>7, Zenon DEF Tables!PageUsage
  <2> QED
    BY <1>1, <1>2, <1>7, <2>1, <2>2, UsageFits, OneStep
<1>8. CASE table = "deployments" /\ Tables!PageDeployments(p)
  <2>1. UNCHANGED Screen
    BY <1>2, <1>8 DEF Tables!PageDeployments, Tables!box, Screen
  <2>2. Tables!Send(Tables!DeploymentCall(query, p, size))
    BY <1>8, Zenon DEF Tables!PageDeployments
  <2> QED
    BY <1>1, <1>2, <1>8, <2>1, <2>2, DeploymentFits, OneStep
<1> QED
  BY <1>3, <1>4, <1>5, <1>6, <1>7, <1>8, Zenon DEF Tables!ChangePage

LEMMA SizeStep ==
    ASSUME TableInv, NEW s, Tables!ChangeSize(s)
    PROVE  TableInv'
<1>1. TableBase
  BY DEF TableInv
<1>2. UNCHANGED <<table, write, version, writes, typed, failed, crossed>>
  BY Zenon DEF Tables!ChangeSize
<1>3. CASE table = "channels" /\ Tables!SizeChannels(s)
  <2>1. UNCHANGED <<form, shown, selected>>
    BY <1>3, Zenon DEF Tables!SizeChannels, Tables!box
  <2>2. UNCHANGED Screen
    BY <1>2, <2>1 DEF Screen
  <2>3. \/ Tables!Send(Tables!ChannelCall("loading", 0, 1, s))
        \/ Tables!Send(Tables!ChannelCall("searching", 1, s, size))
    BY <1>3, Zenon DEF Tables!SizeChannels
  <2> QED
    BY <1>1, <1>2, <1>3, <2>2, <2>3, ChannelFits, OneStep
<1>4. CASE table = "tokens" /\ Tables!SizeTokens(s)
  <2> DEFINE effect == Tables!TokenLoad(1, s)
  <2>1. UNCHANGED <<form, shown, selected, page>>
    BY <1>4, Zenon DEF Tables!SizeTokens
  <2>2. PICK first : /\ Tables!Get({first, effect}, effect) /\ Tables!SpinFor({first, effect})
                     /\ \/ first = Tables!TokenLoad(1, size)
                        \/ first = Tables!TokenSearch(1, s)
                        \/ first = Tables!TokenLoad(1, s)
    BY <1>4, Zenon DEF Tables!SizeTokens
  <2>3. first.gen = 0 /\ effect.gen = 0
    BY <2>2, TokenPlain
  <2> HIDE DEF effect
  <2>4. \A d \in {first, effect} : Fits(d)
    BY <1>1, <1>4, <2>3, PlainFits
  <2>5. effect \in {first, effect}
    OBVIOUS
  <2>6. UNCHANGED <<table, form, shown, selected, version, typed, failed, crossed>>
    BY <1>2, <2>1
  <2>7. Tables!Get({first, effect}, effect) /\ Tables!SpinFor({first, effect})
    BY <2>2
  <2> QED
    BY <1>2, <1>4, <2>1, <2>4, <2>5, <2>6, <2>7, SendStep
<1>5. CASE table = "users" /\ Tables!SizeUsers(s)
  <2>1. UNCHANGED <<form, shown, selected>>
    BY <1>5, Zenon DEF Tables!SizeUsers, Tables!box
  <2>2. UNCHANGED Screen
    BY <1>2, <2>1 DEF Screen
  <2>3. PICK k : Tables!Send(Tables!UserCall(k, page, s))
    BY <1>5, Zenon DEF Tables!SizeUsers
  <2>4. Fits(Tables!UserCall(k, page, s))
    BY <1>1, <1>5, TokenPlain, PlainFits
  <2> QED
    BY <1>2, <1>5, <2>2, <2>3, <2>4, OneStep
<1>6. CASE table = "tasks" /\ Tables!SizeTasks(s)
  <2>1. UNCHANGED Screen /\ page' = page
    BY <1>2, <1>6 DEF Tables!SizeTasks, Tables!box, Tables!view, Screen
  <2>2. Tables!Send(Tables!TaskCall(1, s))
    BY <1>6, Zenon DEF Tables!SizeTasks
  <2>3. Fits(Tables!TaskCall(1, s))
    BY <1>1, <1>6, TokenPlain, PlainFits
  <2> QED
    BY <1>2, <2>1, <2>2, <2>3, OneStep
<1>7. CASE table = "usage" /\ Tables!SizeUsage(s)
  <2>1. UNCHANGED Screen
    BY <1>2, <1>7 DEF Tables!SizeUsage, Tables!box, Screen
  <2>2. Tables!Send(Tables!UsageCall(page, s))
    BY <1>7, Zenon DEF Tables!SizeUsage
  <2> QED
    BY <1>1, <1>2, <1>7, <2>1, <2>2, UsageFits, OneStep
<1>8. CASE table = "deployments" /\ Tables!SizeDeployments(s)
  <2>1. UNCHANGED Screen
    BY <1>2, <1>8 DEF Tables!SizeDeployments, Tables!box, Screen
  <2>2. Tables!Send(Tables!DeploymentCall(query, 1, s))
    BY <1>8, Zenon DEF Tables!SizeDeployments
  <2> QED
    BY <1>1, <1>2, <1>8, <2>1, <2>2, DeploymentFits, OneStep
<1> QED
  BY <1>3, <1>4, <1>5, <1>6, <1>7, <1>8, Zenon DEF Tables!ChangeSize

LEMMA RefreshStep ==
    ASSUME TableInv, Tables!DeploymentAnswer
    PROVE  TableInv'
<1>1. TableBase
  BY DEF TableInv
<1>2. table = "deployments" /\ UNCHANGED Screen /\ write' = Tables!None
  BY DEF Tables!DeploymentAnswer, Tables!box, Tables!view, Screen
<1>3. Tables!Send(Tables!DeploymentCall(write.kw, write.page, write.size))
  BY Zenon DEF Tables!DeploymentAnswer
<1> QED
  BY <1>1, <1>2, <1>3, DeploymentFits, OneStep

-----------------------------------------------------------------------------
(* The other actions.                                                      *)
LEMMA StopsKept ==
    ASSUME UNCHANGED <<table, counter>>
    PROVE  /\ \A c, s : Stops(c, s)' <=> Stops(c, s)
           /\ \A c : Latest(c)' <=> Latest(c)
BY DEF Stops, Latest, Tables!TurnsOff, Tables!Applies

LEMMA TypeStep ==
    ASSUME TableInv, NEW k, Tables!Type(k)
    PROVE  TableInv'
<1>1. form' = k /\ typed' = (typed \/ k # NoWord)
  BY Zenon DEF Tables!Type, NoWord
<1>2. UNCHANGED <<table, page, shown, selected, loading, searching, counter, calls, wire, write,
                  version, last, failed, joined, crossed>>
  BY Zenon DEF Tables!Type, Tables!view, Tables!spinners, Tables!net
<1>3. /\ TableBase /\ LatestInv /\ PageInv /\ FreshInv /\ SelectInv /\ TurnInv
      /\ \A c, s : Stops(c, s)' <=> Stops(c, s)
      /\ \A c : Latest(c)' <=> Latest(c)
  BY <1>2, StopsKept DEF TableInv
<1>4. typed' \in BOOLEAN /\ (form' # NoWord => typed') /\ (typed => typed')
  BY <1>1, <1>3 DEF TableBase
<1>5. Counted' => Counted
  BY <1>2, <1>4 DEF Counted
<1>6. TableBase'
  BY <1>2, <1>3, <1>4, <1>5 DEF TableBase, Tables!Table
<1>7. LatestInv'
  BY <1>2, <1>3, <1>5, Zenon DEF LatestInv
<1>8. PageInv' /\ SelectInv'
  BY <1>2, <1>3 DEF PageInv, SelectInv, Tables!SelectionOnScreen
<1>9. FreshInv'
  BY <1>2, <1>3, Zenon DEF FreshInv
<1>10. TurnInv'
  BY <1>2, <1>3, Zenon DEF TurnInv
<1> QED
  BY <1>6, <1>7, <1>8, <1>9, <1>10 DEF TableInv

LEMMA SelectStep ==
    ASSUME TableInv, Tables!Select
    PROVE  TableInv'
<1>1. /\ table = "deployments" /\ selected' = shown
      /\ UNCHANGED <<table, form, page, shown, loading, searching, counter, calls, wire, write,
                     version, last, typed, failed, joined, crossed>>
  BY DEF Tables!Select, Tables!box, Tables!spinners, Tables!net
<1>2. /\ TableBase /\ LatestInv /\ PageInv /\ FreshInv /\ SelectInv /\ TurnInv
      /\ \A c, s : Stops(c, s)' <=> Stops(c, s)
      /\ \A c : Latest(c)' <=> Latest(c)
  BY <1>1, StopsKept DEF TableInv
<1>3. Counted' <=> Counted
  BY <1>1 DEF Counted
<1>4. TableBase'
  BY <1>1, <1>2, <1>3 DEF TableBase, Tables!Table
<1>5. LatestInv'
  BY <1>1, <1>2, <1>3, Zenon DEF LatestInv
<1>6. PageInv' /\ SelectInv'
  BY <1>1, <1>2 DEF PageInv, SelectInv, Tables!SelectionOnScreen
<1>7. FreshInv'
  BY <1>1, <1>2, Zenon DEF FreshInv
<1>8. TurnInv'
  BY <1>1, <1>2, Zenon DEF TurnInv
<1> QED
  BY <1>4, <1>5, <1>6, <1>7, <1>8 DEF TableInv

LEMMA ReadsStep ==
    ASSUME TableInv, NEW r \in wire, Tables!ServerReads(r)
    PROVE  TableInv'
<1>1. /\ r.ver = 0 /\ wire' = (wire \ {r}) \cup {[r EXCEPT !.ver = version]}
      /\ UNCHANGED <<table, form, page, shown, selected, loading, searching, counter, calls,
                     write, version, last, typed, failed, joined, crossed>>
  BY DEF Tables!ServerReads, Tables!box, Tables!view, Tables!spinners, Tables!history
<1>2. /\ TableBase /\ LatestInv /\ PageInv /\ FreshInv /\ SelectInv /\ TurnInv
      /\ \A c, s : Stops(c, s)' <=> Stops(c, s)
      /\ \A c : Latest(c)' <=> Latest(c)
  BY <1>1, StopsKept DEF TableInv
<1>3. Counted' <=> Counted
  BY <1>1 DEF Counted
<1>4. PICK o : o = [r EXCEPT !.ver = version]
  OBVIOUS
<1>5. /\ DOMAIN r = {"kind", "q", "ver"} /\ version \in Nat \ {0}
      /\ \A x \in wire : /\ DOMAIN x = {"kind", "q", "ver"} /\ x = [f \in DOMAIN x |-> x[f]]
                         /\ x.ver \in 0..version
  BY <1>2 DEF TableBase
<1>6. /\ DOMAIN o = {"kind", "q", "ver"} /\ o = [f \in DOMAIN o |-> o[f]]
      /\ o.ver = version /\ o.kind = r.kind /\ o.q = r.q
  BY <1>4, <1>5
<1>7. \A x \in wire' : /\ DOMAIN x = {"kind", "q", "ver"} /\ x = [f \in DOMAIN x |-> x[f]]
                       /\ x.ver \in 0..version'
  <2> TAKE x \in wire'
  <2>1. x \in wire \/ x = o
    BY <1>1, <1>4, Zenon
  <2>2. CASE x \in wire
    BY <1>1, <1>5, <2>2
  <2>3. CASE x = o
    BY <1>1, <1>5, <1>6, <2>3
  <2> QED
    BY <2>1, <2>2, <2>3
<1>8. TableBase'
  BY <1>1, <1>2, <1>3, <1>7, Zenon DEF TableBase, Tables!Table
<1>9. LatestInv'
  BY <1>1, <1>2, <1>3, Zenon DEF LatestInv
<1>10. PageInv' /\ SelectInv'
  BY <1>1, <1>2 DEF PageInv, SelectInv, Tables!SelectionOnScreen
<1>11. FreshInv'
  <2>1. \A x \in wire' : x \in wire \/ x.ver = version
    BY <1>1, <1>4, <1>6, Zenon
  <2> QED
    BY <1>1, <1>2, <2>1, Zenon DEF FreshInv
<1>12. TurnInv'
  BY <1>1, <1>2, Zenon DEF TurnInv
<1> QED
  BY <1>8, <1>9, <1>10, <1>11, <1>12 DEF TableInv
(* Calls leave, with some requests: what is left keeps its facts.          *)
LEMMA BaseLess ==
    ASSUME TableBase, calls' \subseteq calls, wire' \subseteq wire,
           UNCHANGED <<table, form, counter, version, typed, write>>,
           {failed', joined', crossed', loading', searching'} \subseteq BOOLEAN
    PROVE  TableBase'
<1>1. Counted' <=> Counted
  BY DEF Counted
<1>2. {typed', failed', joined', crossed', loading', searching'} \subseteq BOOLEAN
  BY DEF TableBase
<1> QED
  BY <1>1, <1>2, Zenon DEF TableBase, Tables!Table

LEMMA AnswerStep ==
    ASSUME TableInv, NEW r \in wire, Tables!Answer(r)
    PROVE  TableInv'
<1> DEFINE cs == Tables!Answered(r)
           good == {c \in cs : Tables!Applies(c)}
<1>1. /\ r.ver # 0
      /\ calls' = calls \ cs /\ wire' = wire \ {r}
      /\ crossed' = (crossed \/ write # Tables!None)
      /\ UNCHANGED <<table, form, counter, last, joined, write, version, typed, failed>>
  BY DEF Tables!Answer
<1>2. /\ TableBase /\ LatestInv /\ PageInv /\ FreshInv /\ SelectInv /\ TurnInv
      /\ \A c, s : Stops(c, s)' <=> Stops(c, s)
      /\ \A c : Latest(c)' <=> Latest(c)
  BY <1>1, StopsKept DEF TableInv
<1>3. /\ loading' = (loading /\ \A c \in cs : ~Stops(c, "loading"))
      /\ searching' = (searching /\ \A c \in cs : ~Stops(c, "searching"))
  BY Zenon DEF Tables!Answer, Tables!SpinOff, Stops
<1>4. good = {} => UNCHANGED <<shown, page, selected>>
  BY DEF Tables!Answer, Tables!view
<1>5. good # {} => /\ shown' = Tables!RowsOf(r.q, r.ver)
                   /\ table # "channels" => page' = r.q.page
                   /\ selected' = IF table = "deployments" THEN Tables!None ELSE selected
  BY DEF Tables!Answer
<1>6. \A c \in cs : c \in calls /\ Matches(c, r)
  BY DEF Tables!Answered, Matches
<1>7. Counted' <=> Counted
  BY <1>1 DEF Counted
<1>8. \A c \in good : Counted => Latest(c)
  BY <1>2, <1>6 DEF TableBase, Tables!Applies, Latest
<1>9. \A c \in cs : Latest(c) => c \in good
  BY DEF Tables!Applies, Latest
<1>10. table \in {"tokens", "users", "tasks"} => good = cs
  BY <1>2, <1>6 DEF TableBase, Tables!Applies
<1>11. good # {} => shown'.page = r.q.page /\ shown'.ver = r.ver
  BY <1>5 DEF Tables!RowsOf
<1> HIDE DEF cs, good
<1>12. TableBase'
  <2>1. calls' \subseteq calls /\ wire' \subseteq wire
    BY <1>1
  <2>2. {failed', joined', crossed', loading', searching'} \subseteq BOOLEAN
    BY <1>1, <1>2, <1>3 DEF TableBase
  <2> QED
    BY <1>1, <1>2, <2>1, <2>2, BaseLess
<1>13. LatestInv'
  <2> SUFFICES ASSUME Counted, ~failed
               PROVE  /\ \A c \in calls' : Latest(c) => c.q = last
                      /\ \/ \E c \in calls' : Latest(c)
                         \/ shown' = Tables!RowsOf(last, shown'.ver)
    BY <1>1, <1>2, <1>7, Zenon DEF LatestInv, Tables!RowsOf
  <2>1. \A c \in calls : Latest(c) => c.q = last
    BY <1>2 DEF LatestInv
  <2>2. CASE good = {}
    <3>1. \A c \in calls : Latest(c) => c \in calls'
      BY <1>1, <1>9, <2>2
    <3>2. shown' = shown
      BY <1>4, <2>2
    <3> QED
      BY <1>1, <1>2, <2>1, <3>1, <3>2 DEF LatestInv
  <2>3. CASE good # {}
    <3>1. PICK c \in good : c \in cs
      BY <2>3 DEF good
    <3>2. c.q = last /\ Matches(c, r)
      BY <1>6, <1>8, <2>1, <3>1
    <3>3. r.q = last
      BY <3>2 DEF Matches
    <3> QED
      BY <1>1, <1>5, <1>11, <2>1, <2>3, <3>3
  <2> QED
    BY <2>2, <2>3
<1>14. PageInv'
  <2>1. table \in {"tokens", "tasks"} /\ shown' # Tables!None /\ ~crossed' => page' = shown'.page
    <3>1. good # {} /\ table \in {"tokens", "tasks"} => page' = shown'.page
      BY <1>5, <1>11
    <3> QED
      BY <1>1, <1>2, <1>4, <3>1 DEF PageInv
  <2>2. table = "users" /\ ~failed /\ ~crossed' => calls' # {} \/ page' = shown'.page
    <3>1. good # {} /\ table = "users" => page' = shown'.page
      BY <1>5, <1>11
    <3>2. good = {} /\ table = "users" => calls' = calls
      BY <1>1, <1>10
    <3> QED
      BY <1>1, <1>2, <1>4, <3>1, <3>2 DEF PageInv
  <2> QED
    BY <1>1, <2>1, <2>2 DEF PageInv
<1>15. FreshInv'
  <2> SUFFICES ASSUME table = "deployments", ~failed, ~joined, write = Tables!None
               PROVE  /\ \A c \in calls', x \in wire' :
                            Latest(c) /\ Matches(c, x) => x.ver \in {0, version}
                      /\ (\E c \in calls' : Latest(c)) \/ shown'.ver = version
    BY <1>1, <1>2, Zenon DEF FreshInv
  <2>1. /\ \A c \in calls, x \in wire : Latest(c) /\ Matches(c, x) => x.ver \in {0, version}
        /\ (\E c \in calls : Latest(c)) \/ shown.ver = version
    BY <1>2, Zenon DEF FreshInv
  <2>2. CASE good = {}
    <3>1. \A c \in calls : Latest(c) => c \in calls'
      BY <1>1, <1>9, <2>2
    <3>2. shown' = shown
      BY <1>4, <2>2
    <3> QED
      BY <1>1, <2>1, <3>1, <3>2
  <2>3. CASE good # {}
    <3>1. PICK c \in good : c \in cs
      BY <2>3 DEF good
    <3>2. Counted
      BY DEF Counted
    <3>3. r.ver = version
      BY <1>1, <1>6, <1>8, <2>1, <3>1, <3>2
    <3> QED
      BY <1>1, <1>11, <2>1, <2>3, <3>3
  <2> QED
    BY <2>2, <2>3
<1>16. SelectInv'
  BY <1>1, <1>2, <1>4, <1>5 DEF SelectInv, Tables!SelectionOnScreen
<1>17. TurnInv'
  <2>1. ASSUME NEW s, \A c \in cs : ~Stops(c, s), \E c \in calls : Stops(c, s)
        PROVE  \E c \in calls' : Stops(c, s)'
    BY <1>1, <1>2, <2>1
  <2> QED
    BY <1>1, <1>2, <1>3, <2>1, Zenon DEF TurnInv
<1> QED
  BY <1>12, <1>13, <1>14, <1>15, <1>16, <1>17 DEF TableInv

LEMMA TokenAnswerStep ==
    ASSUME TableInv, NEW r \in wire, table = "tokens", Tables!TokenAnswer(r)
    PROVE  TableInv'
<1>1. PICK c : c = Tables!TokenLoad(1, r.q.size)
  OBVIOUS
<1>2. c.gen = 0 /\ c.spin = {"loading"}
  BY <1>1, TokenPlain
<1>3. /\ shown' = Tables!RowsOf(r.q, r.ver) /\ page' = r.q.page
      /\ loading' = TRUE
      /\ searching' = (searching /\ \A d \in Tables!Answered(r) : "searching" \notin d.spin)
      /\ calls' = (calls \ Tables!Answered(r)) \cup {c}
      /\ crossed' = (crossed \/ write # Tables!None)
      /\ UNCHANGED <<table, form, selected, counter, joined, write, version, typed, failed>>
  BY <1>1, Zenon DEF Tables!TokenAnswer
<1>4. PICK o : o = [kind |-> "load", q |-> c.q, ver |-> 0]
  OBVIOUS
<1>5. wire' \subseteq wire \cup {o}
  <2>1. \/ wire' = (wire \ {r}) \cup {}
        \/ wire' = (wire \ {r}) \cup {o}
    BY <1>1, <1>4, Zenon DEF Tables!TokenAnswer
  <2> QED
    BY <2>1
<1>6. /\ TableBase /\ PageInv /\ SelectInv /\ TurnInv
      /\ \A d, s : Stops(d, s)' <=> Stops(d, s)
  BY <1>3, StopsKept DEF TableInv
<1>7. TableBase'
  <2>1. {typed', failed', joined', crossed', loading', searching'} \subseteq BOOLEAN
    BY <1>3, <1>6 DEF TableBase
  <2>2. counter \in Nat /\ version \in Nat \ {0}
    BY <1>6 DEF TableBase
  <2>3. \A d \in calls' : d.gen = 0
    BY <1>2, <1>3, <1>6 DEF TableBase
  <2>4. \A d \in calls' : d.gen \in 0..counter'
    BY <1>3, <2>2, <2>3
  <2>5. ~Counted'
    BY <1>3 DEF Counted
  <2>6. \A x \in wire' : /\ DOMAIN x = {"kind", "q", "ver"} /\ x = [f \in DOMAIN x |-> x[f]]
                         /\ x.ver \in 0..version'
    <3> TAKE x \in wire'
    <3>1. CASE x \in wire
      BY <1>3, <1>6, <3>1 DEF TableBase
    <3>2. CASE x = o
      BY <1>3, <1>4, <2>2, <3>2
    <3> QED
      BY <1>5, <3>1, <3>2
  <2> QED
    BY <1>3, <1>6, <2>1, <2>2, <2>3, <2>4, <2>5, <2>6, Zenon DEF TableBase, Tables!Table
<1>8. LatestInv' /\ FreshInv'
  BY <1>3 DEF LatestInv, FreshInv, Counted
<1>9. PageInv'
  BY <1>3 DEF PageInv, Tables!RowsOf
<1>10. SelectInv'
  BY <1>3, <1>6 DEF SelectInv, Tables!SelectionOnScreen
<1>11. TurnInv'
  <2>1. \A d, s : Stops(d, s)' <=> s \in d.spin
    BY <1>6, StopsTable DEF StopsIs
  <2>2. c \in calls' /\ Stops(c, "loading")'
    BY <1>2, <1>3, <2>1
  <2>3. (\E d \in calls : Stops(d, "searching")) /\ searching'
          => \E d \in calls' : Stops(d, "searching")'
    BY <1>3, <1>6, <2>1
  <2> QED
    BY <1>3, <1>6, <2>2, <2>3, Zenon DEF TurnInv
<1> QED
  BY <1>7, <1>8, <1>9, <1>10, <1>11 DEF TableInv

LEMMA FailsStep ==
    ASSUME TableInv, NEW r \in wire, NEW out, Tables!Fails(r, out)
    PROVE  TableInv'
<1> DEFINE cs == Tables!Answered(r)
<1>1. /\ failed' = TRUE
      /\ calls' = calls \ cs /\ wire' = wire \ {r}
      /\ shown' = shown \/ (table = "deployments" /\ shown' = Tables!None)
      /\ UNCHANGED <<table, form, page, selected, counter, last, joined, write, version, typed,
                     crossed>>
  BY DEF Tables!Fails, Tables!box
<1>2. /\ TableBase /\ PageInv /\ SelectInv /\ TurnInv
      /\ \A c, s : Stops(c, s)' <=> Stops(c, s)
  BY <1>1, StopsKept DEF TableInv
<1>3. /\ loading' = (loading /\ \A c \in cs : "loading" \notin Tables!TurnsOff(c, out))
      /\ searching' = (searching /\ \A c \in cs : "searching" \notin Tables!TurnsOff(c, out))
  BY Zenon DEF Tables!Fails, Tables!SpinOff
<1>4. table \in {"usage", "deployments"} =>
        \A c, s : Stops(c, s) <=> s \in Tables!TurnsOff(c, out)
  BY DEF Stops, Tables!TurnsOff
<1> HIDE DEF cs
<1>5. TableBase'
  <2>1. calls' \subseteq calls /\ wire' \subseteq wire
    BY <1>1
  <2>2. {failed', joined', crossed', loading', searching'} \subseteq BOOLEAN
    BY <1>1, <1>2, <1>3 DEF TableBase
  <2> QED
    BY <1>1, <1>2, <2>1, <2>2, BaseLess
<1>6. LatestInv' /\ FreshInv'
  BY <1>1 DEF LatestInv, FreshInv
<1>7. PageInv'
  BY <1>1, <1>2 DEF PageInv
<1>8. SelectInv'
  BY <1>1, <1>2 DEF SelectInv, Tables!SelectionOnScreen
<1>9. TurnInv'
  <2>1. ASSUME NEW s, table \in {"usage", "deployments"},
               \A c \in cs : s \notin Tables!TurnsOff(c, out), \E c \in calls : Stops(c, s)
        PROVE  \E c \in calls' : Stops(c, s)'
    BY <1>1, <1>2, <1>4, <2>1
  <2>2. table = "usage" => ~searching'
    BY <1>2, <1>3 DEF TurnInv
  <2>3. ASSUME table \in {"usage", "deployments"}
        PROVE  /\ loading' => \E c \in calls' : Stops(c, "loading")'
               /\ searching' => \E c \in calls' : Stops(c, "searching")'
    <3>1. write # Tables!None => table = "deployments"
      BY <1>2, <2>3 DEF TableBase
    <3>2. /\ loading => \E c \in calls : Stops(c, "loading")
          /\ searching => \E c \in calls : Stops(c, "searching")
      BY <1>2, <2>3, <3>1, Zenon DEF TurnInv
    <3>3. /\ loading' => loading /\ \A c \in cs : "loading" \notin Tables!TurnsOff(c, out)
          /\ searching' => searching /\ \A c \in cs : "searching" \notin Tables!TurnsOff(c, out)
      BY <1>3
    <3>4. loading' => \E c \in calls' : Stops(c, "loading")'
      BY <2>1, <2>3, <3>2, <3>3
    <3>5. searching' => \E c \in calls' : Stops(c, "searching")'
      BY <2>1, <2>3, <3>2, <3>3
    <3> QED
      BY <3>4, <3>5
  <2> QED
    BY <1>1, <2>2, <2>3 DEF TurnInv
<1> QED
  BY <1>5, <1>6, <1>7, <1>8, <1>9 DEF TableInv
LEMMA TableClickStep ==
    ASSUME TableInv, Tables!Click
    PROVE  TableInv'
<1>1. /\ table \in {"tokens", "users", "deployments"} /\ write = Tables!None
      /\ loading' = (loading \/ table # "deployments")
      /\ UNCHANGED <<table, form, page, shown, selected, searching, counter, calls, wire, version,
                     last, typed, failed, joined, crossed>>
  BY DEF Tables!Click, Tables!box, Tables!view, Tables!net
<1>2. /\ DOMAIN write' = {"kw", "group", "page", "size", "ver", "rows"}
      /\ write'.rows = shown
  BY DEF Tables!Click
<1>3. write' # Tables!None
  <2>1. DOMAIN Tables!None = {"kw", "group", "page", "size", "ver"}
    BY DEF Tables!None
  <2> QED
    BY <1>2, <2>1
<1>4. /\ TableBase /\ LatestInv /\ PageInv /\ SelectInv /\ TurnInv
      /\ \A c, s : Stops(c, s)' <=> Stops(c, s)
      /\ \A c : Latest(c)' <=> Latest(c)
  BY <1>1, StopsKept DEF TableInv
<1>5. Counted' <=> Counted
  BY <1>1 DEF Counted
<1>6. loading' \in BOOLEAN
  BY <1>1, <1>4 DEF TableBase
<1>7. TableBase'
  BY <1>1, <1>2, <1>4, <1>5, <1>6 DEF TableBase, Tables!Table
<1>8. LatestInv'
  BY <1>1, <1>4, <1>5, Zenon DEF LatestInv
<1>9. PageInv'
  BY <1>1, <1>2, <1>4 DEF PageInv
<1>10. FreshInv'
  BY <1>3 DEF FreshInv
<1>11. SelectInv'
  BY <1>1, <1>4 DEF SelectInv, Tables!SelectionOnScreen
<1>12. TurnInv'
  BY <1>1, <1>3, <1>4, Zenon DEF TurnInv
<1> QED
  BY <1>7, <1>8, <1>9, <1>10, <1>11, <1>12 DEF TableInv

LEMMA CommitStep ==
    ASSUME TableInv, Tables!Commit
    PROVE  TableInv'
<1>1. /\ write # Tables!None /\ version' = version + 1
      /\ write' = [write EXCEPT !.ver = version + 1]
      /\ UNCHANGED <<table, form, page, shown, selected, loading, searching, counter, calls, wire,
                     last, typed, failed, joined, crossed>>
  BY DEF Tables!Commit, Tables!box, Tables!view, Tables!spinners, Tables!net
<1>2. /\ TableBase /\ LatestInv /\ PageInv /\ SelectInv /\ TurnInv
      /\ \A c, s : Stops(c, s)' <=> Stops(c, s)
      /\ \A c : Latest(c)' <=> Latest(c)
  BY <1>1, StopsKept DEF TableInv
<1>3. /\ DOMAIN write = {"kw", "group", "page", "size", "ver", "rows"}
      /\ table \in {"tokens", "users", "deployments"}
      /\ version \in Nat \ {0}
  BY <1>1, <1>2 DEF TableBase
<1>4. /\ DOMAIN write' = {"kw", "group", "page", "size", "ver", "rows"}
      /\ write'.rows = write.rows
  BY <1>1, <1>3
<1>5. write' # Tables!None
  <2>1. DOMAIN Tables!None = {"kw", "group", "page", "size", "ver"}
    BY DEF Tables!None
  <2> QED
    BY <1>4, <2>1
<1>6. Counted' <=> Counted
  BY <1>1 DEF Counted
<1>7. TableBase'
  <2>1. version' \in Nat \ {0} /\ version' = version + 1
    BY <1>1, <1>3
  <2>2. \A x \in wire' : /\ DOMAIN x = {"kind", "q", "ver"} /\ x = [f \in DOMAIN x |-> x[f]]
                         /\ x.ver \in 0..version'
    <3>1. \A v \in 0..version : v \in 0..version'
      BY <1>3, <2>1
    <3> QED
      BY <1>1, <1>2, <3>1, Zenon DEF TableBase
  <2> QED
    BY <1>1, <1>2, <1>3, <1>4, <1>6, <2>1, <2>2, Zenon DEF TableBase, Tables!Table
<1>8. LatestInv'
  BY <1>1, <1>2, <1>6, Zenon DEF LatestInv
<1>9. PageInv'
  BY <1>1, <1>2, <1>4 DEF PageInv
<1>10. FreshInv'
  BY <1>5 DEF FreshInv
<1>11. SelectInv'
  BY <1>1, <1>2 DEF SelectInv, Tables!SelectionOnScreen
<1>12. TurnInv'
  BY <1>1, <1>2, <1>5, Zenon DEF TurnInv
<1> QED
  BY <1>7, <1>8, <1>9, <1>10, <1>11, <1>12 DEF TableInv

LEMMA ManageStep ==
    ASSUME TableInv, Tables!ManageAnswer
    PROVE  TableInv'
<1>1. /\ table # "deployments" /\ write # Tables!None
      /\ shown' = write.rows /\ loading' = FALSE /\ write' = Tables!None
      /\ UNCHANGED <<table, form, page, selected, searching, counter, calls, wire, version, last,
                     typed, failed, joined, crossed>>
  BY DEF Tables!ManageAnswer, Tables!box, Tables!net
<1>2. /\ TableBase /\ PageInv /\ SelectInv /\ TurnInv
      /\ \A c, s : Stops(c, s)' <=> Stops(c, s)
  BY <1>1, StopsKept DEF TableInv
<1>3. ~Counted'
  BY <1>1, <1>2 DEF Counted, TableBase
<1>4. ~crossed => shown' = shown
  BY <1>1, <1>2 DEF PageInv
<1>5. TableBase'
  <2>1. {typed', failed', joined', crossed', loading', searching'} \subseteq BOOLEAN
    BY <1>1, <1>2 DEF TableBase
  <2> QED
    BY <1>1, <1>2, <1>3, <2>1, Zenon DEF TableBase, Tables!Table
<1>6. LatestInv'
  BY <1>3 DEF LatestInv
<1>7. PageInv'
  BY <1>1, <1>2, <1>4 DEF PageInv
<1>8. FreshInv'
  BY <1>1 DEF FreshInv
<1>9. SelectInv'
  BY <1>1, <1>2 DEF SelectInv, Tables!SelectionOnScreen
<1>10. TurnInv'
  BY <1>1, <1>2, Zenon DEF TurnInv
<1> QED
  BY <1>5, <1>6, <1>7, <1>8, <1>9, <1>10 DEF TableInv

LEMMA ClickFailsStep ==
    ASSUME TableInv, NEW out, Tables!ClickFails(out)
    PROVE  TableInv'
<1>1. /\ write # Tables!None /\ write' = Tables!None /\ failed' = TRUE
      /\ loading' = (loading /\ (table = "deployments" \/ out = "error"))
      /\ UNCHANGED <<table, form, page, shown, selected, searching, counter, calls, wire, version,
                     last, typed, joined, crossed>>
  BY DEF Tables!ClickFails, Tables!box, Tables!view, Tables!net
<1>2. /\ TableBase /\ PageInv /\ SelectInv /\ TurnInv
      /\ \A c, s : Stops(c, s)' <=> Stops(c, s)
  BY <1>1, StopsKept DEF TableInv
<1>3. Counted' <=> Counted
  BY <1>1 DEF Counted
<1>4. TableBase'
  <2>1. {typed', failed', joined', crossed', loading', searching'} \subseteq BOOLEAN
    BY <1>1, <1>2 DEF TableBase
  <2> QED
    BY <1>1, <1>2, <1>3, <2>1, Zenon DEF TableBase, Tables!Table
<1>5. LatestInv' /\ FreshInv'
  BY <1>1 DEF LatestInv, FreshInv
<1>6. PageInv'
  BY <1>1, <1>2 DEF PageInv
<1>7. SelectInv'
  BY <1>1, <1>2 DEF SelectInv, Tables!SelectionOnScreen
<1>8. TurnInv'
  <2>1. table \in {"usage", "deployments"} => table = "deployments"
    BY <1>1, <1>2 DEF TableBase
  <2> QED
    BY <1>1, <1>2, <2>1, Zenon DEF TurnInv
<1> QED
  BY <1>4, <1>5, <1>6, <1>7, <1>8 DEF TableInv

LEMMA TableKept ==
    ASSUME TableInv, UNCHANGED Tables!vars
    PROVE  TableInv'
<1>1. UNCHANGED <<table, form, page, shown, selected, loading, searching, counter, calls, wire,
                  write, version, last, typed, failed, joined, crossed>>
  BY DEF Tables!vars, Tables!box, Tables!view, Tables!spinners, Tables!net
<1>2. /\ TableBase /\ LatestInv /\ PageInv /\ FreshInv /\ SelectInv /\ TurnInv
      /\ \A c, s : Stops(c, s)' <=> Stops(c, s)
      /\ \A c : Latest(c)' <=> Latest(c)
  BY <1>1, StopsKept DEF TableInv
<1>3. Counted' <=> Counted
  BY <1>1 DEF Counted
<1>4. TableBase'
  BY <1>1, <1>2, <1>3 DEF TableBase, Tables!Table
<1>5. LatestInv' /\ FreshInv'
  BY <1>1, <1>2, <1>3, Zenon DEF LatestInv, FreshInv
<1>6. PageInv' /\ SelectInv'
  BY <1>1, <1>2 DEF PageInv, SelectInv, Tables!SelectionOnScreen
<1>7. TurnInv'
  BY <1>1, <1>2, Zenon DEF TurnInv
<1> QED
  BY <1>4, <1>5, <1>6, <1>7 DEF TableInv

LEMMA TableStart ==
    ASSUME Tables!Init
    PROVE  TableInv
<1>1. PICK c : c = Tables!FirstCall(table)
  OBVIOUS
<1>2. PICK q : q = Tables!Q(NoWord, 1, Tables!FirstSize)
  OBVIOUS
<1>3. c = [kind |-> "load", q |-> q, gen |-> IF table \in Tables!Guarded THEN 1 ELSE 0,
           spin |-> {"loading"}]
  BY <1>1, <1>2, Zenon DEF Tables!FirstCall, NoWord
<1>4. /\ table \in Tables!Table
      /\ form = NoWord /\ page = 1
      /\ shown = Tables!None /\ selected = Tables!None
      /\ loading = TRUE /\ searching = FALSE
      /\ counter = c.gen /\ calls = {c}
      /\ wire = {[kind |-> "load", q |-> c.q, ver |-> 0]}
      /\ write = Tables!None /\ version = 1 /\ last = c.q
      /\ typed = FALSE /\ failed = FALSE /\ joined = FALSE /\ crossed = FALSE
  BY <1>1, Zenon DEF Tables!Init, NoWord
<1>5. /\ c.kind = "load" /\ c.q = q /\ c.gen = IF table \in Tables!Guarded THEN 1 ELSE 0
      /\ c.spin = {"loading"}
  BY <1>3
<1>6. counter \in Nat /\ c.gen \in 0..counter /\ version \in Nat \ {0}
  BY <1>4, <1>5
<1>7. \A r \in wire : /\ DOMAIN r = {"kind", "q", "ver"} /\ r = [f \in DOMAIN r |-> r[f]]
                      /\ r.ver = 0
  BY <1>4
<1>8. TableBase
  <2>1. table \in {"tokens", "users", "tasks"} => c.gen = 0
    BY <1>5 DEF Tables!Guarded
  <2>2. Counted => c.gen # 0
    BY <1>5 DEF Tables!Guarded, Counted
  <2>3. \A r \in wire : r.ver \in 0..version
    BY <1>4, <1>7
  <2> QED
    BY <1>4, <1>6, <1>7, <2>1, <2>2, <2>3 DEF TableBase
<1>9. Latest(c)
  BY <1>4 DEF Latest
<1>10. LatestInv
  BY <1>4, <1>9 DEF LatestInv
<1>11. PageInv
  BY <1>4 DEF PageInv
<1>12. FreshInv
  BY <1>4, <1>7, <1>9 DEF FreshInv
<1>13. SelectInv
  BY <1>4 DEF SelectInv, Tables!SelectionOnScreen
<1>14. TurnInv
  <2>1. Tables!Applies(c)
    BY <1>4 DEF Tables!Applies
  <2>2. StopsIs(c)
    BY StopsTable
  <2>3. Stops(c, "loading")
    BY <1>4, <1>5, <2>1, <2>2 DEF StopsIs, Tables!Table
  <2> QED
    BY <1>4, <2>3 DEF TurnInv
<1> QED
  BY <1>8, <1>10, <1>11, <1>12, <1>13, <1>14 DEF TableInv

LEMMA TableInductive == Spec => []TableInv
<1>1. Init => TableInv
  BY TableStart, Zenon DEF Init
<1>2. TableInv /\ [Next]_vars => TableInv'
  <2> SUFFICES ASSUME TableInv, [Next]_vars PROVE TableInv'
    OBVIOUS
  <2>1. Tables!Next \/ UNCHANGED Tables!vars
    BY TablesStep
  <2>2. ASSUME NEW r \in wire, Tables!Lands(r) PROVE TableInv'
    <3>1. (table = "tokens" /\ Tables!TokenAnswer(r)) \/ Tables!Answer(r)
      BY <2>2, Zenon DEF Tables!Lands
    <3> QED
      BY <3>1, AnswerStep, TokenAnswerStep, Zenon
  <2> QED
    BY <2>1, <2>2, TypeStep, SearchStep, PageStep, SizeStep, SelectStep, ReadsStep, FailsStep,
       TableClickStep, CommitStep, ManageStep, RefreshStep, ClickFailsStep, TableKept, Zenon
       DEF Tables!Next
<1> QED
  BY <1>1, <1>2, PTL DEF Spec

(* Whatever the user clicks while requests are under way, and in whatever  *)
(* order their answers come in: a table that numbers its requests ends up  *)
(* with the rows that were asked for last, the page number is that of the  *)
(* rows, the deployments are not older than the last action on a row, and  *)
(* only rows on screen are selected.                                       *)
THEOREM Current == Spec => []RowsCurrent
<1>1. TableInv => RowsCurrent
  <2> SUFFICES ASSUME TableInv
               PROVE  /\ Tables!LatestShown /\ Tables!PageOfRows
                      /\ Tables!FreshAfterWrite /\ Tables!SelectionOnScreen
    BY DEF RowsCurrent, On
  <2>1. Tables!LatestShown
    BY DEF TableInv, LatestInv, Tables!LatestShown, Tables!Quiet, Counted, Tables!Guarded
  <2>2. Tables!PageOfRows
    BY DEF TableInv, PageInv, Tables!PageOfRows, Tables!Quiet
  <2>3. Tables!FreshAfterWrite
    BY DEF TableInv, FreshInv, Tables!FreshAfterWrite, Tables!Quiet
  <2>4. Tables!SelectionOnScreen
    BY DEF TableInv, SelectInv
  <2> QED
    BY <2>1, <2>2, <2>3, <2>4
<1> QED
  BY <1>1, TableInductive, PTL

LEMMA TableSpinners == TableInv => Tables!SpinnerStops
BY Zenon DEF TableInv, TurnInv, Tables!SpinnerStops, Tables!Quiet
-----------------------------------------------------------------------------
(* The settings forms.                                                     *)
SentAs(s, k) == IF forms[s].normalizes THEN Settings!Normalized(closure[s][k]) ELSE closure[s][k]

FormBase ==
    /\ forms \in Mounted
    /\ {saving, refused} \subseteq [DOMAIN forms -> BOOLEAN] /\ {lost} \subseteq BOOLEAN
    /\ updateArray \in [DOMAIN forms -> SUBSET Field]
    /\ \A f \in {inputs, row, closure, option} :
          DOMAIN f = DOMAIN forms /\ \A s \in DOMAIN forms : DOMAIN f[s] = Field
    /\ \A p \in puts : /\ DOMAIN p = {"slot", "field", "value", "live", "st"}
                       /\ p.slot \in DOMAIN forms /\ p.field \in Field /\ p.live \in BOOLEAN

(* A spinner that turns has a request that will stop it.                   *)
FormTurns ==
    /\ \A s \in DOMAIN forms : saving[s] => \E p \in puts : p.slot = s /\ p.live
    /\ get = "none" => waiting = {}

(* As long as no request failed, the PUTs in flight are those of running   *)
(* submissions, and a field that was sent is on its way, refused or        *)
(* stored.                                                                 *)
PutsInv ==
    ~lost =>
        /\ \A p \in puts : p.live /\ saving[p.slot]
        /\ \A p \in puts, s \in DOMAIN forms, k \in Field :
              p.slot = s /\ p.field = k => p.value = SentAs(s, k)
        /\ \A s \in DOMAIN forms : saving[s] =>
              \A k \in updateArray[s] :
                  \/ refused[s] \/ option[s][k] = SentAs(s, k)
                  \/ \E p \in puts : p.slot = s /\ p.field = k /\ p.st \in {"sent", "refused"}

(* A secret counts as blank, except while the load after its save is under *)
(* way, and is never sent blank.                                           *)
Excused(s) == lost /\ forms[s].rebases = Field

SecretInv ==
    \A s \in DOMAIN forms : forms[s].secret /\ ~Excused(s) =>
        /\ row[s]["b"] # NoWord => forms[s].section \in waiting /\ forms[s].rebases = Field
        /\ \A p \in puts : p.slot = s /\ p.field = "b" => p.value # NoWord

FormInv == FormBase /\ FormTurns /\ PutsInv /\ SecretInv

LEMMA FormsStep ==
    ASSUME [Next]_vars
    PROVE  Settings!Next \/ UNCHANGED settings
BY Zenon DEF Next, Of, vars

(* The parts of the invariant in other words, one form at a time.          *)
LEMMA SentBlank ==
    ASSUME NEW v
    PROVE  Settings!Normalized(v) = NoWord => v = NoWord
BY Zenon DEF Settings!Normalized, NoWord

(* Only the text, or the load, moves.                                      *)
LEMMA FormKept ==
    ASSUME FormInv, UNCHANGED <<forms, option, closure, updateArray, saving, refused, puts>>,
           lost' \in BOOLEAN, lost => lost',
           \A f \in {inputs', row'} :
              DOMAIN f = DOMAIN forms /\ \A s \in DOMAIN forms : DOMAIN f[s] = Field,
           get' = "none" => waiting' = {},
           \A s \in DOMAIN forms : forms[s].secret /\ ~(lost' /\ forms[s].rebases = Field) =>
              (row'[s]["b"] # NoWord => forms[s].section \in waiting' /\ forms[s].rebases = Field)
    PROVE  FormInv'
<1>1. FormBase /\ FormTurns /\ PutsInv /\ SecretInv
  BY DEF FormInv
<1>2. FormBase'
  <2>1. {lost'} \subseteq BOOLEAN
    OBVIOUS
  <2>2. \A f \in {inputs', row', closure', option'} :
          DOMAIN f = DOMAIN forms' /\ \A s \in DOMAIN forms' : DOMAIN f[s] = Field
    BY <1>1 DEF FormBase
  <2> QED
    BY <1>1, <2>1, <2>2 DEF FormBase
<1>3. FormTurns'
  BY <1>1 DEF FormTurns
<1>4. PutsInv'
  BY <1>1 DEF PutsInv, SentAs
<1>5. SecretInv'
  BY <1>1 DEF SecretInv, Excused
<1> QED
  BY <1>2, <1>3, <1>4, <1>5 DEF FormInv

LEMMA EditStep ==
    ASSUME FormInv, NEW s \in DOMAIN forms, NEW k \in Field, NEW v, Settings!Edit(s, k, v)
    PROVE  FormInv'
<1>1. /\ inputs' = [inputs EXCEPT ![s][k] = v]
      /\ UNCHANGED <<forms, option, row, saving, refused, puts, closure, updateArray, get, waiting,
                     lost>>
  BY Zenon DEF Settings!Edit, Settings!saveState, Settings!getState, Settings!serverState
<1>2. FormBase /\ FormTurns /\ SecretInv
  BY DEF FormInv
<1>3. /\ DOMAIN inputs = DOMAIN forms /\ DOMAIN row = DOMAIN forms
      /\ \A x \in DOMAIN forms : DOMAIN inputs[x] = Field /\ DOMAIN row[x] = Field
      /\ lost' \in BOOLEAN
  BY <1>1, <1>2 DEF FormBase
<1>4. DOMAIN inputs' = DOMAIN forms /\ \A x \in DOMAIN forms : DOMAIN inputs'[x] = Field
  BY <1>1, <1>3
<1>5. \A f \in {inputs', row'} :
         DOMAIN f = DOMAIN forms /\ \A x \in DOMAIN forms : DOMAIN f[x] = Field
  BY <1>1, <1>3, <1>4
<1>6. get' = "none" => waiting' = {}
  BY <1>1, <1>2 DEF FormTurns
<1>7. \A x \in DOMAIN forms : forms[x].secret /\ ~(lost' /\ forms[x].rebases = Field) =>
        (row'[x]["b"] # NoWord => forms[x].section \in waiting' /\ forms[x].rebases = Field)
  BY <1>1, <1>2, Zenon DEF SecretInv, Excused
<1> QED
  BY <1>1, <1>3, <1>5, <1>6, <1>7, FormKept

LEMMA ServerReadsStep ==
    ASSUME FormInv, Settings!GetOptions \/ Settings!SyncReads \/ UNCHANGED settings
    PROVE  FormInv'
<1>1. /\ UNCHANGED <<forms, option, inputs, row, saving, refused, puts, closure, updateArray,
                     waiting, lost>>
      /\ get' = "none" => get = "none"
  BY DEF Settings!GetOptions, Settings!SyncReads, Settings!saveState, Settings!formState,
     Settings!getState, Settings!serverState, settings
<1>2. FormBase /\ FormTurns /\ SecretInv
  BY DEF FormInv
<1>3. lost' \in BOOLEAN
  BY <1>1, <1>2 DEF FormBase
<1>4. \A f \in {inputs', row'} :
         DOMAIN f = DOMAIN forms /\ \A x \in DOMAIN forms : DOMAIN f[x] = Field
  BY <1>1, <1>2 DEF FormBase
<1>5. get' = "none" => waiting' = {}
  BY <1>1, <1>2 DEF FormTurns
<1>6. \A x \in DOMAIN forms : forms[x].secret /\ ~(lost' /\ forms[x].rebases = Field) =>
        (row'[x]["b"] # NoWord => forms[x].section \in waiting' /\ forms[x].rebases = Field)
  BY <1>1, <1>2, Zenon DEF SecretInv, Excused
<1> QED
  BY <1>1, <1>3, <1>4, <1>5, <1>6, FormKept

LEMMA GetFailsStep ==
    ASSUME FormInv, Settings!GetFails
    PROVE  FormInv'
<1>1. /\ UNCHANGED <<forms, option, inputs, row, saving, refused, puts, closure, updateArray>>
      /\ waiting' = {} /\ lost' = TRUE
  BY DEF Settings!GetFails, Settings!saveState, Settings!formState, Settings!serverState
<1>2. FormBase /\ SecretInv
  BY DEF FormInv
<1>3. lost' \in BOOLEAN /\ (lost => lost') /\ (get' = "none" => waiting' = {})
  BY <1>1
<1>4. \A f \in {inputs', row'} :
         DOMAIN f = DOMAIN forms /\ \A x \in DOMAIN forms : DOMAIN f[x] = Field
  BY <1>1, <1>2 DEF FormBase
<1>5. \A x \in DOMAIN forms : forms[x].secret /\ ~(lost' /\ forms[x].rebases = Field) =>
        (row'[x]["b"] # NoWord => forms[x].section \in waiting' /\ forms[x].rebases = Field)
  BY <1>1, <1>2, Zenon DEF SecretInv, Excused
<1> QED
  BY <1>1, <1>3, <1>4, <1>5, FormKept

LEMMA ArriveStep ==
    ASSUME FormInv, Settings!OptionsArrive
    PROVE  FormInv'
<1>1. /\ UNCHANGED <<forms, option, saving, refused, puts, closure, updateArray, lost>>
      /\ waiting' = {}
      /\ inputs' = [s \in DOMAIN forms |-> Settings!Reset(s, inputs[s])]
      /\ row' = [s \in DOMAIN forms |-> Settings!Reset(s, row[s])]
  BY Zenon DEF Settings!OptionsArrive, Settings!saveState, Settings!Slot, Settings!serverState
<1>2. FormBase /\ SecretInv
  BY DEF FormInv
<1>3. /\ lost' \in BOOLEAN
      /\ \A s \in DOMAIN forms : DOMAIN inputs[s] = Field /\ DOMAIN row[s] = Field
  BY <1>1, <1>2 DEF FormBase
<1>4. ASSUME NEW s, NEW old
      PROVE  \/ Settings!Reset(s, old) = old /\ forms[s].section \notin waiting
             \/ \E g : /\ Settings!Reset(s, old) = [k \in Field |-> g[k]]
                       /\ forms[s].secret => g["b"] = NoWord
  <2>1. CASE forms[s].section \in waiting
    <3>1. Settings!Reset(s, old)
            = [k \in Field |-> IF k = "b" /\ forms[s].secret THEN NoWord ELSE snap[s][k]]
      BY <2>1, Zenon DEF Settings!Reset, Settings!Shown, NoWord,
         Settings!Field, Field
    <3>2. PICK g : g = [k \in Field |-> IF k = "b" /\ forms[s].secret THEN NoWord ELSE snap[s][k]]
      OBVIOUS
    <3>3. "b" \in Field
      BY DEF Field
    <3>4. g = [k \in Field |-> g[k]] /\ (forms[s].secret => g["b"] = NoWord)
      BY <3>2, <3>3
    <3> QED
      BY <3>1, <3>2, <3>4
  <2>2. CASE forms[s].section \notin waiting
    BY <2>2, Zenon DEF Settings!Reset
  <2> QED
    BY <2>1, <2>2
<1>5. \A s \in DOMAIN forms : DOMAIN inputs'[s] = Field /\ DOMAIN row'[s] = Field
  BY <1>1, <1>3, <1>4
<1>6. \A f \in {inputs', row'} :
         DOMAIN f = DOMAIN forms /\ \A s \in DOMAIN forms : DOMAIN f[s] = Field
  BY <1>1, <1>5
<1>7. ASSUME NEW s \in DOMAIN forms, forms[s].secret, ~(lost /\ forms[s].rebases = Field)
      PROVE  row'[s]["b"] = NoWord
  <2>1. row'[s] = Settings!Reset(s, row[s])
    BY <1>1
  <2>2. "b" \in Field
    BY DEF Field
  <2>3. CASE Settings!Reset(s, row[s]) = row[s] /\ forms[s].section \notin waiting
    BY <1>2, <1>7, <2>1, <2>3 DEF SecretInv, Excused
  <2>4. CASE \E g : /\ Settings!Reset(s, row[s]) = [k \in Field |-> g[k]]
                    /\ forms[s].secret => g["b"] = NoWord
    BY <1>7, <2>1, <2>2, <2>4
  <2> QED
    BY <1>4, <2>3, <2>4
<1>8. \A s \in DOMAIN forms : forms[s].secret /\ ~(lost' /\ forms[s].rebases = Field) =>
        (row'[s]["b"] # NoWord => forms[s].section \in waiting' /\ forms[s].rebases = Field)
  BY <1>1, <1>7
<1> QED
  BY <1>1, <1>3, <1>6, <1>8, FormKept
(* A submission is sent.                                                   *)
LEMMA SubmitStep ==
    ASSUME FormInv, NEW s \in DOMAIN forms, Settings!OnSubmit(s)
    PROVE  FormInv'
<1> DEFINE New(k) == [slot |-> s, field |-> k, value |-> Settings!Sent(s, k), live |-> TRUE,
                      st |-> "sent"]
<1>1. /\ ~saving[s] /\ forms[s].section \notin waiting
      /\ Settings!Changed(s) # {}
      /\ puts' = puts \cup {New(k) : k \in Settings!Changed(s)}
      /\ saving' = [saving EXCEPT ![s] = TRUE]
      /\ refused' = [refused EXCEPT ![s] = FALSE]
      /\ closure' = [closure EXCEPT ![s] = inputs[s]]
      /\ updateArray' = [updateArray EXCEPT ![s] = Settings!Changed(s)]
      /\ UNCHANGED <<forms, option, inputs, row, get, waiting, lost>>
  BY Zenon DEF Settings!OnSubmit, Settings!formState, Settings!getState, Settings!serverState
<1>2. FormBase /\ FormTurns /\ PutsInv /\ SecretInv
  BY DEF FormInv
<1>3. /\ saving \in [DOMAIN forms -> BOOLEAN] /\ refused \in [DOMAIN forms -> BOOLEAN]
      /\ updateArray \in [DOMAIN forms -> SUBSET Field]
      /\ \A f \in {inputs, row, closure, option} :
            DOMAIN f = DOMAIN forms /\ \A x \in DOMAIN forms : DOMAIN f[x] = Field
  BY <1>2 DEF FormBase
<1>4. Settings!Changed(s) \subseteq Field
  BY DEF Settings!Changed, Settings!Field, Field
<1>5. \A k : /\ DOMAIN New(k) = {"slot", "field", "value", "live", "st"}
             /\ New(k).slot = s /\ New(k).field = k /\ New(k).value = Settings!Sent(s, k)
             /\ New(k).live = TRUE /\ New(k).st = "sent"
  OBVIOUS
<1> HIDE DEF New
<1>6. /\ \A x \in DOMAIN forms : saving'[x] = IF x = s THEN TRUE ELSE saving[x]
      /\ \A x \in DOMAIN forms : refused'[x] = IF x = s THEN FALSE ELSE refused[x]
      /\ \A x \in DOMAIN forms : closure'[x] = IF x = s THEN inputs[s] ELSE closure[x]
      /\ \A x \in DOMAIN forms :
            updateArray'[x] = IF x = s THEN Settings!Changed(s) ELSE updateArray[x]
  BY <1>1, <1>3
<1>7. FormBase'
  <2>1. {saving', refused'} \subseteq [DOMAIN forms -> BOOLEAN]
    BY <1>1, <1>3
  <2>2. updateArray' \in [DOMAIN forms -> SUBSET Field]
    BY <1>1, <1>3, <1>4
  <2>3. DOMAIN closure' = DOMAIN forms /\ \A x \in DOMAIN forms : DOMAIN closure'[x] = Field
    BY <1>1, <1>3, <1>6
  <2>4. \A f \in {inputs', row', closure', option'} :
            DOMAIN f = DOMAIN forms /\ \A x \in DOMAIN forms : DOMAIN f[x] = Field
    BY <1>1, <1>3, <2>3
  <2>5. \A p \in puts' : /\ DOMAIN p = {"slot", "field", "value", "live", "st"}
                         /\ p.slot \in DOMAIN forms /\ p.field \in Field /\ p.live \in BOOLEAN
    <3> TAKE p \in puts'
    <3>1. CASE p \in puts
      BY <1>2, <3>1 DEF FormBase
    <3>2. CASE \E k \in Settings!Changed(s) : p = New(k)
      <4>1. PICK k \in Settings!Changed(s) : p = New(k)
        BY <3>2
      <4> QED
        BY <1>4, <1>5, <4>1
    <3> QED
      BY <1>1, <3>1, <3>2
  <2> QED
    BY <1>1, <1>2, <2>1, <2>2, <2>4, <2>5, Zenon DEF FormBase
<1>8. FormTurns'
  <2>1. \E p \in puts' : p.slot = s /\ p.live
    <3>1. PICK k : k \in Settings!Changed(s)
      BY <1>1
    <3>2. New(k) \in puts'
      BY <1>1, <3>1
    <3> QED
      BY <1>5, <3>2
  <2>2. \A x \in DOMAIN forms : saving'[x] => \E p \in puts' : p.slot = x /\ p.live
    BY <1>1, <1>2, <1>6, <2>1 DEF FormTurns
  <2> QED
    BY <1>1, <1>2, <2>2 DEF FormTurns
<1>9. \A k : SentAs(s, k)' = Settings!Sent(s, k)
  BY <1>1, <1>6 DEF SentAs, Settings!Sent
<1>10. \A x \in DOMAIN forms : \A k : x # s => SentAs(x, k)' = SentAs(x, k)
  BY <1>1, <1>6 DEF SentAs
<1>11. PutsInv'
  <2> SUFFICES ASSUME ~lost
               PROVE  /\ \A p \in puts' : p.live /\ saving'[p.slot]
                      /\ \A p \in puts', x \in DOMAIN forms', k \in Field :
                           p.slot = x /\ p.field = k => p.value = SentAs(x, k)'
                      /\ \A x \in DOMAIN forms' : saving'[x] =>
                           \A k \in updateArray'[x] :
                             \/ refused'[x] \/ option'[x][k] = SentAs(x, k)'
                             \/ \E p \in puts' : /\ p.slot = x /\ p.field = k
                                                 /\ p.st \in {"sent", "refused"}
    BY <1>1, Zenon DEF PutsInv
  <2>1. \A p \in puts : /\ p.live /\ saving[p.slot]
                        /\ p.slot \in DOMAIN forms /\ p.slot # s
    BY <1>1, <1>2 DEF PutsInv, FormBase
  <2>2. \A p \in puts' : p.live /\ saving'[p.slot]
    <3> TAKE p \in puts'
    <3>1. CASE p \in puts
      BY <1>6, <2>1, <3>1
    <3>2. CASE \E k \in Settings!Changed(s) : p = New(k)
      <4>1. p.live = TRUE /\ p.slot = s
        BY <1>5, <3>2
      <4>2. saving'[s] = TRUE
        BY <1>6
      <4> QED
        BY <4>1, <4>2
    <3> QED
      BY <1>1, <3>1, <3>2
  <2>4. ASSUME NEW p \in puts', NEW x \in DOMAIN forms', NEW k \in Field,
               p.slot = x, p.field = k
        PROVE  p.value = SentAs(x, k)'
    <3>1. CASE p \in puts
      <4>1. x # s /\ x \in DOMAIN forms
        BY <2>1, <2>4, <3>1
      <4>2. p.value = SentAs(x, k)
        BY <1>2, <2>4, <3>1, <4>1 DEF PutsInv
      <4> QED
        BY <1>10, <4>1, <4>2
    <3>2. CASE \E j \in Settings!Changed(s) : p = New(j)
      <4>1. x = s /\ p.value = Settings!Sent(s, k)
        BY <1>5, <2>4, <3>2
      <4> QED
        BY <1>9, <4>1
    <3> QED
      BY <1>1, <3>1, <3>2
  <2>3. ASSUME NEW x \in DOMAIN forms', saving'[x], NEW k \in updateArray'[x]
        PROVE  \/ refused'[x] \/ option'[x][k] = SentAs(x, k)'
               \/ \E p \in puts' : /\ p.slot = x /\ p.field = k
                                   /\ p.st \in {"sent", "refused"}
    <3>1. CASE x = s
      <4>1. k \in Settings!Changed(s)
        BY <1>6, <2>3, <3>1
      <4>2. New(k) \in puts'
        BY <1>1, <4>1
      <4> QED
        BY <1>5, <3>1, <4>2
    <3>2. CASE x # s
      <4>1. /\ x \in DOMAIN forms /\ saving[x] /\ k \in updateArray[x]
            /\ refused'[x] = refused[x] /\ option'[x][k] = option[x][k]
        BY <1>1, <1>6, <2>3, <3>2
      <4>2. \/ refused[x] \/ option[x][k] = SentAs(x, k)
            \/ \E p \in puts : p.slot = x /\ p.field = k /\ p.st \in {"sent", "refused"}
        BY <1>2, <4>1 DEF PutsInv
      <4> QED
        BY <1>1, <1>10, <3>2, <4>1, <4>2
    <3> QED
      BY <3>1, <3>2
  <2> QED
    BY <2>2, <2>3, <2>4
<1>12. SecretInv'
  <2> SUFFICES ASSUME NEW x \in DOMAIN forms, forms[x].secret, ~Excused(x)
               PROVE  /\ row[x]["b"] # NoWord =>
                           forms[x].section \in waiting /\ forms[x].rebases = Field
                      /\ \A p \in puts' : p.slot = x /\ p.field = "b" => p.value # NoWord
    BY <1>1, Zenon DEF SecretInv, Excused
  <2>1. /\ row[x]["b"] # NoWord => forms[x].section \in waiting /\ forms[x].rebases = Field
        /\ \A p \in puts : p.slot = x /\ p.field = "b" => p.value # NoWord
    BY <1>2, Zenon DEF SecretInv
  <2>2. x = s /\ "b" \in Settings!Changed(s) => Settings!Sent(s, "b") # NoWord
    <3> HAVE x = s /\ "b" \in Settings!Changed(s)
    <3>1. row[s]["b"] = NoWord
      BY <1>1, <2>1
    <3>2. inputs[s]["b"] # row[s]["b"]
      BY DEF Settings!Changed
    <3>3. inputs[s]["b"] # NoWord
      BY <3>1, <3>2
    <3> QED
      BY <3>3, SentBlank, Zenon DEF Settings!Sent
  <2>3. ASSUME NEW p \in puts', p.slot = x, p.field = "b"
        PROVE  p.value # NoWord
    <3>1. CASE p \in puts
      BY <2>1, <2>3, <3>1
    <3>2. CASE \E k \in Settings!Changed(s) : p = New(k)
      BY <1>5, <2>2, <2>3, <3>2
    <3> QED
      BY <1>1, <3>1, <3>2
  <2> QED
    BY <2>1, <2>3
<1> QED
  BY <1>7, <1>8, <1>11, <1>12 DEF FormInv

(* The server stores a value or refuses it.                                *)
LEMMA StoreStep ==
    ASSUME FormInv, NEW p \in puts, Settings!UpdateOption(p)
    PROVE  FormInv'
<1>1. /\ p.st = "sent"
      /\ UNCHANGED <<forms, inputs, row, saving, refused, closure, updateArray, get, waiting, lost>>
  BY DEF Settings!UpdateOption, Settings!formState, Settings!getState
<1>2. FormBase /\ FormTurns /\ PutsInv /\ SecretInv
  BY DEF FormInv
<1>3. PICK o : /\ puts' = (puts \ {p}) \cup {o}
               /\ o = [p EXCEPT !.st = "stored"] \/ o = [p EXCEPT !.st = "refused"]
               /\ \/ option' = [option EXCEPT ![p.slot][p.field] = p.value]
                  \/ o = [p EXCEPT !.st = "refused"] /\ option' = option
  BY DEF Settings!UpdateOption
<1>4. /\ p.slot \in DOMAIN forms /\ p.field \in Field /\ p.live \in BOOLEAN
      /\ DOMAIN p = {"slot", "field", "value", "live", "st"}
      /\ DOMAIN option = DOMAIN forms /\ \A x \in DOMAIN forms : DOMAIN option[x] = Field
  BY <1>2 DEF FormBase
<1>5. /\ DOMAIN o = {"slot", "field", "value", "live", "st"}
      /\ o.slot = p.slot /\ o.field = p.field /\ o.value = p.value /\ o.live = p.live
  BY <1>3, <1>4
<1>6. \/ option' = [option EXCEPT ![p.slot][p.field] = p.value]
      \/ o.st = "refused" /\ option' = option
  BY <1>3, <1>4
<1>7. \/ \A x \in DOMAIN forms, k \in Field :
           option'[x][k] = IF x = p.slot /\ k = p.field THEN p.value ELSE option[x][k]
      \/ o.st = "refused" /\ option' = option
  BY <1>4, <1>6
<1>8. FormBase'
  <2>1. DOMAIN option' = DOMAIN forms /\ \A x \in DOMAIN forms : DOMAIN option'[x] = Field
    BY <1>4, <1>6
  <2>2. \A f \in {inputs', row', closure', option'} :
            DOMAIN f = DOMAIN forms /\ \A x \in DOMAIN forms : DOMAIN f[x] = Field
    BY <1>1, <1>2, <2>1 DEF FormBase
  <2>3. \A q \in puts' : /\ DOMAIN q = {"slot", "field", "value", "live", "st"}
                         /\ q.slot \in DOMAIN forms /\ q.field \in Field /\ q.live \in BOOLEAN
    BY <1>2, <1>3, <1>4, <1>5 DEF FormBase
  <2> QED
    BY <1>1, <1>2, <2>2, <2>3, Zenon DEF FormBase
<1>9. \A q \in puts : \E r \in puts' : r.slot = q.slot /\ r.live = q.live
  BY <1>3, <1>5
<1>10. FormTurns'
  BY <1>1, <1>2, <1>9 DEF FormTurns
<1>11. \A x, k : SentAs(x, k)' = SentAs(x, k)
  BY <1>1 DEF SentAs
<1>12. PutsInv'
  <2> SUFFICES ASSUME ~lost
               PROVE  /\ \A q \in puts' : q.live /\ saving'[q.slot]
                      /\ \A q \in puts', x \in DOMAIN forms', k \in Field :
                           q.slot = x /\ q.field = k => q.value = SentAs(x, k)'
                      /\ \A x \in DOMAIN forms' : saving'[x] =>
                           \A k \in updateArray'[x] :
                             \/ refused'[x] \/ option'[x][k] = SentAs(x, k)'
                             \/ \E q \in puts' : /\ q.slot = x /\ q.field = k
                                                 /\ q.st \in {"sent", "refused"}
    BY <1>1, Zenon DEF PutsInv
  <2>1. \A q \in puts, x \in DOMAIN forms, k \in Field :
          q.slot = x /\ q.field = k => q.value = SentAs(x, k)
    BY <1>2 DEF PutsInv
  <2>2. \A q \in puts' : q.live /\ saving'[q.slot]
    BY <1>1, <1>2, <1>3, <1>5 DEF PutsInv
  <2>3. ASSUME NEW q \in puts', NEW x \in DOMAIN forms', NEW k \in Field,
               q.slot = x, q.field = k
        PROVE  q.value = SentAs(x, k)'
    <3>1. x \in DOMAIN forms
      BY <1>1
    <3>2. \E r \in puts : r.slot = x /\ r.field = k /\ r.value = q.value
      BY <1>3, <1>5, <2>3
    <3>3. q.value = SentAs(x, k)
      BY <2>1, <3>1, <3>2
    <3> QED
      BY <1>11, <3>3
  <2>4. ASSUME NEW x \in DOMAIN forms', saving'[x], NEW k \in updateArray'[x]
        PROVE  \/ refused'[x] \/ option'[x][k] = SentAs(x, k)'
               \/ \E q \in puts' : q.slot = x /\ q.field = k /\ q.st \in {"sent", "refused"}
    <3>1. x \in DOMAIN forms /\ saving[x] /\ k \in updateArray[x] /\ refused'[x] = refused[x]
      BY <1>1, <2>4
    <3>2. \/ refused[x] \/ option[x][k] = SentAs(x, k)
          \/ \E q \in puts : q.slot = x /\ q.field = k /\ q.st \in {"sent", "refused"}
      BY <1>2, <3>1 DEF PutsInv
    <3>3. k \in Field
      BY <1>2, <3>1 DEF FormBase
    <3>4. CASE x = p.slot /\ k = p.field
      <4>1. p.value = SentAs(x, k)
        BY <1>4, <2>1, <3>4
      <4>2. o \in puts'
        BY <1>3
      <4>3. option'[x][k] = SentAs(x, k) \/ o.st = "refused"
        BY <1>7, <3>1, <3>3, <3>4, <4>1
      <4> QED
        BY <1>5, <1>11, <3>4, <4>2, <4>3
    <3>5. CASE ~(x = p.slot /\ k = p.field)
      <4>1. option'[x][k] = option[x][k]
        BY <1>7, <3>1, <3>3, <3>5
      <4>2. \A q \in puts : q.slot = x /\ q.field = k => q \in puts'
        BY <1>3, <3>5
      <4> QED
        BY <1>11, <3>1, <3>2, <4>1, <4>2
    <3> QED
      BY <3>4, <3>5
  <2> QED
    BY <2>2, <2>3, <2>4
<1>13. SecretInv'
  BY <1>1, <1>2, <1>3, <1>5 DEF SecretInv, Excused
<1> QED
  BY <1>8, <1>10, <1>12, <1>13 DEF FormInv

(* The sync loop takes a row into OptionMap.                               *)
LEMMA SyncStep ==
    ASSUME FormInv, NEW s \in DOMAIN forms, NEW k \in Field, Settings!SyncWrites(s, k)
    PROVE  FormInv'
<1>1. /\ option' = [option EXCEPT ![s][k] = synced[s][k]] /\ lost' = TRUE
      /\ UNCHANGED <<forms, inputs, row, saving, refused, closure, updateArray, get, waiting, puts>>
  BY Zenon DEF Settings!SyncWrites, Settings!formState, Settings!saveState, Settings!getState
<1>2. FormBase /\ FormTurns /\ SecretInv
  BY DEF FormInv
<1>3. DOMAIN option' = DOMAIN forms /\ \A x \in DOMAIN forms : DOMAIN option'[x] = Field
  BY <1>1, <1>2 DEF FormBase
<1>4. FormBase'
  <2>1. \A f \in {inputs', row', closure', option'} :
            DOMAIN f = DOMAIN forms /\ \A x \in DOMAIN forms : DOMAIN f[x] = Field
    BY <1>1, <1>2, <1>3 DEF FormBase
  <2>2. {lost'} \subseteq BOOLEAN
    BY <1>1
  <2> QED
    BY <1>1, <1>2, <2>1, <2>2, Zenon DEF FormBase
<1>5. FormTurns' /\ PutsInv'
  BY <1>1, <1>2 DEF FormTurns, PutsInv
<1>6. SecretInv'
  BY <1>1, <1>2, Zenon DEF SecretInv, Excused
<1> QED
  BY <1>4, <1>5, <1>6 DEF FormInv

(* The answer of a PUT.                                                    *)
LEMMA AnsweredStep ==
    ASSUME FormInv, NEW p \in puts, Settings!PutAnswered(p)
    PROVE  FormInv'
<1> DEFINE no == refused[p.slot] \/ p.st = "refused"
           done == Settings!Others(p) = {}
           saved == done /\ ~(forms[p.slot].checked /\ no)
<1>1. /\ p.live /\ p.st # "sent" /\ puts' = puts \ {p}
      /\ refused' = [refused EXCEPT ![p.slot] = no]
      /\ UNCHANGED <<forms, option, inputs, closure, updateArray, lost>>
  BY Zenon DEF Settings!PutAnswered, Settings!serverState
<1>2. /\ done => saving' = [saving EXCEPT ![p.slot] = FALSE]
      /\ ~done => saving' = saving
      /\ ~saved => UNCHANGED <<row, get, waiting>>
  BY Zenon DEF Settings!PutAnswered, Settings!NotSaved, Settings!getState
<1>3. saved => /\ row' = [row EXCEPT ![p.slot] =
                    [k \in Field |-> IF k \in forms[p.slot].rebases THEN closure[p.slot][k] ELSE @[k]]]
               /\ waiting' = waiting \cup {forms[p.slot].section}
               /\ get' = IF get = "none" THEN "asked" ELSE get
  BY Zenon DEF Settings!PutAnswered, Settings!Saved, Settings!OnRefresh, Settings!Field, Field
<1>4. FormBase /\ FormTurns /\ PutsInv /\ SecretInv
  BY DEF FormInv
<1>5. /\ saving \in [DOMAIN forms -> BOOLEAN] /\ refused \in [DOMAIN forms -> BOOLEAN]
      /\ p.slot \in DOMAIN forms
      /\ DOMAIN row = DOMAIN forms /\ \A x \in DOMAIN forms : DOMAIN row[x] = Field
  BY <1>4 DEF FormBase
<1>6. done => \A q \in puts' : q.slot = p.slot => ~q.live
  BY <1>1 DEF Settings!Others
<1>7. ~done => \E q \in puts' : q.slot = p.slot /\ q.live
  BY <1>1 DEF Settings!Others
<1> HIDE DEF no, done, saved
<1>8. \A x \in DOMAIN forms : saving'[x] = IF done /\ x = p.slot THEN FALSE ELSE saving[x]
  BY <1>2, <1>5
<1>9. \A x \in DOMAIN forms : refused'[x] = IF x = p.slot THEN no ELSE refused[x]
  BY <1>1, <1>5
<1>10. DOMAIN row' = DOMAIN forms /\ \A x \in DOMAIN forms : DOMAIN row'[x] = Field
  <2>1. CASE saved
    BY <1>3, <1>5, <2>1
  <2>2. CASE ~saved
    BY <1>2, <1>5, <2>2
  <2> QED
    BY <2>1, <2>2
<1>11. FormBase'
  <2>1. saving' \in [DOMAIN forms -> BOOLEAN]
    BY <1>2, <1>5
  <2>2. refused' \in [DOMAIN forms -> BOOLEAN]
    BY <1>1, <1>5 DEF no
  <2>3. \A f \in {inputs', row', closure', option'} :
            DOMAIN f = DOMAIN forms /\ \A x \in DOMAIN forms : DOMAIN f[x] = Field
    BY <1>1, <1>4, <1>10 DEF FormBase
  <2>4. {saving', refused'} \subseteq [DOMAIN forms -> BOOLEAN]
    BY <2>1, <2>2
  <2>5. puts' \subseteq puts
    BY <1>1
  <2> QED
    BY <1>1, <1>4, <2>3, <2>4, <2>5, Zenon DEF FormBase
<1>12. FormTurns'
  <2>1. ASSUME NEW x \in DOMAIN forms, saving'[x]
        PROVE  \E q \in puts' : q.slot = x /\ q.live
    <3>1. saving[x] /\ ~(done /\ x = p.slot)
      BY <1>8, <2>1
    <3>2. PICK q \in puts : q.slot = x /\ q.live
      BY <1>4, <3>1 DEF FormTurns
    <3> QED
      BY <1>1, <1>7, <3>1, <3>2
  <2>2. get' = "none" => waiting' = {}
    <3>1. CASE saved
      BY <1>3, <3>1
    <3>2. CASE ~saved
      BY <1>2, <1>4, <3>2 DEF FormTurns
    <3> QED
      BY <3>1, <3>2
  <2> QED
    BY <1>1, <2>1, <2>2 DEF FormTurns
<1>13. \A x, k : SentAs(x, k)' = SentAs(x, k)
  BY <1>1 DEF SentAs
<1>14. PutsInv'
  <2> SUFFICES ASSUME ~lost
               PROVE  /\ \A q \in puts' : q.live /\ saving'[q.slot]
                      /\ \A q \in puts', x \in DOMAIN forms', k \in Field :
                           q.slot = x /\ q.field = k => q.value = SentAs(x, k)'
                      /\ \A x \in DOMAIN forms' : saving'[x] =>
                           \A k \in updateArray'[x] :
                             \/ refused'[x] \/ option'[x][k] = SentAs(x, k)'
                             \/ \E q \in puts' : /\ q.slot = x /\ q.field = k
                                                 /\ q.st \in {"sent", "refused"}
    BY <1>1, Zenon DEF PutsInv
  <2>1. \A q \in puts : q.live /\ saving[q.slot] /\ q.slot \in DOMAIN forms
    BY <1>4 DEF PutsInv, FormBase
  <2>2. \A q \in puts' : q.live /\ saving'[q.slot]
    BY <1>1, <1>6, <1>8, <2>1
  <2>3. ASSUME NEW q \in puts', NEW x \in DOMAIN forms', NEW k \in Field,
               q.slot = x, q.field = k
        PROVE  q.value = SentAs(x, k)'
    <3>1. q \in puts /\ x \in DOMAIN forms
      BY <1>1
    <3>2. q.value = SentAs(x, k)
      BY <1>4, <2>3, <3>1 DEF PutsInv
    <3> QED
      BY <1>13, <3>2
  <2>4. ASSUME NEW x \in DOMAIN forms', saving'[x], NEW k \in updateArray'[x]
        PROVE  \/ refused'[x] \/ option'[x][k] = SentAs(x, k)'
               \/ \E q \in puts' : q.slot = x /\ q.field = k /\ q.st \in {"sent", "refused"}
    <3>1. x \in DOMAIN forms /\ saving[x] /\ k \in updateArray[x] /\ option'[x][k] = option[x][k]
      BY <1>1, <1>8, <2>4
    <3>2. \/ refused[x] \/ option[x][k] = SentAs(x, k)
          \/ \E q \in puts : q.slot = x /\ q.field = k /\ q.st \in {"sent", "refused"}
      BY <1>4, <3>1 DEF PutsInv
    <3>3. refused[x] => refused'[x]
      BY <1>9, <3>1 DEF no
    <3>4. ASSUME NEW q \in puts, q.slot = x, q.st \in {"sent", "refused"}
          PROVE  q \in puts' \/ refused'[x]
      BY <1>1, <1>9, <3>1, <3>4 DEF no
    <3>5. option[x][k] = SentAs(x, k) => option'[x][k] = SentAs(x, k)'
      BY <1>13, <3>1
    <3> QED
      BY <3>2, <3>3, <3>4, <3>5
  <2> QED
    BY <2>2, <2>3, <2>4
<1>15. SecretInv'
  <2> SUFFICES ASSUME NEW x \in DOMAIN forms, forms[x].secret, ~Excused(x)
               PROVE  /\ row'[x]["b"] # NoWord =>
                           forms[x].section \in waiting' /\ forms[x].rebases = Field
                      /\ \A q \in puts' : q.slot = x /\ q.field = "b" => q.value # NoWord
    BY <1>1, Zenon DEF SecretInv, Excused
  <2>1. /\ row[x]["b"] # NoWord => forms[x].section \in waiting /\ forms[x].rebases = Field
        /\ \A q \in puts : q.slot = x /\ q.field = "b" => q.value # NoWord
    BY <1>4, Zenon DEF SecretInv
  <2>2. waiting \subseteq waiting'
    BY <1>2, <1>3
  <2>3. CASE saved /\ x = p.slot
    <3>1. "b" \in Field
      BY DEF Field
    <3>2. row'[x]["b"] = IF "b" \in forms[x].rebases THEN closure[x]["b"] ELSE row[x]["b"]
      BY <1>3, <1>5, <2>3, <3>1
    <3>3. forms[x].rebases \in {{}, {"a"}, Field}
      BY <1>4, FormsAssumption DEF FormBase
    <3>4. "b" \in forms[x].rebases => forms[x].rebases = Field
      BY <3>3
    <3>5. forms[x].section \in waiting'
      BY <1>3, <2>3
    <3> QED
      BY <1>1, <2>1, <3>2, <3>4, <3>5
  <2>4. CASE ~(saved /\ x = p.slot)
    <3>1. row'[x] = row[x]
      BY <1>2, <1>3, <1>5, <2>4
    <3> QED
      BY <1>1, <2>1, <2>2, <3>1
  <2> QED
    BY <2>3, <2>4
<1> QED
  BY <1>11, <1>12, <1>14, <1>15 DEF FormInv

(* A PUT fails, or a late answer comes.                                    *)
LEMMA FailsPutStep ==
    ASSUME FormInv, NEW p \in puts, Settings!PutFails(p)
    PROVE  FormInv'
<1> DEFINE New(q) == IF p.live /\ q.slot = p.slot THEN [q EXCEPT !.live = FALSE] ELSE q
<1>0. PICK rest \in {puts, puts \ {p}} : puts' = {New(q) : q \in rest}
  BY DEF Settings!PutFails
<1>1. /\ lost' = TRUE
      /\ puts' = {New(q) : q \in rest} /\ rest \subseteq puts /\ puts \subseteq rest \cup {p}
      /\ saving' = [saving EXCEPT ![p.slot] = @ /\ ~p.live]
      /\ UNCHANGED <<forms, option, inputs, row, refused, closure, updateArray, get, waiting>>
  BY <1>0 DEF Settings!PutFails, Settings!formState, Settings!getState, Settings!serverState
<1>2. FormBase /\ FormTurns /\ SecretInv
  BY DEF FormInv
<1>3. /\ saving \in [DOMAIN forms -> BOOLEAN] /\ p.slot \in DOMAIN forms
      /\ \A q \in puts : /\ DOMAIN q = {"slot", "field", "value", "live", "st"}
                         /\ q.slot \in DOMAIN forms /\ q.field \in Field /\ q.live \in BOOLEAN
  BY <1>2 DEF FormBase
<1>4. \A q \in puts : /\ DOMAIN New(q) = {"slot", "field", "value", "live", "st"}
                      /\ New(q).slot = q.slot /\ New(q).field = q.field
                      /\ New(q).value = q.value /\ New(q).live \in BOOLEAN
                      /\ ~(p.live /\ q.slot = p.slot) => New(q) = q
  BY <1>3
<1> HIDE DEF New
<1>5. \A x \in DOMAIN forms : saving'[x] = IF x = p.slot THEN saving[x] /\ ~p.live ELSE saving[x]
  BY <1>1, <1>3
<1>6. FormBase'
  <2>1. saving' \in [DOMAIN forms -> BOOLEAN]
    BY <1>1, <1>3
  <2>2. {saving', refused'} \subseteq [DOMAIN forms' -> BOOLEAN] /\ {lost'} \subseteq BOOLEAN
    BY <1>1, <1>2, <2>1 DEF FormBase
  <2>3. \A r \in puts' : /\ DOMAIN r = {"slot", "field", "value", "live", "st"}
                         /\ r.slot \in DOMAIN forms /\ r.field \in Field /\ r.live \in BOOLEAN
    <3> TAKE r \in puts'
    <3>1. PICK q \in puts : r = New(q)
      BY <1>1
    <3> QED
      BY <1>3, <1>4, <3>1
  <2> QED
    BY <1>1, <1>2, <2>2, <2>3, Zenon DEF FormBase
<1>7. FormTurns'
  <2>1. ASSUME NEW x \in DOMAIN forms, saving'[x]
        PROVE  \E q \in puts' : q.slot = x /\ q.live
    <3>1. saving[x] /\ ~(x = p.slot /\ p.live)
      BY <1>3, <1>5, <2>1
    <3>2. PICK q \in puts : q.slot = x /\ q.live
      BY <1>2, <3>1 DEF FormTurns
    <3>3. q # p /\ New(q) = q
      BY <1>4, <3>1, <3>2
    <3> QED
      BY <1>1, <3>2, <3>3
  <2> QED
    BY <1>1, <1>2, <2>1 DEF FormTurns
<1>8. PutsInv'
  BY <1>1 DEF PutsInv
<1>9. SecretInv'
  <2> SUFFICES ASSUME NEW x \in DOMAIN forms, forms[x].secret, forms[x].rebases # Field
               PROVE  /\ row[x]["b"] # NoWord =>
                           forms[x].section \in waiting /\ forms[x].rebases = Field
                      /\ \A r \in puts' : r.slot = x /\ r.field = "b" => r.value # NoWord
    BY <1>1, Zenon DEF SecretInv, Excused
  <2>1. /\ row[x]["b"] # NoWord => forms[x].section \in waiting /\ forms[x].rebases = Field
        /\ \A q \in puts : q.slot = x /\ q.field = "b" => q.value # NoWord
    BY <1>2, Zenon DEF SecretInv, Excused
  <2>2. ASSUME NEW r \in puts', r.slot = x, r.field = "b" PROVE r.value # NoWord
    <3>1. PICK q \in puts : r = New(q)
      BY <1>1
    <3> QED
      BY <1>4, <2>1, <2>2, <3>1
  <2> QED
    BY <2>1, <2>2
<1> QED
  BY <1>6, <1>7, <1>8, <1>9 DEF FormInv

LEMMA LateStep ==
    ASSUME FormInv, NEW p \in puts, Settings!LateAnswer(p)
    PROVE  FormInv'
<1>1. /\ ~p.live /\ puts' = puts \ {p}
      /\ UNCHANGED <<forms, option, inputs, row, saving, refused, closure, updateArray, get, waiting,
                     lost>>
  BY DEF Settings!LateAnswer, Settings!formState, Settings!getState, Settings!serverState
<1>2. FormBase /\ FormTurns /\ PutsInv /\ SecretInv
  BY DEF FormInv
<1>3. puts' \subseteq puts
  BY <1>1
<1>4. FormBase'
  BY <1>1, <1>2, <1>3, Zenon DEF FormBase
<1>5. FormTurns'
  BY <1>1, <1>2 DEF FormTurns
<1>6. PutsInv'
  <2>1. lost
    BY <1>1, <1>2 DEF PutsInv
  <2> QED
    BY <1>1, <2>1 DEF PutsInv
<1>7. SecretInv'
  BY <1>1, <1>2, <1>3, Zenon DEF SecretInv, Excused
<1> QED
  BY <1>4, <1>5, <1>6, <1>7 DEF FormInv

LEMMA FormStart ==
    ASSUME Settings!Init
    PROVE  FormInv
<1>1. /\ forms \in Mounted
      /\ option \in [DOMAIN forms -> [Field -> {"v1"}] \cup [a : {"v1"}, b : {NoWord}]]
      /\ inputs = [s \in DOMAIN forms |-> [k \in Field |-> NoWord]]
      /\ row = inputs /\ closure = inputs
      /\ saving = [s \in DOMAIN forms |-> FALSE] /\ refused = [s \in DOMAIN forms |-> FALSE]
      /\ updateArray = [s \in DOMAIN forms |-> {}]
      /\ puts = {} /\ get = "asked" /\ lost = FALSE
  BY Zenon DEF Settings!Init, Settings!Slot, Settings!Field, Field, NoWord
<1>2. DOMAIN option = DOMAIN forms /\ \A s \in DOMAIN forms : DOMAIN option[s] = Field
  <2>1. \A f \in [Field -> {"v1"}] \cup [a : {"v1"}, b : {NoWord}] : DOMAIN f = Field
    BY DEF Field
  <2> QED
    BY <1>1, <2>1
<1>3. \A f \in {inputs, row, closure, option} :
          DOMAIN f = DOMAIN forms /\ \A s \in DOMAIN forms : DOMAIN f[s] = Field
  BY <1>1, <1>2
<1>4. /\ {saving, refused} \subseteq [DOMAIN forms -> BOOLEAN] /\ {lost} \subseteq BOOLEAN
      /\ updateArray \in [DOMAIN forms -> SUBSET Field]
  BY <1>1
<1>5. FormBase
  BY <1>1, <1>3, <1>4 DEF FormBase
<1>6. FormTurns /\ PutsInv
  BY <1>1 DEF FormTurns, PutsInv
<1>7. "b" \in Field
  BY DEF Field
<1>8. SecretInv
  BY <1>1, <1>7 DEF SecretInv
<1> QED
  BY <1>5, <1>6, <1>8 DEF FormInv

LEMMA FormInductive == Spec => []FormInv
<1>1. Init => FormInv
  BY FormStart, Zenon DEF Init
<1>2. FormInv /\ [Next]_vars => FormInv'
  <2> SUFFICES ASSUME FormInv, [Next]_vars PROVE FormInv'
    OBVIOUS
  <2>1. Settings!Next \/ UNCHANGED settings
    BY FormsStep
  <2> QED
    BY <2>1, EditStep, SubmitStep, StoreStep, SyncStep, AnsweredStep, FailsPutStep, LateStep,
       ServerReadsStep, ArriveStep, GetFailsStep, Zenon
       DEF Settings!Next, Settings!Slot, Settings!Field, Field
<1> QED
  BY <1>1, <1>2, PTL DEF Spec

LEMMA FormSpinners == FormInv => Settings!SpinnersStop
<1> SUFFICES ASSUME FormInv, puts = {}, get = "none"
             PROVE  waiting = {} /\ \A s \in DOMAIN forms : ~saving[s]
  BY Zenon DEF Settings!SpinnersStop, Settings!Quiet, Settings!Slot
<1> QED
  BY DEF FormInv, FormTurns

(* "Saved" is only said by the answer to the last PUT of a submission.     *)
NoticeInv == DOMAIN notice = DOMAIN forms

LEMMA NoticeInductive == Spec => []NoticeInv
<1>1. Init => NoticeInv
  <2>1. Settings!Init => notice = [s \in DOMAIN forms |-> "none"]
    BY Zenon DEF Settings!Init, Settings!Slot
  <2>2. notice = [s \in DOMAIN forms |-> "none"] => NoticeInv
    BY DEF NoticeInv
  <2> QED
    BY <2>1, <2>2, Zenon DEF Init
<1>2. NoticeInv /\ [Next]_vars => NoticeInv'
  <2> SUFFICES ASSUME NoticeInv, [Next]_vars PROVE NoticeInv'
    OBVIOUS
  <2>1. Settings!Next \/ UNCHANGED settings
    BY FormsStep
  <2>2. ASSUME NEW p, Settings!PutAnswered(p) \/ Settings!PutFails(p)
        PROVE  /\ forms' = forms
               /\ notice' = notice \/ \E v : notice' = [notice EXCEPT ![p.slot] = v]
    BY <2>2, Zenon DEF Settings!PutAnswered, Settings!Saved, Settings!NotSaved, Settings!PutFails
  <2>3. ASSUME NEW s, Settings!OnSubmit(s)
        PROVE  forms' = forms /\ notice' = [notice EXCEPT ![s] = "none"]
    BY <2>3, Zenon DEF Settings!OnSubmit
  <2>4. \/ UNCHANGED <<forms, notice>>
        \/ \E p : Settings!PutAnswered(p) \/ Settings!PutFails(p)
        \/ \E s : Settings!OnSubmit(s)
    BY <2>1, Zenon DEF settings, Settings!Next, Settings!Edit, Settings!UpdateOption,
       Settings!SyncReads, Settings!SyncWrites, Settings!LateAnswer, Settings!GetOptions, Settings!OptionsArrive, Settings!GetFails,
       Settings!saveState
  <2> QED
    BY <2>2, <2>3, <2>4 DEF NoticeInv
<1> QED
  BY <1>1, <1>2, PTL DEF Spec

LEMMA SavedStep ==
    ASSUME FormInv, NoticeInv, Settings!Next, NEW s \in DOMAIN forms,
           notice[s] # "saved", notice'[s] = "saved", ~lost, forms[s].checked \/ ~refused'[s]
    PROVE  \A k \in updateArray[s] : option[s][k] = SentAs(s, k)
<1>1. PICK p \in puts : Settings!PutAnswered(p)
  <2>1. notice' # notice
    OBVIOUS
  <2>2. ~\E x \in DOMAIN forms : Settings!OnSubmit(x)
    <3> SUFFICES ASSUME NEW x \in DOMAIN forms, Settings!OnSubmit(x) PROVE FALSE
      OBVIOUS
    <3>1. notice' = [notice EXCEPT ![x] = "none"]
      BY Zenon DEF Settings!OnSubmit
    <3> QED
      BY <3>1 DEF NoticeInv
  <2>3. ~\E p \in puts : Settings!PutFails(p)
    <3> SUFFICES ASSUME NEW p \in puts, Settings!PutFails(p) PROVE FALSE
      OBVIOUS
    <3>1. notice' = notice \/ notice' = [notice EXCEPT ![p.slot] = "failed"]
      BY DEF Settings!PutFails
    <3> QED
      BY <3>1 DEF NoticeInv
  <2> QED
    BY <2>1, <2>2, <2>3, Zenon DEF Settings!Next, Settings!Slot, Settings!Edit,
       Settings!UpdateOption, Settings!SyncReads, Settings!SyncWrites, Settings!LateAnswer,
       Settings!GetOptions, Settings!OptionsArrive, Settings!GetFails, Settings!saveState
<1>2. FormBase /\ PutsInv
  BY DEF FormInv
<1>3. p.slot \in DOMAIN forms
  BY <1>2 DEF FormBase
<1>4. /\ p.st # "sent"
      /\ refused' = [refused EXCEPT ![p.slot] = refused[p.slot] \/ p.st = "refused"]
      /\ \/ notice' = notice
         \/ notice' = [notice EXCEPT ![p.slot] = "refused"]
         \/ /\ notice' = [notice EXCEPT ![p.slot] = "saved"] /\ Settings!Others(p) = {}
            /\ ~(forms[p.slot].checked /\ (refused[p.slot] \/ p.st = "refused"))
  BY <1>1, Zenon DEF Settings!PutAnswered, Settings!Saved, Settings!NotSaved
<1>5. /\ s = p.slot /\ Settings!Others(p) = {}
      /\ ~(forms[s].checked /\ (refused[s] \/ p.st = "refused"))
  BY <1>4 DEF NoticeInv
<1>6. refused'[s] = (refused[s] \/ p.st = "refused")
  BY <1>2, <1>3, <1>4, <1>5 DEF FormBase
<1>7. ~refused[s] /\ p.st # "refused"
  BY <1>5, <1>6
<1>8. \A q \in puts : q.slot = s => q = p
  BY <1>2, <1>5 DEF Settings!Others, PutsInv
<1>9. saving[s]
  BY <1>2, <1>5 DEF PutsInv
<1> QED
  BY <1>2, <1>4, <1>7, <1>8, <1>9 DEF PutsInv

(* Only UpdateOption and the sync loop change an option, and the table     *)
(* only UpdateOption.                                                      *)
LEMMA ServerKept ==
    ASSUME Settings!Next, ~\E p \in puts : Settings!UpdateOption(p)
    PROVE  /\ UNCHANGED <<database, dropped>> /\ (lost => lost')
           /\ option' = option \/ lost' = TRUE
<1>1. CASE \E s, k : Settings!SyncWrites(s, k)
  <2>1. UNCHANGED <<database, dropped>> /\ lost' = TRUE
    BY <1>1, Zenon DEF Settings!SyncWrites
  <2> QED
    BY <2>1
<1>2. CASE Settings!GetFails \/ \E p : Settings!PutFails(p)
  <2>1. UNCHANGED <<database, dropped>> /\ lost' = TRUE
    BY <1>2, Zenon DEF Settings!PutFails, Settings!GetFails, Settings!serverState
  <2> QED
    BY <2>1
<1>3. CASE ~(\E s, k : Settings!SyncWrites(s, k)) /\ ~(Settings!GetFails \/ \E p : Settings!PutFails(p))
  <2>1. UNCHANGED <<option, database, dropped, lost>>
    BY <1>3, Zenon DEF Settings!Next, Settings!SyncReads, Settings!Edit, Settings!OnSubmit,
       Settings!PutAnswered, Settings!LateAnswer, Settings!GetOptions, Settings!OptionsArrive,
       Settings!serverState
  <2> QED
    BY <2>1
<1> QED
  BY <1>1, <1>2, <1>3

(* The table is what the server works with, until an error of a statement  *)
(* is ignored or the sync loop changes OptionMap.                          *)
SameTable ==
    /\ dropped \in BOOLEAN /\ lost \in BOOLEAN
    /\ ~dropped /\ ~lost => database = option

LEMMA SameTableInductive == Spec => []SameTable
<1>1. Init => SameTable
  <2>1. Settings!Init => dropped = FALSE /\ lost = FALSE /\ database = option
    BY Zenon DEF Settings!Init
  <2> QED
    BY <2>1, Zenon DEF Init, SameTable
<1>2. SameTable /\ FormInv' /\ [Next]_vars => SameTable'
  <2> SUFFICES ASSUME SameTable, FormInv', [Next]_vars PROVE SameTable'
    OBVIOUS
  <2>0. lost' \in BOOLEAN
    BY DEF FormInv, FormBase
  <2>1. Settings!Next \/ UNCHANGED settings
    BY FormsStep
  <2>2. CASE UNCHANGED settings
    BY <2>2 DEF settings, SameTable
  <2>3. CASE \E p \in puts : Settings!UpdateOption(p)
    <3>1. PICK p \in puts : Settings!UpdateOption(p)
      BY <2>3
    <3>2. /\ lost' = lost
          /\ \/ UNCHANGED <<option, database, dropped>>
             \/ /\ option' = [option EXCEPT ![p.slot][p.field] = p.value]
                /\ database' = [database EXCEPT ![p.slot][p.field] = p.value]
                /\ dropped' = dropped
             \/ dropped' = TRUE
      BY <3>1, Zenon DEF Settings!UpdateOption
    <3> QED
      BY <3>2 DEF SameTable
  <2>4. CASE Settings!Next /\ ~\E p \in puts : Settings!UpdateOption(p)
    BY <2>0, <2>4, ServerKept DEF SameTable
  <2> QED
    BY <2>1, <2>2, <2>3, <2>4
<1> QED
  BY <1>1, <1>2, FormInductive, PTL DEF Spec

(* A secret is never emptied by a save, in OptionMap or in the table.      *)
LEMMA SecretStep ==
    ASSUME FormInv, Settings!Next, NEW s \in DOMAIN forms, forms[s].secret,
           lost => forms[s].rebases # Field,
           DOMAIN database = DOMAIN forms, \A x \in DOMAIN forms : DOMAIN database[x] = Field
    PROVE  /\ option[s]["b"] # NoWord /\ ~lost' => option'[s]["b"] # NoWord
           /\ database[s]["b"] # NoWord => database'[s]["b"] # NoWord
<1>1. CASE \E p \in puts : Settings!UpdateOption(p)
  <2>1. PICK p \in puts : Settings!UpdateOption(p)
    BY <1>1
  <2>2. /\ option' = option \/ option' = [option EXCEPT ![p.slot][p.field] = p.value]
        /\ database' = database \/ database' = [database EXCEPT ![p.slot][p.field] = p.value]
    BY <2>1 DEF Settings!UpdateOption
  <2>3. p.slot = s /\ p.field = "b" => p.value # NoWord
    BY DEF FormInv, SecretInv, Excused
  <2>4. /\ p.slot \in DOMAIN forms /\ p.field \in Field
        /\ DOMAIN option = DOMAIN forms /\ \A x \in DOMAIN forms : DOMAIN option[x] = Field
    BY DEF FormInv, FormBase
  <2>5. "b" \in Field
    BY DEF Field
  <2>6. option[s]["b"] # NoWord => option'[s]["b"] # NoWord
    BY <2>2, <2>3, <2>4, <2>5
  <2>7. database[s]["b"] # NoWord => database'[s]["b"] # NoWord
    BY <2>2, <2>3, <2>4, <2>5
  <2> QED
    BY <2>6, <2>7
<1>2. CASE ~\E p \in puts : Settings!UpdateOption(p)
  BY <1>2, ServerKept
<1> QED
  BY <1>1, <1>2

(* The table has the rows of the forms.                                    *)
RowsInv ==
    DOMAIN database = DOMAIN forms /\ \A x \in DOMAIN forms : DOMAIN database[x] = Field

LEMMA RowsInductive == Spec => []RowsInv
<1>1. Init => RowsInv
  <2> SUFFICES ASSUME Settings!Init PROVE RowsInv
    BY Zenon DEF Init
  <2>1. database = option
    BY Zenon DEF Settings!Init
  <2>2. FormBase
    BY FormStart DEF FormInv
  <2> QED
    BY <2>1, <2>2 DEF FormBase, RowsInv
<1>2. RowsInv /\ [Next]_vars => RowsInv'
  <2> SUFFICES ASSUME RowsInv, [Next]_vars PROVE RowsInv'
    OBVIOUS
  <2>1. Settings!Next \/ UNCHANGED settings
    BY FormsStep
  <2>2. forms' = forms
    BY <2>1, Zenon DEF settings, Settings!Next, Settings!Edit, Settings!OnSubmit,
       Settings!UpdateOption, Settings!SyncReads, Settings!SyncWrites, Settings!PutAnswered,
       Settings!PutFails, Settings!LateAnswer, Settings!GetOptions, Settings!OptionsArrive,
       Settings!GetFails
  <2>3. CASE UNCHANGED settings
    BY <2>3 DEF settings, RowsInv
  <2>4. CASE \E p \in puts : Settings!UpdateOption(p)
    <3>1. PICK p \in puts : Settings!UpdateOption(p)
      BY <2>4
    <3>2. database' = database \/ database' = [database EXCEPT ![p.slot][p.field] = p.value]
      BY <3>1 DEF Settings!UpdateOption
    <3> QED
      BY <2>2, <3>2 DEF RowsInv
  <2>5. CASE Settings!Next /\ ~\E p \in puts : Settings!UpdateOption(p)
    BY <2>2, <2>5, ServerKept DEF RowsInv
  <2> QED
    BY <2>1, <2>3, <2>4, <2>5
<1> QED
  BY <1>1, <1>2, PTL DEF Spec

LEMMA SettingsFaithful == Spec => Settings!SavedIsStored /\ Settings!SecretKept
<1> DEFINE AsSent ==
      \A s \in Settings!Slot :
         /\ notice[s] # "saved" /\ notice'[s] = "saved"
         /\ ~lost /\ (forms[s].checked \/ ~refused'[s])
         => \A o \in Settings!Stored, k \in updateArray[s] :
                o[s][k] = IF forms[s].normalizes THEN Settings!Normalized(closure[s][k])
                                                 ELSE closure[s][k]
    Kept ==
      \A s \in Settings!Slot :
         /\ forms[s].secret /\ forms[s].keeps
         /\ lost => forms[s].rebases # Settings!Field
         => /\ database[s]["b"] # "" => database'[s]["b"] # ""
            /\ option[s]["b"] # "" /\ ~lost' => option'[s]["b"] # ""
<1>1. FormInv /\ NoticeInv /\ SameTable /\ [Next]_vars => [AsSent]_(Settings!vars)
  <2> SUFFICES ASSUME FormInv, NoticeInv, SameTable, [Next]_vars
               PROVE  AsSent \/ UNCHANGED Settings!vars
    BY Zenon
  <2>1. UNCHANGED settings => UNCHANGED Settings!vars
    BY DEF settings, Settings!vars, Settings!formState, Settings!saveState, Settings!getState,
       Settings!serverState
  <2>2. \A o \in Settings!Stored : lost \/ o = option
    BY Zenon DEF SameTable, Settings!Stored
  <2>3. ASSUME Settings!Next PROVE AsSent
    BY <2>2, <2>3, SavedStep, Zenon DEF Settings!Slot, SentAs
  <2> QED
    BY <2>1, <2>3, FormsStep, Zenon
<1>2. FormInv /\ RowsInv /\ [Next]_vars => [Kept]_(Settings!vars)
  <2> SUFFICES ASSUME FormInv, RowsInv, [Next]_vars
               PROVE  Kept \/ UNCHANGED Settings!vars
    BY Zenon
  <2>1. UNCHANGED settings => UNCHANGED Settings!vars
    BY DEF settings, Settings!vars, Settings!formState, Settings!saveState, Settings!getState,
       Settings!serverState
  <2>2. ASSUME Settings!Next PROVE Kept
    BY <2>2, SecretStep, Zenon DEF Settings!Slot, Settings!Field, Field, NoWord, RowsInv
  <2> QED
    BY <2>1, <2>2, FormsStep, Zenon
<1>3. Spec => [][AsSent]_(Settings!vars)
  BY <1>1, FormInductive, NoticeInductive, SameTableInductive, PTL DEF Spec
<1>4. Spec => [][Kept]_(Settings!vars)
  BY <1>2, FormInductive, RowsInductive, PTL DEF Spec
<1> QED
  BY <1>3, <1>4, Zenon DEF Settings!SavedIsStored, Settings!SecretKept

-----------------------------------------------------------------------------
(* When nothing failed and no GET was joined late, a form counts as loaded *)
(* what the server has, or its PUTs, a refusal or a load that will read    *)
(* them are the reason why not.                                            *)
RestOf(s) ==
    \/ \E p \in puts : p.slot = s
    \/ partial[s]
    \/ IF forms[s].section \in waiting
       THEN get = "asked" \/ (get = "read" /\ snap[s] = option[s])
       ELSE row[s] = Settings!Shown(forms[s], option[s])

(* A form that needs its key only when it is enabled.                      *)
KeyOf(s) ==
    /\ keySaved[s] => option[s]["b"] # NoWord
    /\ snap[s]["b"] # NoWord => option[s]["b"] # NoWord
    /\ saving[s] =>
          /\ "a" \in updateArray[s]
          /\ closure[s]["b"] # NoWord => "b" \in updateArray[s]
          /\ closure[s]["a"] = "v2" => option[s]["b"] # NoWord \/ closure[s]["b"] # NoWord
    /\ ~saving[s] /\ ~partial[s] /\ option[s]["a"] = "v2" => option[s]["b"] # NoWord

RestInv ==
    /\ partial \in [DOMAIN forms -> BOOLEAN] /\ stale \in BOOLEAN
    /\ DOMAIN keySaved = DOMAIN forms /\ get \in {"none", "asked", "read"}
    /\ ~lost /\ ~stale => \A s \in DOMAIN forms : RestOf(s)
    /\ ~lost => \A s \in DOMAIN forms : forms[s].needsKey = "enabled" => KeyOf(s)

(* A step that leaves the options and the answers alone.                   *)
LEMMA RestKept ==
    ASSUME FormInv, RestInv,
           UNCHANGED <<forms, option, puts, partial, stale, saving, closure, updateArray, keySaved,
                       lost, waiting, row>>,
           UNCHANGED <<get, snap>> \/ (get = "asked" /\ get' = "read" /\ snap' = option)
    PROVE  RestInv'
<1>1. get' \in {"none", "asked", "read"}
  BY DEF RestInv
<1>2. ASSUME ~lost, ~stale, NEW s \in DOMAIN forms PROVE RestOf(s)'
  BY <1>2 DEF RestInv, RestOf
<1>3. ASSUME ~lost, NEW s \in DOMAIN forms, forms[s].needsKey = "enabled" PROVE KeyOf(s)'
  BY <1>3 DEF RestInv, KeyOf
<1> QED
  BY <1>1, <1>2, <1>3 DEF RestInv

(* After a request has failed nothing is said.                             *)
LEMMA RestLost ==
    ASSUME RestInv, lost', UNCHANGED <<forms, partial, stale, keySaved>>,
           get' \in {"none", "asked", "read"}
    PROVE  RestInv'
BY DEF RestInv

LEMMA RestSubmit ==
    ASSUME FormInv, RestInv, NEW s \in DOMAIN forms, Settings!OnSubmit(s)
    PROVE  RestInv'
<1> DEFINE New(k) == [slot |-> s, field |-> k, value |-> Settings!Sent(s, k), live |-> TRUE,
                      st |-> "sent"]
<1>1. /\ ~saving[s] /\ Settings!Changed(s) # {} /\ Settings!Valid(s)
      /\ puts' = puts \cup {New(k) : k \in Settings!Changed(s)}
      /\ saving' = [saving EXCEPT ![s] = TRUE]
      /\ closure' = [closure EXCEPT ![s] = inputs[s]]
      /\ updateArray' = [updateArray EXCEPT ![s] = Settings!Changed(s)]
      /\ UNCHANGED <<forms, option, row, keySaved, get, snap, waiting, lost, partial, stale>>
  BY Zenon DEF Settings!OnSubmit, Settings!formState, Settings!getState, Settings!serverState
<1>2. FormBase /\ SecretInv
  BY DEF FormInv
<1>3. \E p \in puts' : p.slot = s
  <2>1. PICK k : k \in Settings!Changed(s)
    BY <1>1
  <2>2. New(k) \in puts' /\ New(k).slot = s
    BY <1>1, <2>1
  <2> QED
    BY <2>2
<1>4. puts \subseteq puts'
  BY <1>1
<1> HIDE DEF New
<1>5. ASSUME ~lost, ~stale, NEW x \in DOMAIN forms PROVE RestOf(x)'
  <2>1. RestOf(x)
    BY <1>5 DEF RestInv
  <2>2. CASE x = s
    BY <1>3, <2>2 DEF RestOf
  <2>3. CASE x # s
    BY <1>1, <1>4, <2>1 DEF RestOf
  <2> QED
    BY <2>2, <2>3
<1>6. /\ \A x \in DOMAIN forms : saving'[x] = IF x = s THEN TRUE ELSE saving[x]
      /\ \A x \in DOMAIN forms : closure'[x] = IF x = s THEN inputs[s] ELSE closure[x]
      /\ \A x \in DOMAIN forms :
            updateArray'[x] = IF x = s THEN Settings!Changed(s) ELSE updateArray[x]
  BY <1>1, <1>2 DEF FormBase
<1>7. ASSUME ~lost, NEW x \in DOMAIN forms, forms[x].needsKey = "enabled" PROVE KeyOf(x)'
  <2>1. KeyOf(x)
    BY <1>7 DEF RestInv
  <2>2. CASE x # s
    BY <1>1, <1>6, <2>1, <2>2 DEF KeyOf
  <2>3. CASE x = s
    <3>1. forms[x].secret /\ forms[x].all /\ forms[x].rebases # Field
      BY <1>2, <1>7, FormsAssumption DEF FormBase
    <3>2. row[x]["b"] = NoWord
      BY <1>2, <1>7, <3>1, Zenon DEF SecretInv, Excused
    <3>3. /\ "a" \in Settings!Changed(s)
          /\ inputs[s]["b"] # NoWord => "b" \in Settings!Changed(s)
      BY <2>3, <3>1, <3>2 DEF Settings!Changed, Settings!Field
    <3>4. inputs[s]["a"] = "v2" => keySaved[s] \/ inputs[s]["b"] # NoWord
      BY <1>1, <1>7, <2>3, Zenon DEF Settings!Valid, NoWord
    <3> QED
      BY <1>1, <1>6, <2>1, <2>3, <3>3, <3>4 DEF KeyOf
  <2> QED
    BY <2>2, <2>3
<1> QED
  BY <1>1, <1>5, <1>7 DEF RestInv

(* The server stores or refuses: only the options of the form that waits   *)
(* for the answer change, and a secret is not emptied.                     *)
LEMMA RestStore ==
    ASSUME FormInv, RestInv, RowsInv, NEW p \in puts, Settings!UpdateOption(p)
    PROVE  RestInv'
<1>1. UNCHANGED <<forms, row, keySaved, saving, closure, updateArray, get, snap, waiting, lost,
                  partial, stale>>
  BY DEF Settings!UpdateOption, Settings!formState, Settings!getState
<1>2. PICK o : /\ puts' = (puts \ {p}) \cup {o}
               /\ \E w : o = [p EXCEPT !.st = w]
  BY DEF Settings!UpdateOption
<1>3. FormBase /\ PutsInv
  BY DEF FormInv
<1>4. o.slot = p.slot /\ p.slot \in DOMAIN forms /\ p.field \in Field
  BY <1>2, <1>3 DEF FormBase
<1>5. option' = option \/ option' = [option EXCEPT ![p.slot][p.field] = p.value]
  BY DEF Settings!UpdateOption
<1>6. \A x \in DOMAIN forms : x # p.slot => option'[x] = option[x]
  BY <1>3, <1>4, <1>5 DEF FormBase
<1>7. ASSUME ~lost, ~stale, NEW x \in DOMAIN forms PROVE RestOf(x)'
  <2>1. RestOf(x)
    BY <1>7 DEF RestInv
  <2>2. CASE x = p.slot
    BY <1>2, <1>4, <2>2 DEF RestOf
  <2>3. CASE x # p.slot
    <3>1. option'[x] = option[x]
      BY <1>6, <2>3
    <3>2. (\E q \in puts : q.slot = x) => \E q \in puts' : q.slot = x
      BY <1>2, <2>3
    <3> QED
      BY <1>1, <2>1, <3>1, <3>2 DEF RestOf
  <2> QED
    BY <2>2, <2>3
<1>8. ASSUME ~lost, NEW x \in DOMAIN forms, forms[x].needsKey = "enabled" PROVE KeyOf(x)'
  <2>1. KeyOf(x)
    BY <1>8 DEF RestInv
  <2>2. CASE x # p.slot
    BY <1>1, <1>6, <2>1, <2>2 DEF KeyOf
  <2>3. CASE x = p.slot
    <3>1. saving[x]
      BY <1>3, <1>8, <2>3 DEF PutsInv
    <3>2. forms[x].secret /\ forms[x].rebases # Field
      BY <1>3, <1>8, FormsAssumption DEF FormBase
    <3>3. Settings!Next
      BY Zenon DEF Settings!Next
    <3>4. option[x]["b"] # NoWord => option'[x]["b"] # NoWord
      BY <1>1, <1>8, <3>2, <3>3, SecretStep DEF RowsInv
    <3> QED
      BY <1>1, <2>1, <3>1, <3>4 DEF KeyOf
  <2> QED
    BY <2>2, <2>3
<1> QED
  BY <1>1, <1>7, <1>8 DEF RestInv

(* The last answer of a submission, with nothing refused: all is stored.   *)
LEMMA LastAnswer ==
    ASSUME FormInv, NEW p \in puts, Settings!PutAnswered(p), ~lost,
           Settings!Others(p) = {}, ~refused[p.slot], p.st # "refused"
    PROVE  \A k \in updateArray[p.slot] : option[p.slot][k] = SentAs(p.slot, k)
<1>1. FormBase /\ PutsInv
  BY DEF FormInv
<1>2. p.st # "sent" /\ p.slot \in DOMAIN forms
  BY <1>1 DEF FormBase, Settings!PutAnswered
<1>3. \A q \in puts : q.slot = p.slot => q = p
  BY <1>1 DEF Settings!Others, PutsInv
<1>4. saving[p.slot]
  BY <1>1 DEF PutsInv
<1> QED
  BY <1>1, <1>2, <1>3, <1>4 DEF PutsInv

LEMMA RestAnswered ==
    ASSUME FormInv, RestInv, NEW p \in puts, Settings!PutAnswered(p)
    PROVE  RestInv'
<1> DEFINE no == refused[p.slot] \/ p.st = "refused"
           done == Settings!Others(p) = {}
           saved == done /\ ~(forms[p.slot].checked /\ no)
<1>1. /\ puts' = puts \ {p}
      /\ UNCHANGED <<forms, option, closure, updateArray, lost>>
  BY Zenon DEF Settings!PutAnswered, Settings!serverState
<1>2. /\ ~done => UNCHANGED <<saving, row, keySaved, get, snap, waiting, partial, stale>>
      /\ done => saving' = [saving EXCEPT ![p.slot] = FALSE]
      /\ done /\ ~saved => /\ UNCHANGED <<row, keySaved, get, snap, waiting, stale>>
                           /\ partial' = [partial EXCEPT ![p.slot] = TRUE]
  BY Zenon DEF Settings!PutAnswered, Settings!NotSaved, Settings!getState
<1>3. saved => /\ partial' = [partial EXCEPT ![p.slot] = FALSE]
               /\ \E f : row' = [row EXCEPT ![p.slot] = f]
               /\ waiting' = waiting \cup {forms[p.slot].section}
               /\ get' = IF get = "none" THEN "asked" ELSE get
               /\ snap' = IF get = "none" THEN option ELSE snap
               /\ stale' = (stale \/ get = "read")
  BY Zenon DEF Settings!PutAnswered, Settings!Saved, Settings!OnRefresh
<1>4. saved => keySaved' = [keySaved EXCEPT ![p.slot] =
                  @ \/ (forms[p.slot].needsKey # "never" /\ closure[p.slot]["b"] # NoWord)]
  BY Zenon DEF Settings!PutAnswered, Settings!Saved, NoWord
<1>5. FormBase /\ PutsInv
  BY DEF FormInv
<1>6. p.slot \in DOMAIN forms /\ saving \in [DOMAIN forms -> BOOLEAN] /\ DOMAIN row = DOMAIN forms
  BY <1>5 DEF FormBase
<1>7. /\ partial \in [DOMAIN forms -> BOOLEAN] /\ stale \in BOOLEAN
      /\ DOMAIN keySaved = DOMAIN forms /\ get \in {"none", "asked", "read"}
  BY DEF RestInv
<1>8. ~done => \E q \in puts' : q.slot = p.slot
  BY <1>1 DEF Settings!Others
<1>9. \A x \in DOMAIN forms : x # p.slot =>
         ((\E q \in puts : q.slot = x) => \E q \in puts' : q.slot = x)
  BY <1>1
<1>10. ~lost /\ saved /\ forms[p.slot].checked =>
          \A k \in updateArray[p.slot] : option[p.slot][k] = SentAs(p.slot, k)
  BY LastAnswer
<1> HIDE DEF no, done, saved
<1>11. saved => done
  BY DEF saved
<1>12. /\ partial' \in [DOMAIN forms -> BOOLEAN] /\ stale' \in BOOLEAN
       /\ DOMAIN keySaved' = DOMAIN forms /\ get' \in {"none", "asked", "read"}
  BY <1>2, <1>3, <1>4, <1>7
<1>13. /\ \A x \in DOMAIN forms : saving'[x] = IF done /\ x = p.slot THEN FALSE ELSE saving[x]
       /\ \A x \in DOMAIN forms : x # p.slot =>
             partial'[x] = partial[x] /\ row'[x] = row[x] /\ keySaved'[x] = keySaved[x]
  BY <1>2, <1>3, <1>4, <1>6, <1>7, <1>11
<1>14. ASSUME ~lost, ~stale', NEW x \in DOMAIN forms PROVE RestOf(x)'
  <2>1. ~stale /\ RestOf(x)
    BY <1>2, <1>3, <1>7, <1>14 DEF RestInv
  <2>2. CASE ~done
    <3>1. (\E q \in puts : q.slot = x) => \E q \in puts' : q.slot = x
      BY <1>8, <1>9, <2>2
    <3> QED
      BY <1>1, <1>2, <2>1, <2>2, <3>1 DEF RestOf
  <2>3. CASE done /\ ~saved
    <3>1. CASE x = p.slot
      BY <1>2, <1>6, <1>7, <2>3, <3>1 DEF RestOf
    <3>2. CASE x # p.slot
      BY <1>1, <1>2, <1>9, <1>13, <2>1, <2>3, <3>2 DEF RestOf
    <3> QED
      BY <3>1, <3>2
  <2>4. CASE saved
    <3>1. get # "read"
      BY <1>3, <1>7, <1>14, <2>4
    <3>2. CASE x = p.slot
      BY <1>1, <1>3, <1>7, <2>4, <3>1, <3>2 DEF RestOf
    <3>3. CASE x # p.slot
      <4>1. /\ get' = "asked" /\ waiting \subseteq waiting'
            /\ forms[x].section \in waiting' \/ (forms[x].section \notin waiting)
        BY <1>3, <1>7, <2>4, <3>1
      <4>2. (\E q \in puts : q.slot = x) => \E q \in puts' : q.slot = x
        BY <1>9, <3>3
      <4>3. partial'[x] = partial[x] /\ row'[x] = row[x]
        BY <1>13, <3>3
      <4> QED
        BY <1>1, <2>1, <3>1, <4>1, <4>2, <4>3 DEF RestOf
    <3> QED
      BY <3>2, <3>3
  <2> QED
    BY <2>2, <2>3, <2>4
<1>15. ASSUME ~lost, NEW x \in DOMAIN forms, forms[x].needsKey = "enabled" PROVE KeyOf(x)'
  <2>1. KeyOf(x)
    BY <1>15 DEF RestInv
  <2>2. snap' = snap \/ snap' = option
    BY <1>2, <1>3
  <2>3. snap'[x]["b"] # NoWord => option[x]["b"] # NoWord
    BY <2>1, <2>2 DEF KeyOf
  <2>4. CASE x # p.slot \/ ~done
    <3>1. saving'[x] = saving[x] /\ partial'[x] = partial[x] /\ keySaved'[x] = keySaved[x]
      BY <1>2, <1>13, <2>4
    <3> QED
      BY <1>1, <2>1, <2>3, <3>1 DEF KeyOf
  <2>5. CASE x = p.slot /\ done /\ ~saved
    <3>1. partial'[x] /\ keySaved'[x] = keySaved[x] /\ ~saving'[x]
      BY <1>2, <1>7, <1>13, <2>5
    <3> QED
      BY <1>1, <2>1, <2>3, <3>1 DEF KeyOf
  <2>6. CASE x = p.slot /\ saved
    <3>1. forms[x].checked /\ ~forms[x].normalizes
      BY <1>5, <1>15, FormsAssumption DEF FormBase
    <3>2. \A k \in updateArray[x] : option[x][k] = closure[x][k]
      BY <1>10, <1>15, <2>6, <3>1 DEF SentAs
    <3>3. saving[x] /\ ~saving'[x]
      BY <1>5, <1>11, <1>13, <1>15, <2>6 DEF PutsInv
    <3>4. /\ closure[x]["b"] # NoWord => option[x]["b"] # NoWord
          /\ option[x]["a"] = "v2" => option[x]["b"] # NoWord
      BY <2>1, <3>2, <3>3 DEF KeyOf
    <3>5. keySaved'[x] => keySaved[x] \/ closure[x]["b"] # NoWord
      BY <1>4, <1>7, <2>6
    <3> QED
      BY <1>1, <2>1, <2>3, <3>3, <3>4, <3>5 DEF KeyOf
  <2> QED
    BY <1>11, <2>4, <2>5, <2>6
<1> QED
  BY <1>1, <1>12, <1>14, <1>15 DEF RestInv

(* The options arrive.                                                     *)
LEMMA RestArrive ==
    ASSUME FormInv, RestInv, Settings!OptionsArrive
    PROVE  RestInv'
<1>1. /\ UNCHANGED <<forms, option, saving, puts, closure, updateArray, snap, lost, partial, stale>>
      /\ get = "read" /\ get' = "none" /\ waiting' = {}
      /\ row' = [s \in DOMAIN forms |-> Settings!Reset(s, row[s])]
      /\ keySaved' = [s \in DOMAIN forms |->
                         IF forms[s].section \in waiting /\ forms[s].needsKey # "never"
                         THEN snap[s]["b"] # NoWord ELSE keySaved[s]]
  BY Zenon DEF Settings!OptionsArrive, Settings!saveState, Settings!Slot, NoWord, Settings!serverState
<1>2. ASSUME ~lost, ~stale, NEW x \in DOMAIN forms PROVE RestOf(x)'
  <2>1. RestOf(x)
    BY <1>2 DEF RestInv
  <2>2. row'[x] = IF forms[x].section \in waiting THEN Settings!Shown(forms[x], snap[x])
                  ELSE row[x]
    BY <1>1 DEF Settings!Reset
  <2> QED
    BY <1>1, <2>1, <2>2 DEF RestOf
<1>3. ASSUME ~lost, NEW x \in DOMAIN forms, forms[x].needsKey = "enabled" PROVE KeyOf(x)'
  <2>1. KeyOf(x)
    BY <1>3 DEF RestInv
  <2>2. keySaved'[x] => option[x]["b"] # NoWord
    BY <1>1, <2>1 DEF KeyOf
  <2> QED
    BY <1>1, <2>1, <2>2 DEF KeyOf
<1> QED
  BY <1>1, <1>2, <1>3 DEF RestInv

LEMMA RestStart ==
    ASSUME Settings!Init
    PROVE  RestInv
<1>1. /\ option \in [DOMAIN forms -> [Field -> {"v1"}] \cup [a : {"v1"}, b : {NoWord}]]
      /\ keySaved = [s \in DOMAIN forms |-> FALSE] /\ saving = [s \in DOMAIN forms |-> FALSE]
      /\ partial = [s \in DOMAIN forms |-> FALSE] /\ stale = FALSE
      /\ get = "asked" /\ snap = option /\ waiting = {forms[s].section : s \in DOMAIN forms}
  BY Zenon DEF Settings!Init, Settings!Slot, Settings!Sections, Settings!Field, Field, NoWord
<1>2. \A s \in DOMAIN forms : option[s]["a"] = "v1"
  <2>1. \A f \in [Field -> {"v1"}] \cup [a : {"v1"}, b : {NoWord}] : f["a"] = "v1"
    BY DEF Field
  <2> QED
    BY <1>1, <2>1
<1>3. \A s \in DOMAIN forms : RestOf(s)
  BY <1>1 DEF RestOf
<1>4. \A s \in DOMAIN forms : KeyOf(s)
  BY <1>1, <1>2 DEF KeyOf
<1> QED
  BY <1>1, <1>3, <1>4 DEF RestInv

LEMMA RestStep == FormInv /\ RowsInv /\ RestInv /\ [Next]_vars => RestInv'
<1> SUFFICES ASSUME FormInv, RowsInv, RestInv, [Next]_vars PROVE RestInv'
  OBVIOUS
<1>1. Settings!Next \/ UNCHANGED settings
  BY FormsStep
<1>2. ASSUME \/ UNCHANGED settings \/ Settings!GetOptions \/ Settings!SyncReads
             \/ \E s, k, v : Settings!Edit(s, k, v)
      PROVE  RestInv'
  <2>1. /\ UNCHANGED <<forms, option, puts, partial, stale, saving, closure, updateArray, keySaved,
                       lost, waiting, row>>
        /\ UNCHANGED <<get, snap>> \/ (get = "asked" /\ get' = "read" /\ snap' = option)
    BY <1>2, Zenon DEF settings, Settings!GetOptions, Settings!SyncReads, Settings!Edit,
       Settings!formState, Settings!saveState, Settings!getState, Settings!serverState
  <2> QED
    BY <2>1, RestKept
<1>3. ASSUME \/ Settings!GetFails
             \/ \E s, k : Settings!SyncWrites(s, k)
             \/ \E p \in puts : Settings!PutFails(p) \/ Settings!LateAnswer(p)
      PROVE  RestInv'
  <2>1. /\ UNCHANGED <<forms, partial, stale, keySaved>> /\ get' \in {get, "none"}
        /\ lost' = TRUE \/ (lost' = lost /\ \E p \in puts : ~p.live)
    BY <1>3, Zenon DEF Settings!GetFails, Settings!SyncWrites, Settings!PutFails,
       Settings!LateAnswer,
       Settings!formState, Settings!getState
  <2>2. (\E p \in puts : ~p.live) => lost
    BY DEF FormInv, PutsInv
  <2>3. lost'
    BY <2>1, <2>2
  <2>4. get' \in {"none", "asked", "read"}
    BY <2>1 DEF RestInv
  <2> QED
    BY <2>1, <2>3, <2>4, RestLost
<1> QED
  BY <1>1, <1>2, <1>3, RestSubmit, RestStore, RestAnswered, RestArrive, Zenon
     DEF Settings!Next, Settings!Slot

LEMMA RestInductive == Spec => []RestInv
<1>1. Init => RestInv
  BY RestStart, Zenon DEF Init
<1> QED
  BY <1>1, RestStep, FormInductive, RowsInductive, PTL DEF Spec

(* With nothing in flight, the next save of a form sends exactly what      *)
(* differs from OptionMap, and Epay is not enabled without its key there,  *)
(* nor in the table when no statement has failed (NextSaveSendsTheRest and *)
(* EnabledHasKey: compareObjects, the refreshes that share one GET, and    *)
(* the checks of submitEpay).  Both leave out what follows a request that  *)
(* failed or was refused and a value put back by the sync loop, the former *)
(* also a refresh that joined a GET read before the save.                  *)
THEOREM FormsSendTheRest ==
    Spec => [](Settings!NextSaveSendsTheRest /\ Settings!EnabledHasKey)
<1>1. FormInv /\ RestInv => Settings!NextSaveSendsTheRest
  <2> SUFFICES ASSUME FormInv, RestInv, puts = {}, get = "none", ~lost, ~stale,
                      NEW s \in DOMAIN forms, ~partial[s], ~forms[s].all
               PROVE  Settings!Changed(s)
                        = {k \in Settings!Field : inputs[s][k]
                                                    # Settings!Shown(forms[s], option[s])[k]}
    BY Zenon DEF Settings!NextSaveSendsTheRest, Settings!Quiet, Settings!Slot
  <2>1. waiting = {}
    BY DEF FormInv, FormTurns
  <2>2. row[s] = Settings!Shown(forms[s], option[s])
    BY <2>1 DEF RestInv, RestOf
  <2> QED
    BY <2>2 DEF Settings!Changed
<1>2. FormInv /\ RestInv /\ SameTable => Settings!EnabledHasKey
  <2> SUFFICES ASSUME FormInv, RestInv, SameTable, puts = {}, get = "none", ~lost,
                      NEW s \in DOMAIN forms, NEW o \in Settings!Stored,
                      forms[s].needsKey = "enabled", o[s]["a"] = "v2", ~partial[s]
               PROVE  o[s]["b"] # NoWord
    BY Zenon DEF Settings!EnabledHasKey, Settings!Quiet, Settings!Slot, NoWord
  <2>1. ~saving[s]
    BY DEF FormInv, FormTurns
  <2>2. o = option
    BY Zenon DEF SameTable, Settings!Stored
  <2> QED
    BY <2>1, <2>2 DEF RestInv, KeyOf
<1> QED
  BY <1>1, <1>2, FormInductive, RestInductive, SameTableInductive, PTL

-----------------------------------------------------------------------------
(* The edit dialogs.  What is on screen and what was sent for a record     *)
(* comes from it, and a spinner that turns has a request that stops it.    *)
OwnOr(x, v) == v \subseteq {x, Editor!Own} \/ x \in mixed

EditBase ==
    /\ {refusals, spinning, visible, blanked} \subseteq BOOLEAN
    /\ DOMAIN stored = Record
    /\ \A s \in submits : DOMAIN s = {"n", "id", "at", "values"}
    /\ fetches # {} => kind = "channel"

EditTurns ==
    spinning /\ ~refusals =>
        \/ loads # {} \/ fetches # {}
        \/ kind # "channel" /\ \E s \in submits : s.at \in {"sent", "stored"}

FormOwn ==
    visible /\ target # Editor!New =>
        /\ OwnOr(target, values)
        /\ kind = "user" /\ ~spinning /\ ~refusals => OwnOr(target, kept)
        /\ target \notin loads => target \in values \/ target \in mixed \/ blanked \/ refusals

SentOwn ==
    ~(kind = "user" /\ refusals) =>
        /\ \A s \in submits : s.id = Editor!New \/ OwnOr(s.id, s.values)
        /\ \A x \in Record : OwnOr(x, stored[x])

EditInv == EditBase /\ EditTurns /\ FormOwn /\ SentOwn

LEMMA DialogStep ==
    ASSUME [Next]_vars
    PROVE  Editor!Next \/ UNCHANGED editor
BY Zenon DEF Next, Of, vars

LEMMA DialogOpenStep ==
    ASSUME EditInv, NEW x \in Editor!Id, Editor!Open(x)
    PROVE  EditInv'
<1>1. EditBase'
  BY DEF EditInv, EditBase, Editor!Open, Editor!Show, Editor!Loaded
<1>2. EditTurns'
  BY DEF EditInv, EditBase, EditTurns, Editor!Open, Editor!Show, Editor!Loaded
<1>3. FormOwn'
  BY RecordAssumption DEF EditInv, EditBase, FormOwn, OwnOr, Editor!Open, Editor!Show,
     Editor!Loaded, Editor!Id, Editor!New, Editor!Own
<1>4. SentOwn'
  BY DEF EditInv, EditBase, FormOwn, SentOwn, OwnOr, Editor!Open, Editor!Show, Editor!Loaded
<1> QED
  BY <1>1, <1>2, <1>3, <1>4 DEF EditInv

LEMMA DialogCloseStep ==
    ASSUME EditInv, Editor!Close
    PROVE  EditInv'
<1>1. EditBase'
  BY DEF EditInv, EditBase, Editor!Close, Editor!HandleClose, Editor!Show, Editor!Loaded
<1>2. EditTurns'
  BY DEF EditInv, EditBase, EditTurns, Editor!Close, Editor!HandleClose, Editor!Show,
     Editor!Loaded
<1>3. FormOwn'
  BY RecordAssumption DEF EditInv, EditBase, FormOwn, OwnOr, Editor!Close, Editor!HandleClose,
     Editor!Show, Editor!Loaded, Editor!Id, Editor!New, Editor!Own
<1>4. SentOwn'
  BY DEF EditInv, EditBase, FormOwn, SentOwn, OwnOr, Editor!Close, Editor!HandleClose,
     Editor!Show, Editor!Loaded
<1> QED
  BY <1>1, <1>2, <1>3, <1>4 DEF EditInv

LEMMA DialogTimerStep ==
    ASSUME EditInv, Editor!TimerFires
    PROVE  EditInv'
<1>1. EditBase'
  BY DEF EditInv, EditBase, Editor!TimerFires
<1>2. EditTurns'
  BY DEF EditInv, EditBase, EditTurns, Editor!TimerFires
<1>3. FormOwn'
  BY RecordAssumption DEF EditInv, EditBase, FormOwn, OwnOr, Editor!TimerFires, Editor!Id,
     Editor!New, Editor!Own
<1>4. SentOwn'
  BY DEF EditInv, EditBase, FormOwn, SentOwn, OwnOr, Editor!TimerFires
<1> QED
  BY <1>1, <1>2, <1>3, <1>4 DEF EditInv

LEMMA DialogLoadStep ==
    ASSUME EditInv, NEW x \in Editor!Id, Editor!LoadArrives(x)
    PROVE  EditInv'
<1>1. EditBase'
  BY DEF EditInv, EditBase, Editor!LoadArrives, Editor!Fill
<1>2. EditTurns'
  BY DEF EditInv, EditBase, EditTurns, Editor!LoadArrives, Editor!Fill
<1>3. FormOwn'
  BY RecordAssumption DEF EditInv, EditBase, FormOwn, OwnOr, Editor!LoadArrives, Editor!Fill,
     Editor!Id, Editor!New, Editor!Own
<1>4. SentOwn'
  BY DEF EditInv, EditBase, FormOwn, SentOwn, OwnOr, Editor!LoadArrives, Editor!Fill
<1> QED
  BY <1>1, <1>2, <1>3, <1>4 DEF EditInv

LEMMA DialogLoadFailsStep ==
    ASSUME EditInv, NEW x \in Editor!Id, Editor!LoadFails(x)
    PROVE  EditInv'
<1>1. EditBase'
  BY DEF EditInv, EditBase, Editor!LoadFails, Editor!screen
<1>2. EditTurns'
  BY DEF EditInv, EditBase, EditTurns, Editor!LoadFails, Editor!screen
<1>3. FormOwn'
  BY RecordAssumption DEF EditInv, EditBase, FormOwn, OwnOr, Editor!LoadFails, Editor!screen,
     Editor!Id, Editor!New, Editor!Own
<1>4. SentOwn'
  BY DEF EditInv, EditBase, FormOwn, SentOwn, OwnOr, Editor!LoadFails, Editor!screen
<1> QED
  BY <1>1, <1>2, <1>3, <1>4 DEF EditInv

LEMMA DialogTypeStep ==
    ASSUME EditInv, Editor!Edit
    PROVE  EditInv'
<1>1. EditBase'
  BY DEF EditInv, EditBase, Editor!Edit, Editor!HandleInputChange, Editor!Fill, Editor!requests
<1>2. EditTurns'
  BY DEF EditInv, EditBase, EditTurns, Editor!Edit, Editor!HandleInputChange, Editor!Fill,
     Editor!requests
<1>3. FormOwn'
  BY RecordAssumption DEF EditInv, EditBase, FormOwn, OwnOr, Editor!Edit,
     Editor!HandleInputChange, Editor!Fill, Editor!requests, Editor!Id, Editor!New, Editor!Own
<1>4. SentOwn'
  BY DEF EditInv, EditBase, FormOwn, SentOwn, OwnOr, Editor!Edit, Editor!HandleInputChange,
     Editor!Fill, Editor!requests
<1> QED
  BY <1>1, <1>2, <1>3, <1>4 DEF EditInv

LEMMA DialogFetchStep ==
    ASSUME EditInv, Editor!FetchModels
    PROVE  EditInv'
<1>1. EditBase'
  BY DEF EditInv, EditBase, Editor!FetchModels, Editor!screen
<1>2. EditTurns'
  BY DEF EditInv, EditBase, EditTurns, Editor!FetchModels, Editor!screen
<1>3. FormOwn'
  BY RecordAssumption DEF EditInv, EditBase, FormOwn, OwnOr, Editor!FetchModels,
     Editor!screen, Editor!Id, Editor!New, Editor!Own
<1>4. SentOwn'
  BY DEF EditInv, EditBase, FormOwn, SentOwn, OwnOr, Editor!FetchModels, Editor!screen
<1> QED
  BY <1>1, <1>2, <1>3, <1>4 DEF EditInv

LEMMA DialogModelsStep ==
    ASSUME EditInv, NEW x \in Editor!Id, Editor!ModelsArrive(x)
    PROVE  EditInv'
<1>1. EditBase'
  BY DEF EditInv, EditBase, Editor!ModelsArrive, Editor!screen
<1>2. EditTurns'
  BY DEF EditInv, EditBase, EditTurns, Editor!ModelsArrive, Editor!screen
<1>3. FormOwn'
  BY RecordAssumption DEF EditInv, EditBase, FormOwn, OwnOr, Editor!ModelsArrive,
     Editor!screen, Editor!Id, Editor!New, Editor!Own
<1>4. SentOwn'
  BY DEF EditInv, EditBase, FormOwn, SentOwn, OwnOr, Editor!ModelsArrive, Editor!screen
<1> QED
  BY <1>1, <1>2, <1>3, <1>4 DEF EditInv

LEMMA DialogModelsFailStep ==
    ASSUME EditInv, NEW x \in Editor!Id, Editor!ModelsFail(x)
    PROVE  EditInv'
<1>1. EditBase'
  BY DEF EditInv, EditBase, Editor!ModelsFail, Editor!screen
<1>2. EditTurns'
  BY DEF EditInv, EditBase, EditTurns, Editor!ModelsFail, Editor!screen
<1>3. FormOwn'
  BY RecordAssumption DEF EditInv, EditBase, FormOwn, OwnOr, Editor!ModelsFail, Editor!screen,
     Editor!Id, Editor!New, Editor!Own
<1>4. SentOwn'
  BY DEF EditInv, EditBase, FormOwn, SentOwn, OwnOr, Editor!ModelsFail, Editor!screen
<1> QED
  BY <1>1, <1>2, <1>3, <1>4 DEF EditInv

LEMMA DialogSelectStep ==
    ASSUME EditInv, Editor!SelectModels
    PROVE  EditInv'
<1>1. EditBase'
  BY DEF EditInv, EditBase, Editor!SelectModels, Editor!HandleInputChange, Editor!Fill
<1>2. EditTurns'
  BY DEF EditInv, EditBase, EditTurns, Editor!SelectModels, Editor!HandleInputChange,
     Editor!Fill
<1>3. FormOwn'
  BY RecordAssumption DEF EditInv, EditBase, FormOwn, OwnOr, Editor!SelectModels,
     Editor!HandleInputChange, Editor!Fill, Editor!Id, Editor!New, Editor!Own
<1>4. SentOwn'
  BY DEF EditInv, EditBase, FormOwn, SentOwn, OwnOr, Editor!SelectModels,
     Editor!HandleInputChange, Editor!Fill
<1> QED
  BY <1>1, <1>2, <1>3, <1>4 DEF EditInv

LEMMA DialogSubmitStep ==
    ASSUME EditInv, NEW a \in {"missing", "risk", "sent"}, Editor!Submit(a)
    PROVE  EditInv'
<1>1. EditBase'
  BY DEF EditInv, EditBase, Editor!Submit, Editor!screen
<1>2. EditTurns'
  <2>1. PICK t \in submits' : t.at = a
    <3>1. PICK t : t = [n |-> count + 1, id |-> target, at |-> a,
                        values |-> IF kind = "user" THEN values \cup kept ELSE values]
      OBVIOUS
    <3>2. t \in submits'
      BY <3>1, Zenon DEF Editor!Submit
    <3>3. t.at = a
      BY <3>1
    <3> QED
      BY <3>2, <3>3
  <2>2. kind = "channel" => (spinning' = spinning)
    BY DEF EditInv, EditBase, Editor!Submit
  <2>3. kind # "channel" => t.at \in {"sent", "stored"}
    BY <2>1 DEF Editor!Submit
  <2>4. UNCHANGED <<kind, loads, fetches, refusals>>
    BY DEF Editor!Submit
  <2> QED
    BY <2>1, <2>2, <2>3, <2>4 DEF EditInv, EditTurns
<1>3. FormOwn'
  BY RecordAssumption DEF EditInv, EditBase, FormOwn, OwnOr, Editor!Submit, Editor!screen,
     Editor!Id, Editor!New, Editor!Own
<1>4. SentOwn'
  BY DEF EditInv, EditBase, FormOwn, SentOwn, OwnOr, Editor!Submit, Editor!screen
<1> QED
  BY <1>1, <1>2, <1>3, <1>4 DEF EditInv

LEMMA DialogConfirmStep ==
    ASSUME EditInv, NEW s \in submits, NEW a \in BOOLEAN, Editor!Confirm(s, a)
    PROVE  EditInv'
<1>1. EditBase'
  BY DEF EditInv, EditBase, Editor!Confirm, Editor!Moved, Editor!HandleInputChange, Editor!Fill
<1>2. EditTurns'
  BY DEF EditInv, EditBase, EditTurns, Editor!Confirm, Editor!Moved, Editor!HandleInputChange,
     Editor!Fill
<1>3. FormOwn'
  BY RecordAssumption DEF EditInv, EditBase, FormOwn, OwnOr, Editor!Confirm, Editor!Moved,
     Editor!HandleInputChange, Editor!Fill, Editor!Id, Editor!New, Editor!Own
<1>4. SentOwn'
  BY DEF EditInv, EditBase, FormOwn, SentOwn, OwnOr, Editor!Confirm, Editor!Moved,
     Editor!HandleInputChange, Editor!Fill
<1> QED
  BY <1>1, <1>2, <1>3, <1>4 DEF EditInv

LEMMA DialogStoresStep ==
    ASSUME EditInv, NEW s \in submits, Editor!ServerStores(s)
    PROVE  EditInv'
<1>1. EditBase'
  BY DEF EditInv, EditBase, Editor!ServerStores, Editor!Moved, Editor!screen
<1>2. EditTurns'
  <2>1. PICK t \in submits' : t.at = "stored"
    <3>1. PICK t : t = [s EXCEPT !.at = "stored"]
      OBVIOUS
    <3>2. t \in submits'
      BY <3>1, Zenon DEF Editor!ServerStores, Editor!Moved
    <3>3. t.at = "stored"
      BY <3>1 DEF EditInv, EditBase
    <3> QED
      BY <3>2, <3>3
  <2>2. UNCHANGED <<kind, loads, fetches, refusals, spinning>>
    BY DEF Editor!ServerStores
  <2> QED
    BY <2>1, <2>2 DEF EditInv, EditTurns
<1>3. FormOwn'
  BY RecordAssumption DEF EditInv, EditBase, FormOwn, OwnOr, Editor!ServerStores,
     Editor!Moved, Editor!screen, Editor!Id, Editor!New, Editor!Own
<1>4. SentOwn'
  BY DEF EditInv, EditBase, FormOwn, SentOwn, OwnOr, Editor!ServerStores, Editor!Moved,
     Editor!screen
<1> QED
  BY <1>1, <1>2, <1>3, <1>4 DEF EditInv

LEMMA DialogSavedStep ==
    ASSUME EditInv, NEW s \in submits, Editor!Saved(s)
    PROVE  EditInv'
<1>1. EditBase'
  BY DEF EditInv, EditBase, Editor!Saved, Editor!HandleClose, Editor!Show, Editor!Loaded
<1>2. EditTurns'
  BY DEF EditInv, EditBase, EditTurns, Editor!Saved, Editor!HandleClose, Editor!Show,
     Editor!Loaded
<1>3. FormOwn'
  BY RecordAssumption DEF EditInv, EditBase, FormOwn, OwnOr, Editor!Saved, Editor!HandleClose,
     Editor!Show, Editor!Loaded, Editor!Id, Editor!New, Editor!Own
<1>4. SentOwn'
  BY DEF EditInv, EditBase, FormOwn, SentOwn, OwnOr, Editor!Saved, Editor!HandleClose,
     Editor!Show, Editor!Loaded
<1> QED
  BY <1>1, <1>2, <1>3, <1>4 DEF EditInv

LEMMA DialogNotSavedStep ==
    ASSUME EditInv, NEW s \in submits, Editor!NotSaved(s)
    PROVE  EditInv'
<1>1. EditBase'
  BY DEF EditInv, EditBase, Editor!NotSaved
<1>2. EditTurns'
  BY DEF EditInv, EditBase, EditTurns, Editor!NotSaved
<1>3. FormOwn'
  BY RecordAssumption DEF EditInv, EditBase, FormOwn, OwnOr, Editor!NotSaved, Editor!Id,
     Editor!New, Editor!Own
<1>4. SentOwn'
  BY DEF EditInv, EditBase, FormOwn, SentOwn, OwnOr, Editor!NotSaved
<1> QED
  BY <1>1, <1>2, <1>3, <1>4 DEF EditInv

(* Every step of the dialogs keeps the invariant.                          *)
LEMMA DialogInductive == Spec => []EditInv
<1>1. Init => EditInv
  <2>1. Editor!Init => EditBase /\ EditTurns
    BY DEF Editor!Init, EditBase, EditTurns
  <2>2. Editor!Init => FormOwn /\ SentOwn
    BY DEF Editor!Init, FormOwn, SentOwn, OwnOr
  <2> QED
    BY <2>1, <2>2, Zenon DEF Init, EditInv
<1>2. EditInv /\ [Next]_vars => EditInv'
  <2> SUFFICES ASSUME EditInv, [Next]_vars PROVE EditInv'
    OBVIOUS
  <2>1. CASE UNCHANGED editor
    <3>1. EditBase' /\ EditTurns'
      BY <2>1 DEF editor, EditInv, EditBase, EditTurns
    <3>2. FormOwn' /\ SentOwn'
      BY <2>1 DEF editor, EditInv, FormOwn, SentOwn, OwnOr
    <3> QED
      BY <3>1, <3>2 DEF EditInv
  <2>2. CASE Editor!Next
    BY <2>2, DialogOpenStep, DialogCloseStep, DialogTimerStep, DialogLoadStep,
       DialogLoadFailsStep, DialogTypeStep, DialogFetchStep, DialogModelsStep,
       DialogModelsFailStep, DialogSelectStep, DialogSubmitStep, DialogConfirmStep,
       DialogStoresStep, DialogSavedStep, DialogNotSavedStep, Zenon DEF Editor!Next
  <2> QED
    BY <2>1, <2>2, DialogStep
<1> QED
  BY <1>1, <1>2, PTL DEF Spec

LEMMA DialogSpinners == EditInv => Editor!SpinnerStops
BY DEF EditInv, EditBase, EditTurns, Editor!SpinnerStops

(* Of a record whose form was never filled by the late answer of another   *)
(* record: the dialog shows it once its load is answered, unless a request *)
(* failed or the form was emptied behind the user's back, and what PUT     *)
(* stores under its id comes from it or was typed (in the user dialog as   *)
(* long as no load failed).  So the late answer is the only way in which   *)
(* openings, answers, confirmations and saves that overlap can mix two     *)
(* records, for every set of records and any number of openings and        *)
(* submissions.                                                            *)
THEOREM DialogsOwn == Spec => [](Editor!ShowsTarget /\ Editor!OwnValues)
<1>1. EditInv => Editor!ShowsTarget
  BY RecordAssumption DEF EditInv, EditBase, FormOwn, Editor!ShowsTarget, Editor!New
<1>2. EditInv => Editor!OwnValues
  BY DEF EditInv, EditBase, SentOwn, OwnOr, Editor!OwnValues
<1> QED
  BY <1>1, <1>2, DialogInductive, PTL

-----------------------------------------------------------------------------
(* The updates from a provider's model list.  An operation works on the    *)
(* first channel of its list; what it found differs from the row it read,  *)
(* and a channel whose routes do not follow yet has an operation that will *)
(* try to change them, or the last one to try has failed.                  *)
Channel == Updates!Channel

RowWhole(r) == DOMAIN r = {"models", "detected", "removed", "ignored", "check", "auto"}

GoodTask(o) ==
    /\ DOMAIN o = {"st", "todo", "base", "found", "add", "rem", "ign"}
    /\ DOMAIN o.base = Channel /\ \A c \in Channel : RowWhole(o.base[c])
    /\ o.todo \in Seq(Channel)
    /\ o.st \in {"write", "reread", "abilities"} => o.todo # <<>>

TaskBase ==
    /\ DOMAIN tasks = Updates!Kind /\ \A k \in Updates!Kind : GoodTask(tasks[k])
    /\ DOMAIN rows = Channel /\ \A c \in Channel : RowWhole(rows[c])
    /\ DOMAIN abilities = Channel /\ DOMAIN ignoredByUser = Channel /\ DOMAIN wanted = Channel

FlagsInv == \A k \in Updates!Asked : k \in flight => tasks[k].st # "none"

FoundInv ==
    \A k \in Updates!Kind : tasks[k].st = "write" =>
        /\ tasks[k].found.add \cap (Updates!Row(k).models \cup Updates!Row(k).ignored) = {}
        /\ Updates!SeesMapping(k) =>
              /\ tasks[k].found.rem \cap Aliases[Head(tasks[k].todo)] = {}
              /\ tasks[k].found.add \cap Targets[Head(tasks[k].todo)] = {}

DecidedInv ==
    \A c \in Channel \ overwritten :
        /\ ignoredByUser[c] \subseteq rows[c].ignored
        /\ ignoredByUser[c] \cap (rows[c].detected \cup rows[c].models) = {}
        /\ wanted[c] \subseteq rows[c].models

RoutesInv ==
    \A c \in Channel \ (overwritten \cup behind) :
        \/ abilities[c] = rows[c].models
        \/ \E k \in Updates!Kind :
              tasks[k].st \in {"reread", "abilities"} /\ Head(tasks[k].todo) = c

ChoiceInv ==
    /\ DOMAIN choice = {"open", "ch", "add", "rem", "selAdd", "selRem", "sure"}
    /\ choice.ch \in Channel

UpdateInv ==
    TaskBase /\ FlagsInv /\ FoundInv /\ DecidedInv /\ Updates!RedirectsLeft /\ RoutesInv

LEMMA UpdateStep ==
    ASSUME [Next]_vars
    PROVE  Updates!Next \/ UNCHANGED updates
BY Zenon DEF Next, Of, vars

(* The records of the operations.                                          *)
LEMMA IdleTask ==
    /\ GoodTask(Updates!Idle)
    /\ Updates!Idle.st = "none"
    /\ \A q \in Seq(Channel) : /\ GoodTask([Updates!Idle EXCEPT !.todo = q])
                               /\ GoodTask([[Updates!Idle EXCEPT !.todo = q] EXCEPT !.st = "sent"])
                               /\ [[Updates!Idle EXCEPT !.todo = q] EXCEPT !.st = "sent"].st = "sent"
BY ChannelsAssumption DEF GoodTask, RowWhole, Channel, Updates!Idle, Updates!Channel

LEMMA NextTask ==
    ASSUME NEW o, GoodTask(o), o.todo # <<>>
    PROVE  GoodTask(Updates!After(o)) /\ Updates!After(o).st = "run"
<1>1. Head(o.todo) \in Channel /\ Tail(o.todo) \in Seq(Channel)
  BY DEF GoodTask
<1>2. RowWhole(FirstRows[Head(o.todo)])
  BY <1>1, ChannelsAssumption DEF Channel, RowWhole
<1> QED
  BY <1>1, <1>2 DEF GoodTask, Updates!After

LEMMA TaskMoved ==
    ASSUME TaskBase, NEW k \in Updates!Kind, NEW o, GoodTask(o),
           tasks' = [tasks EXCEPT ![k] = o],
           DOMAIN rows' = Channel, \A c \in Channel : RowWhole(rows'[c]),
           DOMAIN abilities' = Channel, DOMAIN ignoredByUser' = Channel, DOMAIN wanted' = Channel
    PROVE  TaskBase'
<1>1. DOMAIN tasks' = Updates!Kind /\ \A j \in Updates!Kind : GoodTask(tasks'[j])
  BY DEF TaskBase
<1>2. Updates!Kind' = Updates!Kind /\ Channel' = Channel
  BY DEF Updates!Kind, Channel, Updates!Channel
<1>3. \A x : RowWhole(x)' <=> RowWhole(x)
  BY DEF RowWhole
<1> QED
  BY <1>1, <1>2, <1>3 DEF TaskBase, GoodTask, RowWhole

(* An operation goes on and the rows stay as they are.                     *)
LEMMA TaskOnly ==
    ASSUME UpdateInv, NEW k \in Updates!Kind, NEW o, GoodTask(o),
           tasks' = [tasks EXCEPT ![k] = o],
           UNCHANGED <<rows, abilities, ignoredByUser, wanted, blind, overwritten>>,
           behind \subseteq behind',
           k \in flight' => o.st # "none",
           \A j \in Updates!Asked \ {k} : j \in flight' => j \in flight,
           o.st = "write" =>
              /\ o.found.add \cap (o.base[Head(o.todo)].models \cup o.base[Head(o.todo)].ignored) = {}
              /\ Updates!SeesMapping(k) => /\ o.found.rem \cap Aliases[Head(o.todo)] = {}
                                           /\ o.found.add \cap Targets[Head(o.todo)] = {},
           tasks[k].st \in {"reread", "abilities"} =>
              \/ Head(tasks[k].todo) \in behind'
              \/ o.st \in {"reread", "abilities"} /\ Head(o.todo) = Head(tasks[k].todo)
    PROVE  UpdateInv'
<1> USE DEF UpdateInv
<1>0. tasks'[k] = o /\ \A j \in Updates!Kind \ {k} : tasks'[j] = tasks[j]
  BY DEF TaskBase
<1>1. TaskBase'
  BY TaskMoved DEF TaskBase
<1>2. FlagsInv'
  BY <1>0 DEF FlagsInv, Updates!Asked, Updates!Kind
<1>3. FoundInv'
  BY <1>0 DEF FoundInv, Updates!Row, Updates!SeesMapping
<1>4. DecidedInv' /\ Updates!RedirectsLeft'
  BY DEF DecidedInv, Updates!RedirectsLeft, Channel
<1>5. RoutesInv'
  <2> SUFFICES ASSUME NEW c \in Channel \ (overwritten \cup behind')
               PROVE  \/ abilities[c] = rows[c].models
                      \/ \E j \in Updates!Kind :
                            tasks'[j].st \in {"reread", "abilities"} /\ Head(tasks'[j].todo) = c
    BY DEF RoutesInv, Channel, Updates!Channel, Updates!Kind
  <2>1. \/ abilities[c] = rows[c].models
        \/ \E j \in Updates!Kind :
              tasks[j].st \in {"reread", "abilities"} /\ Head(tasks[j].todo) = c
    BY DEF RoutesInv
  <2> QED
    BY <1>0, <2>1
<1> QED
  BY <1>1, <1>2, <1>3, <1>4, <1>5

(* An operation writes the row of its channel.                             *)
LEMMA TaskWrites ==
    ASSUME UpdateInv, NEW k \in Updates!Kind, NEW o, GoodTask(o),
           tasks' = [tasks EXCEPT ![k] = o],
           NEW c \in Channel, DOMAIN rows' = Channel, RowWhole(rows'[c]),
           overwritten' = IF rows[c] = Updates!Row(k) THEN overwritten ELSE overwritten \cup {c},
           UNCHANGED <<flight, abilities, behind>>,
           o.st \notin {"none", "write"}, tasks[k].st \notin {"none", "reread", "abilities"},
           DOMAIN ignoredByUser' = Channel, DOMAIN wanted' = Channel,
           \A d \in Channel \ {c} :
              /\ rows'[d] = rows[d] /\ ignoredByUser'[d] = ignoredByUser[d]
              /\ wanted'[d] = wanted[d] /\ (d \in blind' <=> d \in blind),
           c \notin overwritten /\ rows[c] = Updates!Row(k) =>
              /\ ignoredByUser'[c] \subseteq rows'[c].ignored
              /\ ignoredByUser'[c] \cap (rows'[c].detected \cup rows'[c].models) = {}
              /\ wanted'[c] \subseteq rows'[c].models
              /\ c \notin blind' => /\ rows'[c].removed \cap Aliases[c] = {}
                                   /\ rows'[c].detected \cap Targets[c] = {}
              /\ \/ rows'[c].models = rows[c].models
                 \/ o.st \in {"reread", "abilities"} /\ Head(o.todo) = c
    PROVE  UpdateInv'
<1> USE DEF UpdateInv
<1>0. tasks'[k] = o /\ \A j \in Updates!Kind \ {k} : tasks'[j] = tasks[j]
  BY DEF TaskBase
<1>1. TaskBase'
  <2>1. DOMAIN rows' = Channel /\ \A d \in Channel : RowWhole(rows'[d])
    BY DEF TaskBase
  <2> QED
    BY <2>1, TaskMoved DEF TaskBase
<1>2. FlagsInv'
  BY <1>0 DEF FlagsInv, Updates!Asked, Updates!Kind
<1>3. FoundInv'
  BY <1>0 DEF FoundInv, Updates!Row, Updates!SeesMapping
<1>4. overwritten \subseteq overwritten'
      /\ (c \notin overwritten' => c \notin overwritten /\ rows[c] = Updates!Row(k))
  OBVIOUS
<1>5. DecidedInv'
  BY <1>0, <1>4 DEF DecidedInv, Channel, Updates!Channel
<1>6. Updates!RedirectsLeft'
  BY <1>0, <1>4 DEF Updates!RedirectsLeft, Channel
<1>7. RoutesInv'
  <2> SUFFICES ASSUME NEW d \in Channel \ (overwritten' \cup behind)
               PROVE  \/ abilities[d] = rows'[d].models
                      \/ \E j \in Updates!Kind :
                            tasks'[j].st \in {"reread", "abilities"} /\ Head(tasks'[j].todo) = d
    BY DEF RoutesInv, Channel, Updates!Channel, Updates!Kind
  <2>1. \/ abilities[d] = rows[d].models
        \/ \E j \in Updates!Kind :
              tasks[j].st \in {"reread", "abilities"} /\ Head(tasks[j].todo) = d
    BY <1>4 DEF RoutesInv
  <2>2. \/ abilities[d] = rows[d].models
        \/ \E j \in Updates!Kind :
              tasks'[j].st \in {"reread", "abilities"} /\ Head(tasks'[j].todo) = d
    BY <1>0, <2>1
  <2>3. CASE d # c
    BY <1>0, <2>2, <2>3
  <2>4. CASE d = c
    BY <1>0, <1>4, <2>2, <2>4
  <2> QED
    BY <2>3, <2>4
<1> QED
  BY <1>1, <1>2, <1>3, <1>5, <1>6, <1>7

(* The hook asks, and an answer ends what it asked.                        *)
LEMMA AskStep ==
    ASSUME UpdateInv, NEW k \in Updates!Kind, NEW o, GoodTask(o),
           Updates!Send(k, o), flight' \subseteq flight \cup {k},
           UNCHANGED <<rows, abilities, ignoredByUser, wanted, blind, overwritten, behind>>
    PROVE  UpdateInv'
<1>1. PICK p : p = [o EXCEPT !.st = "sent"]
  OBVIOUS
<1>2. GoodTask(p) /\ p.st = "sent"
  BY <1>1 DEF GoodTask
<1>3. tasks' = [tasks EXCEPT ![k] = p]
  BY <1>1 DEF Updates!Send
<1>4. tasks[k].st = "none"
  BY DEF Updates!Send
<1>5. \A j \in Updates!Asked \ {k} : j \in flight' => j \in flight
  OBVIOUS
<1> QED
  BY <1>2, <1>3, <1>4, <1>5, TaskOnly

LEMMA SubmitsStep ==
    ASSUME UpdateInv, choice.ch \in Channel, Updates!HandleSubmit
    PROVE  UpdateInv'
<1>1. PICK o : o = [Updates!Idle EXCEPT !.todo = <<choice.ch>>, !.add = choice.selAdd,
                                        !.rem = choice.selRem,
                                        !.ign = choice.add \ choice.selAdd]
  OBVIOUS
<1>2. GoodTask(o)
  BY <1>1, IdleTask DEF GoodTask
<1>3. /\ Updates!Send("apply", o) /\ flight' = flight \cup {"apply"}
      /\ UNCHANGED <<rows, abilities, ignoredByUser, wanted, blind, overwritten, behind>>
  BY <1>1 DEF Updates!HandleSubmit, Updates!server
<1>4. "apply" \in Updates!Kind
  BY DEF Updates!Kind
<1> QED
  BY <1>2, <1>3, <1>4, AskStep

LEMMA AsksStep ==
    ASSUME UpdateInv, NEW k \in Updates!Asked, NEW q \in Seq(Channel), Updates!Ask(k, q)
    PROVE  UpdateInv'
<1>1. PICK o : o = [Updates!Idle EXCEPT !.todo = q]
  OBVIOUS
<1>2. GoodTask(o)
  BY <1>1, IdleTask
<1>3. /\ Updates!Send(k, o) /\ flight' = flight \cup {k}
      /\ UNCHANGED <<rows, abilities, ignoredByUser, wanted, blind, overwritten, behind>>
  BY <1>1 DEF Updates!Ask, Updates!server
<1>4. k \in Updates!Kind
  BY DEF Updates!Kind, Updates!Asked
<1> QED
  BY <1>2, <1>3, <1>4, AskStep

LEMMA ServerStartsStep ==
    ASSUME UpdateInv, NEW k \in {"task", "edit"},
           NEW q \in Seq(Channel), Updates!Send(k, [Updates!Idle EXCEPT !.todo = q]),
           UNCHANGED <<Updates!server, Updates!client>>
    PROVE  UpdateInv'
<1>1. PICK o : o = [Updates!Idle EXCEPT !.todo = q]
  OBVIOUS
<1>2. GoodTask(o)
  BY <1>1, IdleTask
<1>3. /\ Updates!Send(k, o) /\ flight' = flight
      /\ UNCHANGED <<rows, abilities, ignoredByUser, wanted, blind, overwritten, behind>>
  BY <1>1 DEF Updates!server, Updates!client
<1>4. k \in Updates!Kind
  BY DEF Updates!Kind
<1> QED
  BY <1>2, <1>3, <1>4, AskStep

(* Nothing changes but flags that are taken back.                          *)
LEMMA FlagsTaken ==
    ASSUME UpdateInv, flight' \subseteq flight,
           UNCHANGED <<rows, abilities, ignoredByUser, wanted, blind, overwritten, behind, tasks>>
    PROVE  UpdateInv'
<1> USE DEF UpdateInv
<1>1. TaskBase' /\ FlagsInv'
  BY DEF TaskBase, FlagsInv, GoodTask, RowWhole
<1>2. FoundInv'
  BY DEF FoundInv, Updates!Row, Updates!SeesMapping
<1>3. DecidedInv' /\ Updates!RedirectsLeft' /\ RoutesInv'
  BY DEF DecidedInv, Updates!RedirectsLeft, RoutesInv
<1> QED
  BY <1>1, <1>2, <1>3

LEMMA EndsStep ==
    ASSUME UpdateInv, NEW k \in Updates!Kind,
           Updates!Answered(k) \/ Updates!RequestFails(k) \/ Updates!Refreshed(k)
    PROVE  UpdateInv'
<1>1. UNCHANGED <<rows, abilities, ignoredByUser, wanted, blind, overwritten, behind>>
  BY DEF Updates!Answered, Updates!RequestFails, Updates!Refreshed, Updates!server
<1>2. GoodTask(tasks[k]) /\ DOMAIN tasks = Updates!Kind
  BY DEF UpdateInv, TaskBase
<1>3. CASE /\ k \in Updates!Asked /\ tasks[k].st = "answer" /\ flight' = flight
           /\ tasks' = [tasks EXCEPT ![k].st = "refresh"]
  <2>1. PICK o : o = [tasks[k] EXCEPT !.st = "refresh"]
    OBVIOUS
  <2>2. GoodTask(o) /\ o.st = "refresh" /\ tasks' = [tasks EXCEPT ![k] = o]
    BY <1>2, <1>3, <2>1 DEF GoodTask
  <2> QED
    BY <1>1, <1>3, <2>2, TaskOnly
<1>4. CASE /\ tasks[k].st \in {"sent", "answer", "refused", "refresh"} /\ flight' = flight \ {k}
           /\ tasks' = [tasks EXCEPT ![k] = Updates!Idle]
  BY <1>1, <1>4, IdleTask, TaskOnly
<1>5. CASE flight' = flight \ {k} /\ tasks' = tasks
  BY <1>1, <1>5, FlagsTaken
<1> QED
  BY <1>3, <1>4, <1>5 DEF Updates!Answered, Updates!RequestFails, Updates!Refreshed

(* The server reads, passes over a channel, asks the provider, ends.       *)
LEMMA UpdateReadsStep ==
    ASSUME UpdateInv, NEW k \in Updates!Kind, Updates!ReadRows(k)
    PROVE  UpdateInv'
<1>1. /\ GoodTask(tasks[k]) /\ DOMAIN tasks = Updates!Kind /\ \A c \in Channel : RowWhole(rows[c])
      /\ UNCHANGED <<rows, abilities, ignoredByUser, wanted, blind, overwritten, behind, flight>>
      /\ tasks[k].st = "sent"
  BY DEF UpdateInv, TaskBase, Updates!ReadRows, Updates!server, Updates!client
<1>2. PICK b : b = [c \in Channel |-> IF \E i \in DOMAIN tasks[k].todo : tasks[k].todo[i] = c
                                      THEN rows[c] ELSE tasks[k].base[c]]
  OBVIOUS
<1>3. PICK o : o = [tasks[k] EXCEPT !.st = "run", !.base = b]
  OBVIOUS
<1>4. GoodTask(o) /\ o.st = "run"
  BY <1>1, <1>2, <1>3 DEF GoodTask
<1>5. tasks' = [tasks EXCEPT ![k] = o]
  BY <1>1, <1>2, <1>3 DEF Updates!ReadRows, Channel, GoodTask
<1> QED
  BY <1>1, <1>4, <1>5, TaskOnly

LEMMA SkipStep ==
    ASSUME UpdateInv, NEW k \in Updates!Kind, Updates!Skip(k)
    PROVE  UpdateInv'
<1>1. /\ GoodTask(tasks[k]) /\ DOMAIN tasks = Updates!Kind
      /\ UNCHANGED <<rows, abilities, ignoredByUser, wanted, blind, overwritten, behind, flight>>
      /\ tasks[k].st = "run" /\ tasks[k].todo # <<>>
      /\ tasks' = [tasks EXCEPT ![k] = Updates!After(tasks[k])]
  BY DEF UpdateInv, TaskBase, Updates!Skip, Updates!server, Updates!client
<1>3. GoodTask(Updates!After(tasks[k])) /\ Updates!After(tasks[k]).st = "run"
  BY <1>1, NextTask
<1> QED
  BY <1>1, <1>3, TaskOnly

LEMMA AsksProviderStep ==
    ASSUME UpdateInv, NEW k \in Updates!Kind, Updates!FetchUpstreamModelIDs(k)
    PROVE  UpdateInv'
<1>1. /\ GoodTask(tasks[k]) /\ DOMAIN tasks = Updates!Kind
      /\ UNCHANGED <<rows, abilities, ignoredByUser, wanted, blind, overwritten, behind, flight>>
      /\ tasks[k].st = "run" /\ tasks[k].todo # <<>>
  BY DEF UpdateInv, TaskBase, Updates!FetchUpstreamModelIDs, Updates!server, Updates!client
<1>2. PICK c : c = Head(tasks[k].todo)
  OBVIOUS
<1>3. PICK z, y : z = (IF Updates!SeesMapping(k) THEN Aliases[c] ELSE {})
                  /\ y = (IF Updates!SeesMapping(k) THEN Targets[c] ELSE {})
  OBVIOUS
<1>4. PICK f : f = Updates!Pending(Updates!Row(k), upstream[c], z, y)
  OBVIOUS
<1>5. PICK o : o = [tasks[k] EXCEPT !.st = "write", !.found = f]
  OBVIOUS
<1>6. /\ GoodTask(o) /\ o.st = "write" /\ o.found = f /\ o.todo = tasks[k].todo
      /\ o.base = tasks[k].base
  BY <1>1, <1>5 DEF GoodTask
<1>7. tasks' = [tasks EXCEPT ![k] = o]
  BY <1>1, <1>2, <1>3, <1>4, <1>5 DEF Updates!FetchUpstreamModelIDs, GoodTask
<1>9. /\ o.found.add \cap (o.base[Head(o.todo)].models \cup o.base[Head(o.todo)].ignored) = {}
      /\ Updates!SeesMapping(k) => /\ o.found.rem \cap Aliases[Head(o.todo)] = {}
                                   /\ o.found.add \cap Targets[Head(o.todo)] = {}
  <2>1. PICK m : m = Updates!Row(k)
    OBVIOUS
  <2>2. o.base[Head(o.todo)] = m /\ Head(o.todo) = c
    BY <1>2, <1>6, <2>1 DEF Updates!Row
  <2>3. o.found.add = upstream[c] \ (m.models \cup y \cup m.ignored)
        /\ o.found.rem = m.models \ (upstream[c] \cup z)
    BY <1>4, <1>6, <2>1 DEF Updates!Pending
  <2> QED
    BY <1>3, <2>2, <2>3
<1> QED
  BY <1>1, <1>6, <1>7, <1>9, TaskOnly

LEMMA RereadStep ==
    ASSUME UpdateInv, Updates!Reread
    PROVE  UpdateInv'
<1>0. "edit" \in Updates!Kind /\ "edit" \notin Updates!Asked
  BY DEF Updates!Kind, Updates!Asked
<1>1. /\ GoodTask(tasks["edit"]) /\ DOMAIN tasks = Updates!Kind
      /\ \A c \in Channel : RowWhole(rows[c])
      /\ UNCHANGED <<rows, abilities, ignoredByUser, wanted, blind, overwritten, behind, flight>>
      /\ tasks["edit"].st = "reread"
  BY <1>0 DEF UpdateInv, TaskBase, Updates!Reread, Updates!server, Updates!client
<1>2. PICK c : c = Head(tasks["edit"].todo)
  OBVIOUS
<1>3. c \in Channel
  BY <1>1, <1>2 DEF GoodTask
<1>4. PICK o : o = [tasks["edit"] EXCEPT !.st = "abilities", !.base[c] = rows[c]]
  OBVIOUS
<1>5. GoodTask(o) /\ o.st = "abilities" /\ o.todo = tasks["edit"].todo
  BY <1>1, <1>3, <1>4 DEF GoodTask
<1>6. tasks' = [tasks EXCEPT !["edit"] = o]
  BY <1>0, <1>1, <1>2, <1>4 DEF Updates!Reread, GoodTask
<1> QED
  BY <1>0, <1>1, <1>5, <1>6, TaskOnly

LEMMA FinishStep ==
    ASSUME UpdateInv, NEW k \in Updates!Kind, Updates!Finish(k)
    PROVE  UpdateInv'
<1>1. /\ GoodTask(tasks[k]) /\ DOMAIN tasks = Updates!Kind
      /\ UNCHANGED <<rows, abilities, ignoredByUser, wanted, blind, overwritten, behind, flight>>
      /\ tasks[k].st = "run"
  BY DEF UpdateInv, TaskBase, Updates!Finish, Updates!server, Updates!client
<1>3. PICK o : o = IF k \in flight THEN [tasks[k] EXCEPT !.st = "answer"]
                   ELSE Updates!Idle
  OBVIOUS
<1>4. GoodTask(o) /\ o.st \notin {"write"} /\ (k \in flight => o.st = "answer")
  BY <1>1, <1>3, IdleTask DEF GoodTask
<1>5. tasks' = [tasks EXCEPT ![k] = o]
  BY <1>1, <1>3 DEF Updates!Finish
<1> QED
  BY <1>1, <1>4, <1>5, TaskOnly

(* The steps that write a row.                                             *)
LEMMA ProviderFailsStep ==
    ASSUME UpdateInv, NEW k \in Updates!Kind, Updates!FetchFails(k)
    PROVE  UpdateInv'
<1>1. PICK c, b : c = Head(tasks[k].todo) /\ b = Updates!Row(k)
  OBVIOUS
<1>2. PICK r : r = [b EXCEPT !.models = rows[c].models]
  OBVIOUS
<1>3. PICK o : o = IF k = "detect" THEN [tasks[k] EXCEPT !.st = "refused"]
                   ELSE Updates!After(tasks[k])
  OBVIOUS
<1>4. /\ tasks[k].st = "run" /\ tasks[k].todo # <<>>
      /\ rows' = [rows EXCEPT ![c] = r]
      /\ overwritten' = IF rows[c] = b THEN overwritten ELSE overwritten \cup {c}
      /\ tasks' = [tasks EXCEPT ![k] = o]
      /\ UNCHANGED <<abilities, ignoredByUser, wanted, blind, behind, flight>>
  BY <1>1, <1>2, <1>3 DEF Updates!FetchFails, Updates!Write, Updates!client
<1>5. /\ TaskBase /\ GoodTask(tasks[k]) /\ c \in Channel /\ RowWhole(b)
  BY <1>1, <1>4 DEF UpdateInv, TaskBase, GoodTask, Updates!Row
<1>6. /\ RowWhole(r) /\ r.models = rows[c].models
      /\ r.detected = b.detected /\ r.removed = b.removed /\ r.ignored = b.ignored
  BY <1>2, <1>5 DEF RowWhole
<1>7. GoodTask(o) /\ o.st \in {"refused", "run"}
  BY <1>3, <1>4, <1>5, NextTask DEF GoodTask
<1>8. /\ DOMAIN rows' = Channel /\ DOMAIN ignoredByUser' = Channel /\ DOMAIN wanted' = Channel
      /\ rows'[c] = r /\ ignoredByUser'[c] = ignoredByUser[c] /\ wanted'[c] = wanted[c]
      /\ \A d \in Channel \ {c} :
            /\ rows'[d] = rows[d] /\ ignoredByUser'[d] = ignoredByUser[d]
            /\ wanted'[d] = wanted[d] /\ (d \in blind' <=> d \in blind)
  BY <1>4, <1>5 DEF TaskBase
<1>9. c \notin overwritten /\ rows[c] = Updates!Row(k) =>
         /\ ignoredByUser'[c] \subseteq rows'[c].ignored
         /\ ignoredByUser'[c] \cap (rows'[c].detected \cup rows'[c].models) = {}
         /\ wanted'[c] \subseteq rows'[c].models
         /\ c \notin blind' => /\ rows'[c].removed \cap Aliases[c] = {}
                              /\ rows'[c].detected \cap Targets[c] = {}
         /\ rows'[c].models = rows[c].models
  BY <1>1, <1>4, <1>5, <1>6, <1>8 DEF UpdateInv, DecidedInv, Updates!RedirectsLeft, Channel
<1>10. overwritten' = IF rows[c] = Updates!Row(k) THEN overwritten ELSE overwritten \cup {c}
  BY <1>1, <1>4
<1>11. UNCHANGED <<flight, abilities, behind>>
  BY <1>4
<1> QED
  BY <1>4, <1>5, <1>6, <1>7, <1>8, <1>9, <1>10, <1>11, TaskWrites

LEMMA PersistStep ==
    ASSUME UpdateInv, NEW k \in Updates!Kind, Updates!Persist(k)
    PROVE  UpdateInv'
<1>1. PICK c, b, f : c = Head(tasks[k].todo) /\ b = Updates!Row(k) /\ f = tasks[k].found
  OBVIOUS
<1>2. PICK a \in BOOLEAN : a <=> (k = "task" /\ b.auto /\ f.add # {})
  OBVIOUS
<1>3. PICK m : m = [b EXCEPT !.models = IF a THEN b.models \cup f.add ELSE b.models,
                             !.detected = IF a THEN {} ELSE f.add,
                             !.removed = f.rem]
  OBVIOUS
<1>4. PICK r : r = [m EXCEPT !.models = IF a THEN m.models ELSE rows[c].models]
  OBVIOUS
<1>5. PICK o : o = IF a THEN [tasks[k] EXCEPT !.st = "abilities", !.base[c] = m]
                   ELSE Updates!After(tasks[k])
  OBVIOUS
<1>6. /\ TaskBase /\ GoodTask(tasks[k]) /\ tasks[k].st = "write" /\ tasks[k].todo # <<>>
      /\ c \in Channel /\ RowWhole(b)
  <2>1. TaskBase /\ GoodTask(tasks[k]) /\ tasks[k].st = "write"
    BY DEF UpdateInv, TaskBase, Updates!Persist
  <2> QED
    BY <1>1, <2>1 DEF GoodTask, Updates!Row
<1>7. /\ rows' = [rows EXCEPT ![c] = r]
      /\ overwritten' = IF rows[c] = b THEN overwritten ELSE overwritten \cup {c}
  BY <1>1, <1>2, <1>3, <1>4, <1>6 DEF Updates!Persist, Updates!Write, RowWhole
<1>8. tasks' = [tasks EXCEPT ![k] = o]
  BY <1>1, <1>2, <1>3, <1>5, <1>6 DEF Updates!Persist, RowWhole
<1>9. /\ blind' = IF Updates!SeesMapping(k) THEN blind \ {c} ELSE blind \cup {c}
      /\ wanted' = [wanted EXCEPT ![c] = wanted[c] \cup (IF a THEN f.add ELSE {})]
      /\ UNCHANGED <<abilities, ignoredByUser, behind, flight>>
  BY <1>1, <1>2, <1>6 DEF Updates!Persist, Updates!client, TaskBase
<1>10. /\ m.models = IF a THEN b.models \cup f.add ELSE b.models
       /\ m.detected = IF a THEN {} ELSE f.add
       /\ m.removed = f.rem /\ m.ignored = b.ignored /\ RowWhole(m)
  BY <1>3, <1>6 DEF RowWhole
<1>11. /\ r.models = IF a THEN m.models ELSE rows[c].models
       /\ r.detected = m.detected /\ r.removed = m.removed /\ r.ignored = m.ignored /\ RowWhole(r)
  BY <1>4, <1>10 DEF RowWhole
<1>12. /\ GoodTask(o) /\ o.st \in {"abilities", "run"}
       /\ a => o.st = "abilities" /\ Head(o.todo) = c
  <2>1. CASE a
    BY <1>1, <1>5, <1>6, <1>10, <2>1 DEF GoodTask
  <2>2. CASE ~a
    BY <1>5, <1>6, <2>2, NextTask
  <2> QED
    BY <2>1, <2>2
<1>13. /\ DOMAIN rows' = Channel /\ DOMAIN ignoredByUser' = Channel /\ DOMAIN wanted' = Channel
       /\ rows'[c] = r /\ ignoredByUser'[c] = ignoredByUser[c]
       /\ wanted'[c] = wanted[c] \cup (IF a THEN f.add ELSE {})
       /\ \A d \in Channel \ {c} :
             /\ rows'[d] = rows[d] /\ ignoredByUser'[d] = ignoredByUser[d]
             /\ wanted'[d] = wanted[d] /\ (d \in blind' <=> d \in blind)
  BY <1>6, <1>7, <1>9 DEF TaskBase
<1>14. /\ f.add \cap (b.models \cup b.ignored) = {}
       /\ Updates!SeesMapping(k) => f.rem \cap Aliases[c] = {} /\ f.add \cap Targets[c] = {}
  BY <1>1, <1>6 DEF UpdateInv, FoundInv
<1>15. ASSUME c \notin overwritten, rows[c] = b
       PROVE  /\ ignoredByUser[c] \subseteq r.ignored
              /\ ignoredByUser[c] \cap (r.detected \cup r.models) = {}
              /\ wanted[c] \cup (IF a THEN f.add ELSE {}) \subseteq r.models
              /\ c \notin blind' => r.removed \cap Aliases[c] = {} /\ r.detected \cap Targets[c] = {}
              /\ r.models = rows[c].models \/ (o.st \in {"reread", "abilities"} /\ Head(o.todo) = c)
  <2>1. /\ ignoredByUser[c] \subseteq b.ignored
        /\ ignoredByUser[c] \cap (b.detected \cup b.models) = {}
        /\ wanted[c] \subseteq b.models
    BY <1>6, <1>15 DEF UpdateInv, DecidedInv
  <2>2. /\ r.models = IF a THEN b.models \cup f.add ELSE b.models
        /\ r.detected = IF a THEN {} ELSE f.add
        /\ r.removed = f.rem /\ r.ignored = b.ignored
    BY <1>10, <1>11, <1>15
  <2>3. c \notin blind' => Updates!SeesMapping(k)
    BY <1>9
  <2>4. c \notin blind' => r.removed \cap Aliases[c] = {} /\ r.detected \cap Targets[c] = {}
    BY <1>14, <2>2, <2>3
  <2>5. /\ ignoredByUser[c] \subseteq r.ignored
        /\ ignoredByUser[c] \cap (r.detected \cup r.models) = {}
        /\ wanted[c] \cup (IF a THEN f.add ELSE {}) \subseteq r.models
    BY <1>14, <2>1, <2>2
  <2>6. r.models = rows[c].models \/ (o.st \in {"reread", "abilities"} /\ Head(o.todo) = c)
    BY <1>12, <1>15, <2>2
  <2> QED
    BY <2>4, <2>5, <2>6
<1>16. c \notin overwritten /\ rows[c] = Updates!Row(k) =>
         /\ ignoredByUser'[c] \subseteq rows'[c].ignored
         /\ ignoredByUser'[c] \cap (rows'[c].detected \cup rows'[c].models) = {}
         /\ wanted'[c] \subseteq rows'[c].models
         /\ c \notin blind' => /\ rows'[c].removed \cap Aliases[c] = {}
                              /\ rows'[c].detected \cap Targets[c] = {}
         /\ \/ rows'[c].models = rows[c].models
            \/ o.st \in {"reread", "abilities"} /\ Head(o.todo) = c
  BY <1>1, <1>13, <1>15
<1>17. overwritten' = IF rows[c] = Updates!Row(k) THEN overwritten ELSE overwritten \cup {c}
  BY <1>1, <1>7
<1>18. UNCHANGED <<flight, abilities, behind>>
  BY <1>9
<1> QED
  BY <1>6, <1>8, <1>11, <1>12, <1>13, <1>16, <1>17, <1>18, TaskWrites

LEMMA AppliesStep ==
    ASSUME UpdateInv, NEW k \in Updates!Kind, Updates!ApplyUpdates(k)
    PROVE  UpdateInv'
<1>1. PICK c, b : c = Head(tasks[k].todo) /\ b = Updates!Row(k)
  OBVIOUS
<1>2. PICK a, g : /\ a = IF k = "applyAll" THEN b.detected ELSE tasks[k].add \cap b.detected
                  /\ g = tasks[k].ign \cap b.detected
  OBVIOUS
<1>3. PICK z : z = (IF k = "applyAll" THEN b.removed ELSE tasks[k].rem \cap b.removed) \ a
  OBVIOUS
<1>4. PICK y : y = (b.models \cup a) \ z
  OBVIOUS
<1>5. PICK m : m = [b EXCEPT !.models = y, !.detected = b.detected \ (a \cup g),
                             !.removed = b.removed \ z, !.ignored = (b.ignored \cup g) \ a]
  OBVIOUS
<1>6. PICK r : r = [m EXCEPT !.models = IF y # b.models THEN m.models ELSE rows[c].models]
  OBVIOUS
<1>7. PICK o : o = IF y # b.models THEN [tasks[k] EXCEPT !.st = "abilities", !.base[c] = m]
                   ELSE Updates!After(tasks[k])
  OBVIOUS
<1>8. /\ TaskBase /\ GoodTask(tasks[k]) /\ tasks[k].st = "run" /\ tasks[k].todo # <<>>
      /\ c \in Channel /\ RowWhole(b)
  <2>1. TaskBase /\ GoodTask(tasks[k]) /\ tasks[k].st = "run" /\ tasks[k].todo # <<>>
    BY DEF UpdateInv, TaskBase, Updates!ApplyUpdates
  <2> QED
    BY <1>1, <2>1 DEF GoodTask, Updates!Row
<1>9. /\ m.models = y /\ m.detected = b.detected \ (a \cup g) /\ m.removed = b.removed \ z
      /\ m.ignored = (b.ignored \cup g) \ a /\ RowWhole(m)
  BY <1>5, <1>8 DEF RowWhole
<1>10. /\ rows' = [rows EXCEPT ![c] = r]
       /\ overwritten' = IF rows[c] = Updates!Row(k) THEN overwritten ELSE overwritten \cup {c}
  BY <1>1, <1>2, <1>3, <1>4, <1>5, <1>6, <1>8, SMTT(20) DEF Updates!ApplyUpdates, Updates!Write,
     RowWhole
<1>11. tasks' = [tasks EXCEPT ![k] = o]
  BY <1>1, <1>2, <1>3, <1>4, <1>5, <1>7, <1>8 DEF Updates!ApplyUpdates, RowWhole
<1>12. /\ ignoredByUser' = [ignoredByUser EXCEPT ![c] = (ignoredByUser[c] \cup g) \ y]
       /\ wanted' = [wanted EXCEPT ![c] = (wanted[c] \cup a) \ z]
       /\ UNCHANGED <<abilities, blind, behind, flight>>
  BY <1>1, <1>2, <1>3, <1>4, <1>8 DEF Updates!ApplyUpdates, Updates!client, TaskBase
<1>13. /\ r.models = IF y # b.models THEN m.models ELSE rows[c].models
       /\ r.detected = m.detected /\ r.removed = m.removed /\ r.ignored = m.ignored /\ RowWhole(r)
  BY <1>6, <1>9 DEF RowWhole
<1>14. /\ GoodTask(o) /\ o.st \in {"abilities", "run"}
       /\ y # b.models => o.st = "abilities" /\ Head(o.todo) = c
  <2>1. CASE y # b.models
    BY <1>1, <1>7, <1>8, <1>9, <2>1 DEF GoodTask
  <2>2. CASE y = b.models
    BY <1>7, <1>8, <2>2, NextTask
  <2> QED
    BY <2>1, <2>2
<1>15. /\ DOMAIN rows' = Channel /\ DOMAIN ignoredByUser' = Channel /\ DOMAIN wanted' = Channel
       /\ rows'[c] = r /\ ignoredByUser'[c] = (ignoredByUser[c] \cup g) \ y
       /\ wanted'[c] = (wanted[c] \cup a) \ z
       /\ \A d \in Channel \ {c} :
             /\ rows'[d] = rows[d] /\ ignoredByUser'[d] = ignoredByUser[d]
             /\ wanted'[d] = wanted[d] /\ (d \in blind' <=> d \in blind)
  BY <1>8, <1>10, <1>12 DEF TaskBase
<1>16. ASSUME c \notin overwritten, rows[c] = Updates!Row(k)
       PROVE  /\ ignoredByUser'[c] \subseteq rows'[c].ignored
              /\ ignoredByUser'[c] \cap (rows'[c].detected \cup rows'[c].models) = {}
              /\ wanted'[c] \subseteq rows'[c].models
              /\ c \notin blind' => /\ rows'[c].removed \cap Aliases[c] = {}
                                   /\ rows'[c].detected \cap Targets[c] = {}
              /\ \/ rows'[c].models = rows[c].models
                 \/ o.st \in {"reread", "abilities"} /\ Head(o.todo) = c
  <2>1. /\ ignoredByUser[c] \subseteq b.ignored
        /\ ignoredByUser[c] \cap (b.detected \cup b.models) = {}
        /\ wanted[c] \subseteq b.models
        /\ c \notin blind => b.removed \cap Aliases[c] = {} /\ b.detected \cap Targets[c] = {}
    BY <1>1, <1>8, <1>16 DEF UpdateInv, DecidedInv, Updates!RedirectsLeft, Channel
  <2>2. /\ r.models = y /\ r.detected = b.detected \ (a \cup g) /\ r.removed = b.removed \ z
        /\ r.ignored = (b.ignored \cup g) \ a
    BY <1>1, <1>9, <1>13, <1>16
  <2>3. a \subseteq y /\ g \subseteq b.detected
    BY <1>2, <1>3, <1>4
  <2>4. ignoredByUser'[c] \subseteq r.ignored
    BY <1>15, <2>1, <2>2, <2>3
  <2>5. ignoredByUser'[c] \cap (r.detected \cup r.models) = {}
    BY <1>15, <2>1, <2>2
  <2>6. wanted'[c] \subseteq r.models
    BY <1>4, <1>15, <2>1, <2>2
  <2>7. c \notin blind' => r.removed \cap Aliases[c] = {} /\ r.detected \cap Targets[c] = {}
    BY <1>12, <2>1, <2>2
  <2>8. r.models = rows[c].models \/ (o.st \in {"reread", "abilities"} /\ Head(o.todo) = c)
    BY <1>13, <1>14
  <2> QED
    BY <1>15, <2>4, <2>5, <2>6, <2>7, <2>8
<1>17. UNCHANGED <<flight, abilities, behind>>
  BY <1>12
<1> QED
  BY <1>8, <1>10, <1>11, <1>13, <1>14, <1>15, <1>16, <1>17, TaskWrites

LEMMA EditSavesStep ==
    ASSUME UpdateInv, NEW ms, Updates!EditSaves(ms)
    PROVE  UpdateInv'
<1>0. "edit" \in Updates!Kind
  BY DEF Updates!Kind
<1>1. PICK c, b : c = Head(tasks["edit"].todo) /\ b = Updates!Row("edit")
  OBVIOUS
<1>2. /\ TaskBase /\ GoodTask(tasks["edit"]) /\ tasks["edit"].st = "run"
      /\ tasks["edit"].todo # <<>> /\ c \in Channel /\ RowWhole(b)
  <2>1. /\ TaskBase /\ GoodTask(tasks["edit"]) /\ tasks["edit"].st = "run"
        /\ tasks["edit"].todo # <<>>
    BY <1>0 DEF UpdateInv, TaskBase, Updates!EditSaves
  <2> QED
    BY <1>1, <2>1 DEF GoodTask, Updates!Row
<1>3. PICK r : r = [[b EXCEPT !.models = ms] EXCEPT !.models = ms]
  OBVIOUS
<1>4. /\ r.models = ms /\ r.detected = b.detected /\ r.removed = b.removed
      /\ r.ignored = b.ignored /\ RowWhole(r)
  BY <1>2, <1>3 DEF RowWhole
<1>5. PICK o : o = [tasks["edit"] EXCEPT !.st = "reread"]
  OBVIOUS
<1>6. GoodTask(o) /\ o.st = "reread" /\ Head(o.todo) = c
  BY <1>1, <1>2, <1>5 DEF GoodTask
<1>7. /\ rows' = [rows EXCEPT ![c] = r]
      /\ overwritten' = IF rows[c] = Updates!Row("edit") THEN overwritten
                        ELSE overwritten \cup {c}
  BY <1>1, <1>2, <1>3 DEF Updates!EditSaves, Updates!Write, RowWhole
<1>8. tasks' = [tasks EXCEPT !["edit"] = o] /\ UNCHANGED <<abilities, blind, behind, flight>>
  BY <1>2, <1>5 DEF Updates!EditSaves, Updates!client
<1>9. /\ DOMAIN rows' = Channel /\ DOMAIN ignoredByUser' = Channel /\ DOMAIN wanted' = Channel
      /\ rows'[c] = r /\ ignoredByUser'[c] = ignoredByUser[c] \ ms /\ wanted'[c] = {}
      /\ \A d \in Channel \ {c} :
            /\ rows'[d] = rows[d] /\ ignoredByUser'[d] = ignoredByUser[d]
            /\ wanted'[d] = wanted[d] /\ (d \in blind' <=> d \in blind)
  BY <1>1, <1>2, <1>7, <1>8 DEF TaskBase, Updates!EditSaves
<1>10. c \notin overwritten /\ rows[c] = Updates!Row("edit") =>
         /\ ignoredByUser'[c] \subseteq rows'[c].ignored
         /\ ignoredByUser'[c] \cap (rows'[c].detected \cup rows'[c].models) = {}
         /\ wanted'[c] \subseteq rows'[c].models
         /\ c \notin blind' => /\ rows'[c].removed \cap Aliases[c] = {}
                              /\ rows'[c].detected \cap Targets[c] = {}
         /\ o.st \in {"reread", "abilities"} /\ Head(o.todo) = c
  BY <1>1, <1>2, <1>4, <1>6, <1>8, <1>9
     DEF UpdateInv, DecidedInv, Updates!RedirectsLeft, Channel
<1> QED
  BY <1>0, <1>2, <1>4, <1>6, <1>7, <1>8, <1>9, <1>10, TaskWrites

(* The routes are changed to the models of the row as it was read.         *)
LEMMA RoutesStep ==
    ASSUME UpdateInv, NEW k \in Updates!Kind, Updates!UpdateAbilities(k)
    PROVE  UpdateInv'
<1> USE DEF UpdateInv
<1>1. PICK c, o : c = Head(tasks[k].todo) /\ o = Updates!After(tasks[k])
  OBVIOUS
<1>2. /\ tasks[k].st = "abilities"
      /\ abilities' = [abilities EXCEPT ![c] = Updates!Row(k).models]
      /\ overwritten' = IF rows[c].models = Updates!Row(k).models THEN overwritten
                        ELSE overwritten \cup {c}
      /\ tasks' = [tasks EXCEPT ![k] = o]
      /\ behind' = behind \ {c}
      /\ UNCHANGED <<rows, ignoredByUser, wanted, blind, flight>>
  BY <1>1 DEF Updates!UpdateAbilities, Updates!client
<1>3. GoodTask(tasks[k]) /\ tasks[k].todo # <<>> /\ c \in Channel
  BY <1>1, <1>2 DEF TaskBase, GoodTask
<1>4. GoodTask(o) /\ o.st = "run"
  BY <1>1, <1>3, NextTask
<1>5. TaskBase'
  BY <1>2, <1>4, TaskMoved DEF TaskBase
<1>6. tasks'[k] = o /\ \A j \in Updates!Kind \ {k} : tasks'[j] = tasks[j]
  BY <1>2 DEF TaskBase
<1>7. FlagsInv'
  BY <1>2, <1>4, <1>6 DEF FlagsInv, Updates!Asked, Updates!Kind
<1>8. FoundInv'
  BY <1>4, <1>6 DEF FoundInv, Updates!Row, Updates!SeesMapping
<1>9. /\ overwritten \subseteq overwritten'
      /\ c \notin overwritten' => rows[c].models = Updates!Row(k).models
  BY <1>2
<1>10. DecidedInv' /\ Updates!RedirectsLeft'
  BY <1>2, <1>9 DEF DecidedInv, Updates!RedirectsLeft, Channel
<1>11. /\ abilities'[c] = Updates!Row(k).models
       /\ \A d \in Channel \ {c} : abilities'[d] = abilities[d]
  BY <1>2, <1>3 DEF TaskBase
<1>12. RoutesInv'
  <2> SUFFICES ASSUME NEW d \in Channel \ (overwritten' \cup behind')
               PROVE  \/ abilities'[d] = rows[d].models
                      \/ \E j \in Updates!Kind :
                            tasks'[j].st \in {"reread", "abilities"} /\ Head(tasks'[j].todo) = d
    BY <1>2 DEF RoutesInv, Channel, Updates!Channel, Updates!Kind
  <2>1. CASE d = c
    BY <1>9, <1>11, <2>1
  <2>2. CASE d # c
    <3>1. \/ abilities[d] = rows[d].models
          \/ \E j \in Updates!Kind :
                tasks[j].st \in {"reread", "abilities"} /\ Head(tasks[j].todo) = d
      BY <1>2, <1>9, <2>2 DEF RoutesInv
    <3> QED
      BY <1>1, <1>6, <1>11, <2>2, <3>1
  <2> QED
    BY <2>1, <2>2
<1> QED
  BY <1>5, <1>7, <1>8, <1>10, <1>12

(* A failed statement: only a failed change of the routes leaves a trace.  *)
LEMMA StatementFailsStep ==
    ASSUME UpdateInv, NEW k \in Updates!Kind, Updates!StatementFails(k)
    PROVE  UpdateInv'
<1>1. PICK o : o = IF k \in {"apply", "detect"} THEN [tasks[k] EXCEPT !.st = "refused"]
                   ELSE Updates!After(tasks[k])
  OBVIOUS
<1>2. /\ GoodTask(tasks[k]) /\ tasks[k].st \in {"write", "abilities", "run"}
      /\ tasks[k].st = "run" => tasks[k].todo # <<>>
      /\ UNCHANGED <<rows, abilities, ignoredByUser, wanted, blind, overwritten, flight>>
      /\ behind' = IF tasks[k].st = "abilities" THEN behind \cup {Head(tasks[k].todo)} ELSE behind
  BY DEF UpdateInv, TaskBase, Updates!StatementFails, Updates!client
<1>3. tasks[k].todo # <<>>
  BY <1>2 DEF GoodTask
<1>4. tasks' = [tasks EXCEPT ![k] = o]
  BY <1>1 DEF Updates!StatementFails
<1>5. GoodTask(o) /\ o.st \in {"refused", "run"}
  BY <1>1, <1>2, <1>3, NextTask DEF GoodTask
<1>6. behind \subseteq behind' /\ (tasks[k].st = "abilities" => Head(tasks[k].todo) \in behind')
  BY <1>2
<1> QED
  BY <1>2, <1>4, <1>5, <1>6, TaskOnly

LEMMA ChoiceInductive == Spec => []ChoiceInv
<1>1. Init => ChoiceInv
  <2>1. ChannelOrder[1] \in Channel
    BY ChannelsAssumption DEF Channel, Updates!Channel
  <2>2. Updates!Init => choice = Updates!Closed
    BY Zenon DEF Updates!Init
  <2>3. choice = Updates!Closed => ChoiceInv
    BY <2>1 DEF Updates!Closed, ChoiceInv
  <2> QED
    BY <2>2, <2>3, Zenon DEF Init
<1>2. ChoiceInv /\ [Next]_vars => ChoiceInv'
  <2> SUFFICES ASSUME ChoiceInv, [Next]_vars PROVE ChoiceInv'
    OBVIOUS
  <2>1. \A d : d = Updates!Closed =>
           /\ DOMAIN d = {"open", "ch", "add", "rem", "selAdd", "selRem", "sure"}
           /\ d.ch \in Channel
    BY ChannelsAssumption DEF Updates!Closed, Channel, Updates!Channel
  <2>2. ASSUME NEW c \in Channel, Updates!OpenUpstreamUpdateModal(c) PROVE ChoiceInv'
    BY <2>2 DEF Updates!OpenUpstreamUpdateModal, ChoiceInv, Updates!Closed, Channel,
       Updates!Channel
  <2>3. ASSUME NEW m, Updates!Toggle(m) PROVE ChoiceInv'
    BY <2>3 DEF Updates!Toggle, ChoiceInv, Channel, Updates!Channel
  <2>4. ASSUME Updates!HandleSubmit PROVE ChoiceInv'
    BY <2>4 DEF Updates!HandleSubmit, ChoiceInv, Channel, Updates!Channel
  <2>5. choice' = choice \/ choice' = Updates!Closed => ChoiceInv'
    BY <2>1 DEF ChoiceInv, Channel, Updates!Channel
  <2>6. ASSUME Updates!Next \/ UNCHANGED updates
        PROVE  \/ choice' = choice \/ choice' = Updates!Closed
               \/ \E c \in Channel : Updates!OpenUpstreamUpdateModal(c)
               \/ \E m : Updates!Toggle(m)
               \/ Updates!HandleSubmit
    BY <2>6, ZenonT(30) DEF updates, Updates!Next, Updates!CloseUpstreamUpdateModal, Updates!Ask,
       Updates!DetectChannelUpstreamUpdates, Updates!ApplyAllUpstreamUpdates,
       Updates!DetectAllUpstreamUpdates, Updates!TaskStarts, Updates!EditStarts,
       Updates!Answered, Updates!RequestFails, Updates!Refreshed, Updates!ReadRows, Updates!Skip,
       Updates!FetchUpstreamModelIDs, Updates!FetchFails, Updates!Persist, Updates!ApplyUpdates,
       Updates!UpdateAbilities, Updates!StatementFails, Updates!Finish, Updates!EditSaves,
       Updates!Reread, Updates!ProviderMoves, Updates!client, Channel
  <2> QED
    BY <2>2, <2>3, <2>4, <2>5, <2>6, UpdateStep
<1> QED
  BY <1>1, <1>2, PTL DEF Spec

LEMMA UpdateInitial == Updates!Init => UpdateInv
<1> SUFFICES ASSUME Updates!Init PROVE UpdateInv
  OBVIOUS
<1>1. /\ rows = FirstRows /\ tasks = [k \in Updates!Kind |-> Updates!Idle] /\ flight = {}
      /\ abilities = [c \in Channel |-> FirstRows[c].models] /\ overwritten = {}
      /\ ignoredByUser = [c \in Channel |-> {}] /\ wanted = [c \in Channel |-> {}]
  BY DEF Updates!Init, Channel
<1>2. \A k \in Updates!Kind : tasks[k] = Updates!Idle
  BY <1>1
<1>3. TaskBase
  BY <1>1, IdleTask, ChannelsAssumption DEF TaskBase, RowWhole, Channel
<1>4. FlagsInv /\ FoundInv
  BY <1>1, <1>2, IdleTask DEF FlagsInv, FoundInv, Updates!Asked, Updates!Kind
<1>5. DecidedInv /\ RoutesInv
  BY <1>1 DEF DecidedInv, RoutesInv
<1>6. Updates!RedirectsLeft
  BY <1>1, ChannelsAssumption DEF Updates!RedirectsLeft
<1> QED
  BY <1>3, <1>4, <1>5, <1>6 DEF UpdateInv

(* Every step of an operation on a channel's models keeps the invariant.   *)
LEMMA UpdateInductive == Spec => [](UpdateInv)
<1>1. Init => UpdateInv
  BY UpdateInitial, Zenon DEF Init
<1>2. UpdateInv /\ ChoiceInv /\ [Next]_vars => UpdateInv'
  <2> SUFFICES ASSUME UpdateInv, ChoiceInv, [Next]_vars PROVE UpdateInv'
    OBVIOUS
  <2>1. CASE UNCHANGED <<rows, abilities, ignoredByUser, wanted, blind, overwritten, behind, tasks,
                         flight>>
    BY <2>1, FlagsTaken
  <2>2. UNCHANGED updates => <2>1!1
    BY DEF updates
  <2>3. (\E c \in Channel : Updates!OpenUpstreamUpdateModal(c)) \/ (\E m : Updates!Toggle(m))
        \/ Updates!CloseUpstreamUpdateModal
        \/ (\E c \in Channel : \E l : Updates!ProviderMoves(c, l)) => <2>1!1
    BY DEF Updates!OpenUpstreamUpdateModal, Updates!Toggle, Updates!CloseUpstreamUpdateModal,
       Updates!ProviderMoves, Updates!server, Updates!client
  <2>4. ASSUME NEW c \in Channel, Updates!EditStarts(c) PROVE UpdateInv'
    <3>1. <<c>> \in Seq(Channel)
      OBVIOUS
    <3> QED
      BY <2>4, <3>1, ServerStartsStep DEF Updates!EditStarts
  <2>5. ASSUME NEW c \in Channel, Updates!DetectChannelUpstreamUpdates(c) PROVE UpdateInv'
    <3>1. <<c>> \in Seq(Channel) /\ "detect" \in Updates!Asked
      BY DEF Updates!Asked
    <3> QED
      BY <2>5, <3>1, AsksStep DEF Updates!DetectChannelUpstreamUpdates
  <2>6. ChannelOrder \in Seq(Channel) /\ {"applyAll", "detectAll"} \subseteq Updates!Asked
    BY ChannelsAssumption DEF Channel, Updates!Asked
  <2>7. Updates!ApplyAllUpstreamUpdates \/ Updates!DetectAllUpstreamUpdates => UpdateInv'
    BY <2>6, AsksStep DEF Updates!ApplyAllUpstreamUpdates, Updates!DetectAllUpstreamUpdates
  <2>8. Updates!TaskStarts => UpdateInv'
    BY <2>6, ServerStartsStep DEF Updates!TaskStarts
  <2>9. Updates!HandleSubmit => UpdateInv'
    BY SubmitsStep DEF ChoiceInv
  <2>10. ASSUME Updates!Next PROVE UpdateInv'
    BY <2>1, <2>3, <2>4, <2>5, <2>7, <2>8, <2>9, <2>10, EndsStep, UpdateReadsStep, SkipStep,
       AsksProviderStep, ProviderFailsStep, PersistStep, AppliesStep, RoutesStep, FinishStep,
       StatementFailsStep, EditSavesStep, RereadStep, Zenon DEF Updates!Next, Channel
  <2> QED
    BY <2>1, <2>2, <2>10, UpdateStep
<1> QED
  BY <1>1, <1>2, ChoiceInductive, PTL DEF Spec

LEMMA UpdateFlags == UpdateInv => Updates!FlagsEnd
BY DEF UpdateInv, FlagsInv, Updates!FlagsEnd

(* Of a channel that no operation has written from an outdated row: what   *)
(* the user decided about its provider's models stays decided by every     *)
(* later check; after a check that reads the model mapping, that is not    *)
(* one of the task or of "detect all", no redirect source is offered for   *)
(* removal; and with no operation under way it is routed for its models,   *)
(* unless the last change of its routes failed.  For all channels,         *)
(* mappings and lists, with requests lost and statements failing anywhere. *)
THEOREM UpdatesDecided ==
    Spec => [](Updates!DecisionsKept /\ Updates!RedirectsLeft /\ Updates!RoutesFollow)
<1>1. UpdateInv => Updates!DecisionsKept /\ Updates!RedirectsLeft
  BY DEF UpdateInv, DecidedInv, Channel, Updates!DecisionsKept
<1>2. UpdateInv => Updates!RoutesFollow
  BY DEF UpdateInv, RoutesInv, Channel, Updates!RoutesFollow
<1> QED
  BY <1>1, <1>2, UpdateInductive, PTL

(* Only the answer to the dialog takes models out of what is pending.      *)
LEMMA NewsStep ==
    ASSUME UpdateInv, Updates!Next, NEW c \in Channel, rows[c] # rows'[c],
           tasks["apply"].st = "run", tasks'["apply"] # tasks["apply"], c \notin overwritten'
    PROVE  rows[c].detected \ (tasks["apply"].add \cup tasks["apply"].ign) \subseteq rows'[c].detected
<1>0. /\ DOMAIN tasks = Updates!Kind /\ DOMAIN rows = Channel /\ GoodTask(tasks["apply"])
      /\ \A k \in Updates!Kind : k # "apply" => \A o : tasks' # [tasks EXCEPT ![k] = o]
  BY DEF UpdateInv, TaskBase, Updates!Kind
<1>1. \A k \in Updates!Kind : ~Updates!FetchFails(k) /\ ~Updates!Persist(k)
  BY <1>0, Zenon DEF Updates!FetchFails, Updates!Persist
<1>2. \A ms : ~Updates!EditSaves(ms)
  <2> SUFFICES ASSUME NEW ms, Updates!EditSaves(ms) PROVE FALSE
    OBVIOUS
  <2>1. tasks' = [tasks EXCEPT !["edit"].st = "reread"]
    BY DEF Updates!EditSaves
  <2> QED
    BY <1>0, <2>1 DEF Updates!Kind
<1>3. \A k \in Updates!Kind : Updates!ApplyUpdates(k) => k = "apply"
  <2> SUFFICES ASSUME NEW k \in Updates!Kind, Updates!ApplyUpdates(k), k # "apply" PROVE FALSE
    OBVIOUS
  <2>1. \E o : tasks' = [tasks EXCEPT ![k] = o]
    BY SMTT(20) DEF Updates!ApplyUpdates
  <2> QED
    BY <1>0, <2>1
<1>4. Updates!ApplyUpdates("apply")
  <2>1. rows' # rows
    OBVIOUS
  <2> QED
    BY <1>1, <1>2, <1>3, <2>1, Zenon DEF Updates!Next, Updates!OpenUpstreamUpdateModal,
       Updates!Toggle, Updates!HandleSubmit, Updates!CloseUpstreamUpdateModal, Updates!Ask,
       Updates!DetectChannelUpstreamUpdates, Updates!ApplyAllUpstreamUpdates,
       Updates!DetectAllUpstreamUpdates, Updates!TaskStarts, Updates!EditStarts,
       Updates!Answered, Updates!RequestFails, Updates!Refreshed, Updates!ReadRows, Updates!Skip,
       Updates!FetchUpstreamModelIDs, Updates!UpdateAbilities, Updates!StatementFails,
       Updates!Finish, Updates!Reread, Updates!ProviderMoves, Updates!server
<1>5. PICK b, a, g : /\ b = Updates!Row("apply")
                     /\ a = tasks["apply"].add \cap b.detected
                     /\ g = tasks["apply"].ign \cap b.detected
  OBVIOUS
<1>6. PICK z, h : z = (tasks["apply"].rem \cap b.removed) \ a /\ h = Head(tasks["apply"].todo)
  OBVIOUS
<1>7. PICK y : y = (b.models \cup a) \ z
  OBVIOUS
<1>8. PICK m : m = [b EXCEPT !.models = y, !.detected = b.detected \ (a \cup g),
                             !.removed = b.removed \ z, !.ignored = (b.ignored \cup g) \ a]
  OBVIOUS
<1>9. PICK r : r = [m EXCEPT !.models = IF y # b.models THEN m.models ELSE rows[h].models]
  OBVIOUS
<1>10. RowWhole(b) /\ h \in Channel
  <2>1. tasks["apply"].todo # <<>>
    BY <1>4 DEF Updates!ApplyUpdates
  <2>2. h \in Channel
    BY <1>0, <1>6, <2>1, SMTT(30) DEF GoodTask
  <2> QED
    BY <1>0, <1>5, <1>6, <2>2 DEF GoodTask, Updates!Row
<1>11. /\ rows' = [rows EXCEPT ![h] = r]
       /\ overwritten' = IF rows[h] = b THEN overwritten ELSE overwritten \cup {h}
  BY <1>4, <1>5, <1>6, <1>7, <1>8, <1>9, <1>10 DEF Updates!ApplyUpdates, Updates!Write, RowWhole
<1>12. c = h /\ rows[c] = b
  BY <1>0, <1>11
<1>13. rows'[c].detected = b.detected \ (a \cup g)
  BY <1>0, <1>8, <1>9, <1>10, <1>11, <1>12 DEF RowWhole
<1> QED
  BY <1>5, <1>12, <1>13

LEMMA NewsFaithful == Spec => Updates!NewsStayPending
<1> DEFINE A == \A c \in Updates!Channel :
                   /\ rows[c] # rows'[c] /\ tasks["apply"].st = "run" /\ tasks'["apply"] # tasks["apply"]
                   /\ c \notin overwritten'
                   => rows[c].detected \ (tasks["apply"].add \cup tasks["apply"].ign)
                        \subseteq rows'[c].detected
<1>1. UpdateInv /\ [Next]_vars => [A]_(Updates!vars)
  <2>1. UNCHANGED updates => UNCHANGED Updates!vars
    BY DEF updates, Updates!vars, Updates!server, Updates!client
  <2> QED
    BY <2>1, UpdateStep, NewsStep DEF Channel
<1>2. Spec => [][A]_(Updates!vars)
  BY <1>1, UpdateInductive, PTL DEF Spec
<1> QED
  BY <1>2 DEF Updates!NewsStayPending

-----------------------------------------------------------------------------
(* The price editors.  A spinner that turns has a request that stops it,   *)
(* and a pending merge keeps the text it started from on its left and asks *)
(* only about models that both sides price.                                *)
Whole(f) ==
    DOMAIN f = Pricing!Name /\ \A n \in Pricing!Name : f[n].kind = "none" => f[n] = NoEntry

TextWhole(t) ==
    /\ DOMAIN t = {"broken", "keys"} /\ DOMAIN t.keys = Pricing!Name \cup {Spaced}
    /\ \A k \in Pricing!Name \cup {Spaced} : t.keys[k].kind = "none" => t.keys[k] = NoEntry

PriceTurns ==
    /\ DOMAIN storing = Pricing!Editor /\ DOMAIN put = Pricing!Editor
    /\ fetch = "none" => awaiting = {}
    /\ \A e \in Pricing!Editor :
          /\ DOMAIN put[e] = {"st", "value", "base", "touched", "known"}
          /\ storing[e] \in {"idle", "put", "refresh"}
          /\ storing[e] = "put" => put[e].st # "none"
          /\ storing[e] = "refresh" => e \in awaiting

PriceData ==
    /\ Whole(catalog) /\ Whole(fetched) /\ Whole(loaded) /\ TextWhole(text) /\ changes \in Nat
    /\ \A e \in Pricing!Editor : put[e].st # "none" => Whole(put[e].value)

MergeWhole(m) ==
    /\ Whole(m.left) /\ Whole(m.right) /\ DOMAIN m.side = Pricing!Name
    /\ m.names \in Seq(Pricing!Name) /\ m.index \in 1..Len(m.names)
    /\ \A i \in 1..Len(m.names) :
          m.left[m.names[i]].kind # "none" /\ m.right[m.names[i]].kind # "none"
    /\ \A n \in Pricing!Name :
          /\ m.base[n] = IF m.left[n].kind = "none" THEN m.right[n] ELSE m.left[n]
          /\ m.side[n] # NoWord => m.left[n].kind # "none" /\ m.right[n].kind # "none"

MergeInv ==
    /\ merge.on \in BOOLEAN /\ drift \in BOOLEAN
    /\ DOMAIN merge = {"on", "base", "left", "right", "names", "side", "index"}
    /\ merge.on => MergeWhole(merge)
    /\ merge.on /\ ~drift =>
          \A n \in Pricing!Name : merge.left[n] = Pricing!Normalized(text.keys)[n]

PriceInv == PriceTurns /\ PriceData /\ MergeInv

LEMMA PriceStep ==
    ASSUME [Next]_vars
    PROVE  Pricing!Next \/ UNCHANGED pricing
BY Zenon DEF Next, Of, vars

LEMMA SameEntry == Pricing!NoEntry = NoEntry /\ NoEntry.kind = "none"
BY DEF Pricing!NoEntry, NoEntry, Pricing!Null, Null

(* A text made from prices reads as those prices, and a text that is       *)
(* normalized once stays what it is.                                       *)
LEMMA TextOf ==
    ASSUME NEW f, Whole(f)
    PROVE  /\ TextWhole(Pricing!AsText(f))
           /\ \A n \in Pricing!Name : /\ Pricing!AsText(f).keys[n] = f[n]
                                      /\ Pricing!Normalized(Pricing!AsText(f).keys)[n] = f[n]
<1>1. PICK g : g = [k \in Pricing!Name \cup {Spaced} |->
                      IF k \in Pricing!Name THEN f[k] ELSE Pricing!NoEntry]
  OBVIOUS
<1>2. Spaced \notin Pricing!Name
  BY PricesAssumption
<1>3. /\ DOMAIN g = Pricing!Name \cup {Spaced} /\ g[Spaced] = NoEntry
      /\ \A n \in Pricing!Name : g[n] = f[n]
  BY <1>1, <1>2, SameEntry DEF Whole
<1>4. Pricing!AsText(f).keys = g /\ DOMAIN Pricing!AsText(f) = {"broken", "keys"}
  BY <1>1 DEF Pricing!AsText
<1>5. TextWhole(Pricing!AsText(f))
  BY <1>3, <1>4 DEF TextWhole, Whole
<1>6. \A n \in Pricing!Name : Pricing!Normalized(g)[n] = g[n]
  BY <1>3, SameEntry DEF Pricing!Normalized
<1> QED
  BY <1>3, <1>4, <1>5, <1>6

LEMMA NormalizedWhole ==
    ASSUME NEW t, TextWhole(t)
    PROVE  Whole(Pricing!Normalized(t.keys))
BY DEF TextWhole, Whole, Pricing!Normalized

(* The user works in the visual editor.                                    *)
VisualKept ==
    /\ UNCHANGED <<catalog, loaded, fetched, put, storing, fetch, awaiting, text, merge, drift>>
    /\ changes' = changes \/ (changes > 0 /\ changes' = changes - 1)

FileOrServer ==
    \/ \E k \in Pricing!Name \cup {Spaced}, e \in Typed : Pricing!EditText(k, e)
    \/ Pricing!BreakText \/ Pricing!HandleFormat
    \/ \E c \in Appended : Pricing!HandleAppendModels(c)
    \/ \E s \in {"left", "right"} : Pricing!HandleConflictChoice(s)
    \/ \E i \in 1..Len(NameOrder) : Pricing!TurnConflict(i)
    \/ Pricing!HandleApplyConflictChoices \/ Pricing!HandleCancelConflictChoices
    \/ Pricing!HandleSubmit \/ Pricing!HandleSave
    \/ \E e \in Pricing!Editor :
          Pricing!UpdateOption(e) \/ Pricing!PutAnswered(e) \/ Pricing!PutFails(e)
    \/ Pricing!GetOptions \/ Pricing!OptionsArrive \/ Pricing!GetFails

LEMMA VisualStep == Pricing!Next => VisualKept \/ FileOrServer
<1>1. ASSUME NEW ns, Pricing!Changed(ns) PROVE VisualKept
  BY <1>1, Zenon DEF VisualKept, Pricing!Changed, Pricing!server, Pricing!file, Pricing!requests
<1>2. ASSUME NEW n, Pricing!SetSelectedModelName(n) PROVE VisualKept
  BY <1>2, Zenon DEF VisualKept, Pricing!SetSelectedModelName, Pricing!server,
     Pricing!file, Pricing!requests
<1>3. ASSUME NEW c, Pricing!CandidatesArrive(c) PROVE VisualKept
  BY <1>3, Zenon DEF VisualKept, Pricing!CandidatesArrive, Pricing!server, Pricing!file,
     Pricing!requests
<1>4. ASSUME NEW m, Pricing!Upsert(m) PROVE VisualKept
  BY <1>1, <1>4, Zenon DEF Pricing!Upsert
<1>5. ASSUME NEW n, Pricing!AddModel(n) \/ Pricing!DeleteModel(n) PROVE VisualKept
  BY <1>1, <1>5, Zenon DEF Pricing!AddModel, Pricing!DeleteModel
<1>6. ASSUME NEW x, Pricing!SetChecked(x) \/ Pricing!SetStatusFilter(x) PROVE VisualKept
  BY <1>1, <1>6, Zenon DEF Pricing!SetChecked, Pricing!SetStatusFilter
<1>7. ASSUME NEW f, NEW v, Pricing!HandleNumericFieldChange(f, v) PROVE VisualKept
  BY <1>4, <1>7, Zenon DEF Pricing!HandleNumericFieldChange
<1>8. ASSUME NEW v, Pricing!HandleBillingModeChange(v) \/ Pricing!HandleFixedPriceUnitChange(v)
      PROVE  VisualKept
  BY <1>4, <1>8, Zenon DEF Pricing!HandleBillingModeChange, Pricing!HandleFixedPriceUnitChange
<1>9. ASSUME NEW i, NEW f, NEW v, Pricing!HandleTierChange(i, f, v) PROVE VisualKept
  BY <1>4, <1>9, Zenon DEF Pricing!HandleTierChange
<1>10. ASSUME NEW i, Pricing!AddTier \/ Pricing!RemoveTier(i) \/ Pricing!ApplySelectedModelPricing
       PROVE  VisualKept
  BY <1>1, <1>4, <1>10, Zenon DEF Pricing!AddTier, Pricing!RemoveTier,
     Pricing!ApplySelectedModelPricing
<1> QED
  BY <1>2, <1>3, <1>5, <1>6, <1>7, <1>8, <1>9, <1>10, Zenon DEF Pricing!Next, FileOrServer

(* The merge goes on while the text stays the same to it, or has drifted.  *)
LEMMA MergeKept ==
    ASSUME MergeInv, merge' = merge, drift' \in BOOLEAN,
           merge.on /\ ~drift' => ~drift,
           merge.on /\ ~drift' =>
              \A n \in Pricing!Name :
                 Pricing!Normalized(text'.keys)[n] = Pricing!Normalized(text.keys)[n]
    PROVE  MergeInv'
<1>1. CASE merge.on /\ ~drift'
  BY <1>1, Zenon DEF MergeInv
<1>2. CASE ~(merge.on /\ ~drift')
  BY <1>2, Zenon DEF MergeInv
<1> QED
  BY <1>1, <1>2

LEMMA NoMergeHolds ==
    ASSUME merge' = Pricing!NoMerge, drift' \in BOOLEAN
    PROVE  MergeInv'
<1>1. \E s, e : merge' = [on |-> FALSE, base |-> e, left |-> e, right |-> e, names |-> <<>>,
                          side |-> s, index |-> 1]
  BY Zenon DEF Pricing!NoMerge
<1> QED
  BY <1>1 DEF MergeInv

(* The user works in the visual editor, or nothing happens here.           *)
LEMMA VisualKeeps ==
    ASSUME PriceInv, VisualKept \/ UNCHANGED pricing
    PROVE  PriceInv'
<1>1. /\ UNCHANGED <<catalog, loaded, fetched, put, storing, fetch, awaiting, text, merge, drift>>
      /\ changes' = changes \/ (changes > 0 /\ changes' = changes - 1)
  BY DEF VisualKept, pricing
<1>2. PriceTurns'
  BY <1>1 DEF PriceInv, PriceTurns
<1>3. PriceData'
  BY <1>1 DEF PriceInv, PriceData, Whole, TextWhole
<1>4. MergeInv'
  <2>1. MergeInv /\ drift' \in BOOLEAN
    BY <1>1 DEF PriceInv, MergeInv
  <2> QED
    BY <1>1, <2>1, MergeKept
<1> QED
  BY <1>2, <1>3, <1>4 DEF PriceInv

(* The user writes into the file: the requests stay as they are.           *)
LEMMA FileStep ==
    ASSUME PriceInv, TextWhole(text'), changes' = changes \/ (changes > 0 /\ changes' = changes - 1),
           UNCHANGED <<catalog, loaded, fetched, put, storing, fetch, awaiting>>, MergeInv'
    PROVE  PriceInv'
<1>1. PriceTurns'
  BY DEF PriceInv, PriceTurns
<1>2. changes' \in Nat
  BY DEF PriceInv, PriceData
<1>3. PriceData'
  BY <1>2 DEF PriceInv, PriceData, Whole, TextWhole
<1> QED
  BY <1>1, <1>3 DEF PriceInv

LEMMA EditTextStep ==
    ASSUME PriceInv, NEW k \in Pricing!Name \cup {Spaced}, NEW e \in Typed, Pricing!EditText(k, e)
    PROVE  PriceInv'
<1>1. /\ text' = [broken |-> FALSE, keys |-> [text.keys EXCEPT ![k] = e]]
      /\ drift' = merge.on /\ merge' = merge
      /\ changes' = changes \/ (changes > 0 /\ changes' = changes - 1)
      /\ UNCHANGED <<catalog, loaded, fetched, put, storing, fetch, awaiting>>
  BY Zenon DEF Pricing!EditText, Pricing!FileChanged, Pricing!server, Pricing!requests
<1>2. TextWhole(text) /\ MergeInv /\ (e.kind = "none" => e = NoEntry)
  BY PricesAssumption DEF PriceInv, PriceData
<1>3. TextWhole(text')
  BY <1>1, <1>2 DEF TextWhole
<1>4. drift' \in BOOLEAN /\ (merge.on => drift')
  BY <1>1, <1>2 DEF MergeInv
<1>5. MergeInv'
  BY <1>1, <1>2, <1>4, MergeKept
<1> QED
  BY <1>1, <1>3, <1>5, FileStep

LEMMA BreakTextStep ==
    ASSUME PriceInv, Pricing!BreakText
    PROVE  PriceInv'
<1>1. /\ text' = [text EXCEPT !.broken = TRUE]
      /\ drift' = merge.on /\ merge' = merge
      /\ changes' = changes \/ (changes > 0 /\ changes' = changes - 1)
      /\ UNCHANGED <<catalog, loaded, fetched, put, storing, fetch, awaiting>>
  BY Zenon DEF Pricing!BreakText, Pricing!FileChanged, Pricing!server, Pricing!requests
<1>2. TextWhole(text) /\ MergeInv
  BY DEF PriceInv, PriceData
<1>3. TextWhole(text')
  BY <1>1, <1>2 DEF TextWhole
<1>4. drift' \in BOOLEAN /\ (merge.on => drift')
  BY <1>1, <1>2 DEF MergeInv
<1>5. MergeInv'
  BY <1>1, <1>2, <1>4, MergeKept
<1> QED
  BY <1>1, <1>3, <1>5, FileStep

(* Formatting, and saving, normalize the text.                             *)
LEMMA NormalizeStep ==
    ASSUME PriceInv, text' = Pricing!AsText(Pricing!Normalized(text.keys)),
           UNCHANGED <<merge, drift>>
    PROVE  TextWhole(text') /\ MergeInv'
<1>1. TextWhole(text) /\ MergeInv
  BY DEF PriceInv, PriceData
<1>2. PICK f : f = Pricing!Normalized(text.keys)
  OBVIOUS
<1>3. Whole(f)
  BY <1>1, <1>2, NormalizedWhole
<1>4. /\ TextWhole(text')
      /\ \A n \in Pricing!Name : Pricing!Normalized(text'.keys)[n] = f[n]
  BY <1>2, <1>3, TextOf
<1>5. drift' \in BOOLEAN /\ (~drift' => ~drift)
  BY <1>1 DEF MergeInv
<1>6. MergeInv'
  BY <1>1, <1>2, <1>4, <1>5, MergeKept
<1> QED
  BY <1>4, <1>6

LEMMA FormatStep ==
    ASSUME PriceInv, Pricing!HandleFormat
    PROVE  PriceInv'
<1>1. /\ text' = Pricing!AsText(Pricing!Normalized(text.keys)) /\ UNCHANGED <<merge, drift>>
      /\ UNCHANGED <<catalog, loaded, fetched, put, storing, fetch, awaiting, changes>>
  BY Zenon DEF Pricing!HandleFormat, Pricing!server, Pricing!requests
<1>2. TextWhole(text') /\ MergeInv'
  BY <1>1, NormalizeStep
<1> QED
  BY <1>1, <1>2, FileStep

LEMMA NamesFinite == IsFiniteSet(Pricing!Name)
<1>1. NameOrder \in Seq(Pricing!Name) /\ Pricing!Name = {NameOrder[i] : i \in DOMAIN NameOrder}
  BY PricesAssumption DEF Pricing!Name, Pricing!ToSet
<1>2. NameOrder \in Surjection(1..Len(NameOrder), Pricing!Name)
  BY <1>1 DEF Surjection
<1>3. IsFiniteSet(1..Len(NameOrder))
  BY <1>1, FS_Interval
<1> QED
  BY <1>2, <1>3, FS_Surjection

(* Models are appended: at once, or after the user was asked.              *)
LEMMA AppendStep ==
    ASSUME PriceInv, NEW c \in Appended, Pricing!HandleAppendModels(c)
    PROVE  PriceInv'
<1>1. PICK f : f = Pricing!Normalized(text.keys)
  OBVIOUS
<1>2. PICK b : b = [n \in Pricing!Name |-> IF f[n].kind = "none" THEN c[n] ELSE f[n]]
  OBVIOUS
<1>3. PICK q : q = {n \in Pricing!Name : c[n].kind # "none" /\ f[n].kind # "none" /\ c[n] # f[n]}
  OBVIOUS
<1>4. /\ drift' = FALSE
      /\ changes' = changes \/ (changes > 0 /\ changes' = changes - 1)
      /\ UNCHANGED <<catalog, loaded, fetched, put, storing, fetch, awaiting>>
      /\ \/ text' = Pricing!AsText(b) /\ merge' = Pricing!NoMerge
         \/ /\ text' = text /\ q # {}
            /\ \E names \in Pricing!SetToSeqs(q) :
                  merge' = [Pricing!NoMerge EXCEPT !.on = TRUE, !.base = b, !.left = f,
                                                   !.right = c, !.names = names]
  BY <1>1, <1>2, <1>3, Zenon DEF Pricing!HandleAppendModels, Pricing!FileChanged,
     Pricing!server, Pricing!requests
<1>5. TextWhole(text) /\ MergeInv /\ Whole(c)
  BY PricesAssumption DEF PriceInv, PriceData, Whole
<1>6. Whole(f)
  BY <1>1, <1>5, NormalizedWhole
<1>7. Whole(b)
  BY <1>2, <1>5, <1>6 DEF Whole
<1>8. CASE text' = Pricing!AsText(b) /\ merge' = Pricing!NoMerge
  <2>1. TextWhole(text')
    BY <1>7, <1>8, TextOf
  <2>2. MergeInv'
    BY <1>4, <1>8, NoMergeHolds
  <2> QED
    BY <1>4, <2>1, <2>2, FileStep
<1>9. CASE /\ text' = text /\ q # {}
           /\ \E names \in Pricing!SetToSeqs(q) :
                 merge' = [Pricing!NoMerge EXCEPT !.on = TRUE, !.base = b, !.left = f,
                                                  !.right = c, !.names = names]
  <2>1. PICK p \in Pricing!SetToSeqs(q) :
                 merge' = [Pricing!NoMerge EXCEPT !.on = TRUE, !.base = b, !.left = f,
                                                  !.right = c, !.names = p]
    BY <1>9, Zenon
  <2>2. PICK z : Pricing!NoMerge = [on |-> FALSE, base |-> z, left |-> z, right |-> z,
                                    names |-> <<>>, side |-> [n \in Pricing!Name |-> NoWord],
                                    index |-> 1]
    BY Zenon DEF Pricing!NoMerge, NoWord
  <2>3. /\ DOMAIN merge' = {"on", "base", "left", "right", "names", "side", "index"}
        /\ merge'.on = TRUE /\ merge'.base = b /\ merge'.left = f /\ merge'.right = c
        /\ merge'.names = p /\ merge'.index = 1
        /\ merge'.side = [n \in Pricing!Name |-> NoWord]
    BY <2>1, <2>2
  <2>4. IsFiniteSet(Pricing!Name)
    BY NamesFinite
  <2>5. IsFiniteSet(q) /\ q \subseteq Pricing!Name
    BY <1>3, <2>4, FS_Subset
  <2>6. Cardinality(q) \in Nat /\ Cardinality(q) # 0
    BY <1>9, <2>5, FS_CardinalityType, FS_EmptySet
  <2>7. p \in [1..Cardinality(q) -> q]
    <3>1. Pricing!Cardinality(q) = Cardinality(q)
      BY Zenon DEF Pricing!Cardinality, Cardinality
    <3> QED
      BY <3>1 DEF Pricing!SetToSeqs
  <2>8. p \in Seq(Pricing!Name) /\ Len(p) = Cardinality(q) /\ \A i \in 1..Len(p) : p[i] \in q
    BY <2>5, <2>6, <2>7
  <2>9. \A i \in 1..Len(p) : f[p[i]].kind # "none" /\ c[p[i]].kind # "none"
    BY <1>3, <2>8
  <2>10. 1 \in 1..Len(p)
    BY <2>6, <2>8
  <2>11. MergeWhole(merge')
    <3>1. DOMAIN merge'.side = Pricing!Name /\ \A n \in Pricing!Name : merge'.side[n] = NoWord
      BY <2>3
    <3> QED
      BY <1>2, <1>5, <1>6, <2>3, <2>8, <2>9, <2>10, <3>1 DEF MergeWhole
  <2>12. MergeInv'
    <3>1. \A n \in Pricing!Name : merge'.left[n] = Pricing!Normalized(text'.keys)[n]
      BY <1>1, <1>9, <2>3
    <3>2. merge'.on \in BOOLEAN /\ drift' \in BOOLEAN
      BY <1>4, <2>3
    <3> QED
      BY <2>3, <2>11, <3>1, <3>2, Zenon DEF MergeInv
  <2> QED
    BY <1>4, <1>5, <1>9, <2>12, FileStep
<1> QED
  BY <1>4, <1>8, <1>9

(* The user answers for one of the models, turns the page, ends the merge. *)
LEMMA SideStep ==
    ASSUME PriceInv, NEW s \in {"left", "right"}, Pricing!HandleConflictChoice(s)
    PROVE  PriceInv'
<1>1. /\ merge.on
      /\ merge' = [merge EXCEPT !.side[merge.names[merge.index]] = s,
                                !.index = IF merge.index < Len(merge.names) THEN merge.index + 1
                                          ELSE merge.index]
      /\ UNCHANGED <<text, drift>>
      /\ UNCHANGED <<catalog, loaded, fetched, put, storing, fetch, awaiting, changes>>
  BY Zenon DEF Pricing!HandleConflictChoice, Pricing!MergeStep, Pricing!server, Pricing!requests
<1>2. TextWhole(text) /\ MergeInv
  BY DEF PriceInv, PriceData
<1>3. /\ DOMAIN merge' = {"on", "base", "left", "right", "names", "side", "index"}
      /\ merge'.on = merge.on /\ merge'.base = merge.base /\ merge'.left = merge.left
      /\ merge'.right = merge.right /\ merge'.names = merge.names
      /\ merge'.index = IF merge.index < Len(merge.names) THEN merge.index + 1 ELSE merge.index
      /\ merge'.side = [merge.side EXCEPT ![merge.names[merge.index]] = s]
  BY <1>1, <1>2 DEF MergeInv
<1>4. merge'.on \in BOOLEAN /\ drift' \in BOOLEAN
  BY <1>1, <1>2, <1>3 DEF MergeInv
<1>5. MergeWhole(merge)
  BY <1>1, <1>2, Zenon DEF MergeInv
<1>6. MergeWhole(merge')
  <2>1. merge'.index \in 1..Len(merge.names)
    BY <1>3, <1>5 DEF MergeWhole
  <2>2. /\ DOMAIN merge'.side = Pricing!Name
        /\ \A n \in Pricing!Name : merge'.side[n] # NoWord =>
              merge.left[n].kind # "none" /\ merge.right[n].kind # "none"
    BY <1>3, <1>5 DEF MergeWhole
  <2> QED
    BY <1>3, <1>5, <2>1, <2>2 DEF MergeWhole
<1>7. MergeInv'
  <2>1. merge.on /\ ~drift' =>
           \A n \in Pricing!Name : merge'.left[n] = Pricing!Normalized(text'.keys)[n]
    BY <1>1, <1>2, <1>3 DEF MergeInv
  <2> QED
    BY <1>3, <1>4, <1>6, <2>1, Zenon DEF MergeInv
<1> QED
  BY <1>1, <1>2, <1>7, FileStep

LEMMA TurnStep ==
    ASSUME PriceInv, NEW i \in 1..Len(NameOrder), Pricing!TurnConflict(i)
    PROVE  PriceInv'
<1>1. /\ merge.on /\ i \in DOMAIN merge.names
      /\ merge' = [merge EXCEPT !.index = i]
      /\ UNCHANGED <<text, drift>>
      /\ UNCHANGED <<catalog, loaded, fetched, put, storing, fetch, awaiting, changes>>
  BY Zenon DEF Pricing!TurnConflict, Pricing!MergeStep, Pricing!server, Pricing!requests
<1>2. TextWhole(text) /\ MergeInv
  BY DEF PriceInv, PriceData
<1>3. /\ DOMAIN merge' = {"on", "base", "left", "right", "names", "side", "index"}
      /\ merge'.on = merge.on /\ merge'.base = merge.base /\ merge'.left = merge.left
      /\ merge'.right = merge.right /\ merge'.names = merge.names
      /\ merge'.index = i /\ merge'.side = merge.side
  BY <1>1, <1>2 DEF MergeInv
<1>4. merge'.on \in BOOLEAN /\ drift' \in BOOLEAN
  BY <1>1, <1>2, <1>3 DEF MergeInv
<1>5. MergeWhole(merge)
  BY <1>1, <1>2, Zenon DEF MergeInv
<1>6. MergeWhole(merge')
  BY <1>1, <1>3, <1>5 DEF MergeWhole
<1>7. MergeInv'
  <2>1. merge.on /\ ~drift' =>
           \A n \in Pricing!Name : merge'.left[n] = Pricing!Normalized(text'.keys)[n]
    BY <1>1, <1>2, <1>3 DEF MergeInv
  <2> QED
    BY <1>3, <1>4, <1>6, <2>1, Zenon DEF MergeInv
<1> QED
  BY <1>1, <1>2, <1>7, FileStep

LEMMA CancelStep ==
    ASSUME PriceInv, Pricing!HandleCancelConflictChoices
    PROVE  PriceInv'
<1>1. /\ merge' = Pricing!NoMerge /\ drift' = FALSE /\ text' = text
      /\ UNCHANGED <<catalog, loaded, fetched, put, storing, fetch, awaiting, changes>>
  BY Zenon DEF Pricing!HandleCancelConflictChoices, Pricing!MergeStep, Pricing!server,
     Pricing!requests
<1>2. MergeInv'
  BY <1>1, NoMergeHolds
<1>3. TextWhole(text')
  BY <1>1 DEF PriceInv, PriceData
<1> QED
  BY <1>1, <1>2, <1>3, FileStep

(* What the end of a merge writes: for a model with a choice its side, for *)
(* every other the appended entry where there was none.                    *)
LEMMA MergeResult ==
    ASSUME PriceInv, Pricing!HandleApplyConflictChoices
    PROVE  \E f : /\ text' = Pricing!AsText(f) /\ DOMAIN f = Pricing!Name
                  /\ \A n \in Pricing!Name :
                        \/ merge.side[n] = "left" /\ f[n] = merge.left[n]
                        \/ merge.side[n] = "right" /\ f[n] = merge.right[n]
                        \/ /\ merge.side[n] \notin {"left", "right"} /\ f[n] = merge.base[n]
<1>1. PICK f : f = [n \in Pricing!Name |-> CASE merge.side[n] = "left" -> merge.left[n]
                                             [] merge.side[n] = "right" -> merge.right[n]
                                             [] OTHER -> merge.base[n]]
  OBVIOUS
<1>2. text' = Pricing!AsText(f)
  BY <1>1, Zenon DEF Pricing!HandleApplyConflictChoices
<1>3. \A n \in Pricing!Name :
         \/ merge.side[n] = "left" /\ f[n] = merge.left[n]
         \/ merge.side[n] = "right" /\ f[n] = merge.right[n]
         \/ /\ merge.side[n] \notin {"left", "right"} /\ f[n] = merge.base[n]
  BY <1>1
<1> QED
  BY <1>1, <1>2, <1>3

LEMMA ApplyStep ==
    ASSUME PriceInv, Pricing!HandleApplyConflictChoices
    PROVE  PriceInv'
<1>1. /\ merge.on /\ merge' = Pricing!NoMerge /\ drift' = FALSE
      /\ UNCHANGED <<catalog, loaded, fetched, put, storing, fetch, awaiting, changes>>
  BY Zenon DEF Pricing!HandleApplyConflictChoices, Pricing!MergeStep, Pricing!server,
     Pricing!requests
<1>2. MergeWhole(merge)
  BY <1>1, Zenon DEF PriceInv, MergeInv
<1>3. PICK f : /\ text' = Pricing!AsText(f) /\ DOMAIN f = Pricing!Name
               /\ \A n \in Pricing!Name : f[n] \in {merge.left[n], merge.right[n]}
  <2>1. PICK f : /\ text' = Pricing!AsText(f) /\ DOMAIN f = Pricing!Name
                 /\ \A n \in Pricing!Name :
                        \/ merge.side[n] = "left" /\ f[n] = merge.left[n]
                        \/ merge.side[n] = "right" /\ f[n] = merge.right[n]
                        \/ /\ merge.side[n] \notin {"left", "right"} /\ f[n] = merge.base[n]
    BY MergeResult
  <2> QED
    BY <1>2, <2>1 DEF MergeWhole
<1>4. Whole(f)
  BY <1>2, <1>3 DEF MergeWhole, Whole
<1>5. TextWhole(text')
  BY <1>3, <1>4, TextOf
<1>6. MergeInv'
  BY <1>1, NoMergeHolds
<1> QED
  BY <1>1, <1>5, <1>6, FileStep

(* A save: what is sent has an entry for every model.                      *)
LEMMA PriceSendStep ==
    ASSUME PriceInv, NEW e \in Pricing!Editor, NEW v, Whole(v), Pricing!Send(e, v),
           TextWhole(text'), MergeInv'
    PROVE  PriceInv'
<1>1. /\ storing' = [storing EXCEPT ![e] = "put"]
      /\ put' = [put EXCEPT ![e] = [st |-> "sent", value |-> v, base |-> loaded,
                                    touched |-> touched[e], known |-> known]]
      /\ UNCHANGED <<catalog, loaded, fetched, fetch, awaiting, changes>>
  BY Zenon DEF Pricing!Send, Pricing!server
<1>2. PriceTurns'
  BY <1>1 DEF PriceInv, PriceTurns
<1>3. \A d \in Pricing!Editor : put'[d].st # "none" => Whole(put'[d].value)
  <2>1. ASSUME NEW d \in Pricing!Editor PROVE put'[d].st # "none" => Whole(put'[d].value)
    <3>1. d = e \/ put'[d] = put[d]
      BY <1>1 DEF PriceInv, PriceTurns
    <3>2. CASE d = e
      <4>1. put'[d].value = v
        BY <1>1, <3>2 DEF PriceInv, PriceTurns
      <4> QED
        BY <4>1
    <3>3. CASE put'[d] = put[d]
      BY <3>3, Zenon DEF PriceInv, PriceData
    <3> QED
      BY <3>1, <3>2, <3>3
  <2> QED
    BY <2>1
<1>4. PriceData'
  BY <1>1, <1>3 DEF PriceInv, PriceData, Whole
<1> QED
  BY <1>2, <1>4 DEF PriceInv

(* What a row of the visual editor becomes: a price, or nothing.           *)
LEMMA OutputEntry ==
    ASSUME NEW m
    PROVE  Pricing!Output(m).kind = "none" => Pricing!Output(m) = NoEntry
<1>1. Pricing!Output(m) = Pricing!NoEntry \/ \E x : Pricing!Output(m) = Pricing!Entry(x)
  BY Zenon DEF Pricing!Output
<1>2. \A x : Pricing!Entry(x).kind = "price"
  BY DEF Pricing!Entry, Pricing!NoEntry
<1> QED
  BY <1>1, <1>2, SameEntry

LEMMA PriceSubmitStep ==
    ASSUME PriceInv, Pricing!HandleSubmit
    PROVE  PriceInv'
<1>1. PICK v : v = [n \in Pricing!Name |-> Pricing!Output(models[n])]
  OBVIOUS
<1>2. Pricing!Send("visual", v) /\ UNCHANGED <<text, merge, drift>>
  BY <1>1, Zenon DEF Pricing!HandleSubmit, Pricing!file
<1>3. Whole(v)
  BY <1>1, OutputEntry DEF Whole
<1>4. TextWhole(text') /\ MergeInv /\ drift' \in BOOLEAN
  BY <1>2 DEF PriceInv, PriceData, MergeInv
<1>5. MergeInv'
  BY <1>2, <1>4, MergeKept
<1>6. "visual" \in Pricing!Editor
  BY DEF Pricing!Editor
<1> QED
  BY <1>2, <1>3, <1>4, <1>5, <1>6, PriceSendStep

LEMMA SaveFileStep ==
    ASSUME PriceInv, Pricing!HandleSave
    PROVE  PriceInv'
<1>1. PICK v : v = Pricing!Normalized(text.keys)
  OBVIOUS
<1>2. /\ text' = Pricing!AsText(Pricing!Normalized(text.keys)) /\ UNCHANGED <<merge, drift>>
      /\ Pricing!Send("file", v)
  BY <1>1, Zenon DEF Pricing!HandleSave
<1>3. Whole(v)
  BY <1>1, NormalizedWhole DEF PriceInv, PriceData
<1>4. TextWhole(text') /\ MergeInv'
  BY <1>2, NormalizeStep
<1>5. "file" \in Pricing!Editor
  BY DEF Pricing!Editor
<1> QED
  BY <1>2, <1>3, <1>4, <1>5, PriceSendStep

(* The text and the merge stay while a request goes on.                    *)
LEMMA RequestStep ==
    ASSUME PriceInv, UNCHANGED <<text, merge, drift, changes>>, PriceTurns',
           Whole(catalog'), Whole(fetched'), Whole(loaded'),
           \A e \in Pricing!Editor : put'[e].st # "none" => Whole(put'[e].value)
    PROVE  PriceInv'
<1>1. PriceData'
  BY DEF PriceInv, PriceData, TextWhole, Whole
<1>2. MergeInv /\ drift' \in BOOLEAN
  BY DEF PriceInv, MergeInv
<1>3. MergeInv'
  BY <1>2, MergeKept
<1> QED
  BY <1>1, <1>3 DEF PriceInv

LEMMA PriceStoreStep ==
    ASSUME PriceInv, NEW e \in Pricing!Editor, Pricing!UpdateOption(e)
    PROVE  PriceInv'
<1>1. PICK w : w \in {"refused", "stored"} /\ put' = [put EXCEPT ![e].st = w]
  BY Zenon DEF Pricing!UpdateOption
<1>2. /\ put[e].st = "sent" /\ catalog' = put[e].value
      /\ UNCHANGED <<text, merge, drift, changes, fetched, loaded, storing, fetch, awaiting>>
  BY Zenon DEF Pricing!UpdateOption, Pricing!file
<1>3. \A d \in Pricing!Editor :
         /\ DOMAIN put'[d] = DOMAIN put[d] /\ put'[d].value = put[d].value
         /\ put'[d].st = "none" <=> put[d].st = "none"
  BY <1>1, <1>2 DEF PriceInv, PriceTurns
<1>4. PriceTurns'
  <2>1. DOMAIN put' = DOMAIN put
    BY <1>1
  <2> QED
    BY <1>2, <1>3, <2>1 DEF PriceInv, PriceTurns
<1>5. Whole(catalog') /\ Whole(fetched') /\ Whole(loaded')
  BY <1>2 DEF PriceInv, PriceData
<1>6. \A d \in Pricing!Editor : put'[d].st # "none" => Whole(put'[d].value)
  BY <1>3 DEF PriceInv, PriceData
<1> QED
  BY <1>2, <1>4, <1>5, <1>6, RequestStep

LEMMA PriceAnswerStep ==
    ASSUME PriceInv, NEW e \in Pricing!Editor, Pricing!PutAnswered(e) \/ Pricing!PutFails(e)
    PROVE  PriceInv'
<1>1. /\ put' = [put EXCEPT ![e] = Pricing!NoPut]
      /\ UNCHANGED <<text, merge, drift, changes, catalog, fetched, loaded>>
      /\ \/ /\ storing' = [storing EXCEPT ![e] = "refresh"]
            /\ fetch' = IF fetch = "none" THEN "asked" ELSE fetch
            /\ awaiting' = awaiting \cup {e}
         \/ /\ storing' = [storing EXCEPT ![e] = "idle"] /\ UNCHANGED <<fetch, awaiting>>
  BY Zenon DEF Pricing!PutAnswered, Pricing!PutFails, Pricing!file, Pricing!server
<1>2. \A d \in Pricing!Editor : d # e => put'[d] = put[d]
  BY <1>1 DEF PriceInv, PriceTurns
<1>3. put'[e].st = "none" /\ DOMAIN put'[e] = {"st", "value", "base", "touched", "known"}
  BY <1>1 DEF PriceInv, PriceTurns, Pricing!NoPut
<1>4. PriceTurns'
  <2>1. DOMAIN put' = DOMAIN put
    BY <1>1
  <2> QED
    BY <1>1, <1>2, <1>3, <2>1 DEF PriceInv, PriceTurns
<1>5. Whole(catalog') /\ Whole(fetched') /\ Whole(loaded')
  BY <1>1 DEF PriceInv, PriceData
<1>6. \A d \in Pricing!Editor : put'[d].st # "none" => Whole(put'[d].value)
  BY <1>2, <1>3 DEF PriceInv, PriceData
<1> QED
  BY <1>1, <1>4, <1>5, <1>6, RequestStep

LEMMA PriceAskStep ==
    ASSUME PriceInv, Pricing!GetOptions \/ Pricing!GetFails
    PROVE  PriceInv'
<1>1. /\ UNCHANGED <<text, merge, drift, changes, catalog, loaded, put>>
      /\ fetched' \in {fetched, catalog}
      /\ \/ fetch' = "read" /\ UNCHANGED <<storing, awaiting>>
         \/ fetch' = "none" /\ awaiting' = {} /\ storing' = Pricing!Rest
  BY Zenon DEF Pricing!GetOptions, Pricing!GetFails, Pricing!file, Pricing!server
<1>2. PriceTurns'
  BY <1>1 DEF PriceInv, PriceTurns, Pricing!Rest
<1>3. Whole(catalog') /\ Whole(fetched') /\ Whole(loaded')
  BY <1>1 DEF PriceInv, PriceData
<1>4. \A d \in Pricing!Editor : put'[d].st # "none" => Whole(put'[d].value)
  BY <1>1 DEF PriceInv, PriceData
<1> QED
  BY <1>1, <1>2, <1>3, <1>4, RequestStep

LEMMA PriceArriveStep ==
    ASSUME PriceInv, Pricing!OptionsArrive
    PROVE  PriceInv'
<1>1. /\ UNCHANGED <<changes, catalog, fetched, put>> /\ loaded' = fetched
      /\ fetch' = "none" /\ awaiting' = {} /\ storing' = Pricing!Rest
      /\ \/ UNCHANGED <<text, merge, drift>>
         \/ text' = Pricing!AsText(fetched) /\ merge' = Pricing!NoMerge /\ drift' = FALSE
  BY Zenon DEF Pricing!OptionsArrive, Pricing!file, Pricing!server
<1>2. PriceTurns'
  BY <1>1 DEF PriceInv, PriceTurns, Pricing!Rest
<1>3. Whole(catalog') /\ Whole(fetched') /\ Whole(loaded') /\ Whole(fetched)
  BY <1>1 DEF PriceInv, PriceData
<1>4. \A d \in Pricing!Editor : put'[d].st # "none" => Whole(put'[d].value)
  BY <1>1 DEF PriceInv, PriceData
<1>5. CASE UNCHANGED <<text, merge, drift>>
  BY <1>1, <1>2, <1>3, <1>4, <1>5, RequestStep
<1>6. CASE text' = Pricing!AsText(fetched) /\ merge' = Pricing!NoMerge /\ drift' = FALSE
  <2>1. TextWhole(text')
    BY <1>3, <1>6, TextOf
  <2>2. MergeInv'
    BY <1>6, NoMergeHolds
  <2>3. PriceData'
    BY <1>1, <1>3, <1>4, <2>1 DEF PriceInv, PriceData
  <2> QED
    BY <1>2, <2>2, <2>3 DEF PriceInv
<1> QED
  BY <1>1, <1>5, <1>6

LEMMA PriceInit == Init => PriceInv
<1> SUFFICES ASSUME Init PROVE PriceInv
  OBVIOUS
<1>1. /\ \E s \in Starts : catalog = s.catalog /\ changes = s.changes
      /\ loaded = Pricing!Empty /\ fetched = Pricing!Empty
      /\ text = Pricing!AsText(Pricing!Empty) /\ merge = Pricing!NoMerge /\ drift = FALSE
      /\ storing = [e \in Pricing!Editor |-> "idle"]
      /\ put = [e \in Pricing!Editor |-> Pricing!NoPut] /\ fetch = "asked"
  BY Zenon DEF Init, Pricing!Init
<1>2. Whole(Pricing!Empty)
  BY SameEntry DEF Whole, Pricing!Empty
<1>3. Whole(catalog) /\ changes \in Nat
  BY <1>1, PricesAssumption DEF Whole
<1>4. \A e \in Pricing!Editor :
         put[e].st = "none" /\ DOMAIN put[e] = {"st", "value", "base", "touched", "known"}
  BY <1>1 DEF Pricing!NoPut
<1>5. TextWhole(text)
  BY <1>1, <1>2, TextOf
<1>6. PriceTurns
  BY <1>1, <1>4 DEF PriceTurns
<1>7. PriceData
  BY <1>1, <1>2, <1>3, <1>4, <1>5 DEF PriceData
<1>8. MergeInv
  <2>1. \E s, e : merge = [on |-> FALSE, base |-> e, left |-> e, right |-> e, names |-> <<>>,
                           side |-> s, index |-> 1]
    BY <1>1, Zenon DEF Pricing!NoMerge
  <2>2. /\ merge.on = FALSE
        /\ DOMAIN merge = {"on", "base", "left", "right", "names", "side", "index"}
    BY <2>1
  <2>3. drift \in BOOLEAN
    BY <1>1, Zenon
  <2> QED
    BY <2>2, <2>3, Zenon DEF MergeInv
<1> QED
  BY <1>6, <1>7, <1>8 DEF PriceInv

LEMMA PriceKept == PriceInv /\ [Next]_vars => PriceInv'
<1> SUFFICES ASSUME PriceInv, [Next]_vars PROVE PriceInv'
  OBVIOUS
<1>1. VisualKept \/ UNCHANGED pricing \/ FileOrServer
  BY PriceStep, VisualStep
<1>2. CASE VisualKept \/ UNCHANGED pricing
  BY <1>2, VisualKeeps
<1>3. CASE FileOrServer
  BY <1>3, EditTextStep, BreakTextStep, FormatStep, AppendStep, SideStep, TurnStep, ApplyStep,
     CancelStep, PriceSubmitStep, SaveFileStep, PriceStoreStep, PriceAnswerStep, PriceAskStep, PriceArriveStep, Zenon
     DEF FileOrServer
<1> QED
  BY <1>1, <1>2, <1>3

LEMMA PriceInductive == Spec => []PriceInv
BY PriceInit, PriceKept, PTL DEF Spec

LEMMA PriceSpinners == PriceInv => Pricing!SpinnersStop
BY DEF PriceInv, PriceTurns, Pricing!SpinnersStop

(* Of the steps that end a merge, only the one that applies the choices    *)
(* changes the text, loads nothing and appends nothing.                    *)
LEMMA MergeEnds ==
    ASSUME PriceInv, [Next]_vars,
           merge.on, ~merge'.on, text' # text, loaded' = loaded, changes' = changes
    PROVE  Pricing!HandleApplyConflictChoices
<1>1. VisualKept \/ UNCHANGED pricing \/ FileOrServer
  BY PriceStep, VisualStep
<1>2. merge' # merge
  OBVIOUS
<1>3. ~(VisualKept \/ UNCHANGED pricing)
  BY <1>2, Zenon DEF VisualKept, pricing
<1>4. changes \in Nat
  BY DEF PriceInv, PriceData
<1>5. ~(changes > 0 /\ changes' = changes - 1)
  BY <1>4
<1>6. ASSUME NEW c, Pricing!HandleAppendModels(c) PROVE FALSE
  BY <1>5, <1>6, Zenon DEF Pricing!HandleAppendModels, Pricing!FileChanged
<1>7. ~Pricing!OptionsArrive
  BY <1>2, Zenon DEF Pricing!OptionsArrive, Pricing!file
<1>8. ASSUME NEW k, NEW e, Pricing!EditText(k, e) PROVE FALSE
  BY <1>2, <1>8, Zenon DEF Pricing!EditText
<1>9. ASSUME NEW s, Pricing!HandleConflictChoice(s) \/ Pricing!TurnConflict(s) PROVE FALSE
  BY <1>9, Zenon DEF Pricing!HandleConflictChoice, Pricing!TurnConflict
<1>10. ASSUME NEW e, Pricing!UpdateOption(e) \/ Pricing!PutAnswered(e) \/ Pricing!PutFails(e)
       PROVE  FALSE
  BY <1>2, <1>10, Zenon DEF Pricing!UpdateOption, Pricing!PutAnswered, Pricing!PutFails,
     Pricing!file
<1>11. ~Pricing!BreakText /\ ~Pricing!HandleFormat /\ ~Pricing!HandleCancelConflictChoices
  BY <1>2, Zenon DEF Pricing!BreakText, Pricing!HandleFormat, Pricing!HandleCancelConflictChoices
<1>12. ~Pricing!HandleSubmit /\ ~Pricing!HandleSave /\ ~Pricing!GetOptions /\ ~Pricing!GetFails
  BY <1>2, Zenon DEF Pricing!HandleSubmit, Pricing!HandleSave, Pricing!GetOptions,
     Pricing!GetFails, Pricing!file
<1> QED
  BY <1>1, <1>3, <1>6, <1>7, <1>8, <1>9, <1>10, <1>11, <1>12, Zenon DEF FileOrServer

(* A merge changes what was chosen and nothing else.                       *)
LEMMA MergeFaithful == Spec => Pricing!MergeAsChosen
<1> DEFINE A == /\ merge.on /\ ~merge'.on /\ text' # text /\ ~drift
                /\ loaded' = loaded /\ changes' = changes
                => \A n \in Pricing!Name :
                     LET old == Pricing!Normalized(text.keys)[n]
                         new == text'.keys[n]
                     IN  CASE merge.right[n].kind = "none" -> new = old
                           [] merge.right[n].kind # "none" /\ old.kind = "none"
                                -> new = merge.right[n]
                           [] OTHER -> new \in {old, merge.right[n]} /\
                                       (new # old => merge.side[n] = "right")
<1>1. ASSUME PriceInv, [Next]_vars, merge.on, ~merge'.on, text' # text, ~drift,
             loaded' = loaded, changes' = changes, NEW n \in Pricing!Name
      PROVE  LET old == Pricing!Normalized(text.keys)[n]
                 new == text'.keys[n]
             IN  CASE merge.right[n].kind = "none" -> new = old
                   [] merge.right[n].kind # "none" /\ old.kind = "none" -> new = merge.right[n]
                   [] OTHER -> new \in {old, merge.right[n]} /\
                               (new # old => merge.side[n] = "right")
  <2>1. Pricing!HandleApplyConflictChoices
    BY <1>1, MergeEnds
  <2>2. MergeWhole(merge) /\ merge.left[n] = Pricing!Normalized(text.keys)[n]
    BY <1>1, Zenon DEF PriceInv, MergeInv
  <2>3. PICK f : /\ text' = Pricing!AsText(f) /\ DOMAIN f = Pricing!Name
                 /\ \A m \in Pricing!Name :
                        \/ merge.side[m] = "left" /\ f[m] = merge.left[m]
                        \/ merge.side[m] = "right" /\ f[m] = merge.right[m]
                        \/ /\ merge.side[m] \notin {"left", "right"} /\ f[m] = merge.base[m]
    BY <1>1, <2>1, MergeResult
  <2>4. Whole(f)
    BY <2>2, <2>3 DEF MergeWhole, Whole
  <2>5. text'.keys[n] = f[n]
    BY <1>1, <2>3, <2>4, TextOf
  <2>6. /\ merge.base[n] = IF merge.left[n].kind = "none" THEN merge.right[n] ELSE merge.left[n]
        /\ merge.side[n] \in {"left", "right"} =>
              merge.left[n].kind # "none" /\ merge.right[n].kind # "none"
        /\ merge.left[n].kind = "none" => merge.left[n] = NoEntry
        /\ merge.right[n].kind = "none" => merge.right[n] = NoEntry
    <3>1. "left" # NoWord /\ "right" # NoWord
      BY Zenon DEF NoWord
    <3> QED
      BY <1>1, <2>2, <3>1 DEF MergeWhole, Whole
  <2> QED
    BY <1>1, <2>2, <2>3, <2>5, <2>6
<1>2. PriceInv /\ [Next]_vars => [A]_(Pricing!vars)
  BY <1>1, Zenon
<1> QED
  BY <1>2, PriceInductive, PTL DEF Spec, Pricing!MergeAsChosen

-----------------------------------------------------------------------------
(* Unless a request failed, was refused or joined a GET that was read      *)
(* before, what the editors have loaded is the option, or a request is the *)
(* reason why not; and an editor in which nothing was typed shows what it  *)
(* has loaded.                                                             *)
ShowInv ==
    /\ missed \in BOOLEAN /\ late \in BOOLEAN /\ DOMAIN touched = Pricing!Editor
    /\ fetch \in {"none", "asked", "read"}
    /\ ~missed /\ ~late =>
          \/ \E e \in Pricing!Editor : put[e].st # "none"
          \/ fetch = "asked" \/ (fetch = "read" /\ fetched = catalog)
          \/ fetch = "none" /\ loaded = catalog
    /\ touched["visual"] = {} => models = Pricing!BuildModels(loaded, Pricing!Names)
    /\ touched["file"] = {} => ~merge.on /\ text = Pricing!AsText(loaded)

(* A step in the visual editor, or an answer that builds its rows anew.    *)
VisualShown ==
    /\ UNCHANGED <<catalog, loaded, fetched, put, fetch, text, merge, missed, late>>
    /\ \/ \E ns : /\ touched' = [touched EXCEPT !["visual"] = @ \cup ns]
                  /\ ns # {} \/ UNCHANGED <<models, candidates>>
       \/ UNCHANGED <<models, candidates, touched>>
       \/ /\ touched' = [touched EXCEPT !["visual"] = {}]
          /\ models' = Pricing!BuildModels(loaded, Pricing!Names')

LEMMA VisualShows == Pricing!Next => VisualShown \/ FileOrServer
<1>1. ASSUME NEW ns, Pricing!Changed(ns), ns # {} \/ UNCHANGED models PROVE VisualShown
  BY <1>1, Zenon DEF VisualShown, Pricing!Changed, Pricing!server, Pricing!file, Pricing!requests
<1>2. ASSUME NEW n, Pricing!SetSelectedModelName(n) PROVE VisualShown
  BY <1>2, Zenon DEF VisualShown, Pricing!SetSelectedModelName, Pricing!server, Pricing!Show,
     Pricing!file, Pricing!requests
<1>3. ASSUME NEW c, Pricing!CandidatesArrive(c) PROVE VisualShown
  BY <1>3, Zenon DEF VisualShown, Pricing!CandidatesArrive, Pricing!server, Pricing!file,
     Pricing!requests, Pricing!Show, Pricing!Names
<1>4. ASSUME NEW m, Pricing!Upsert(m) PROVE VisualShown
  BY <1>1, <1>4, Zenon DEF Pricing!Upsert
<1>5. ASSUME NEW n, Pricing!AddModel(n) \/ Pricing!DeleteModel(n) PROVE VisualShown
  BY <1>1, <1>5, Zenon DEF Pricing!AddModel, Pricing!DeleteModel
<1>6. ASSUME NEW x, Pricing!SetChecked(x) \/ Pricing!SetStatusFilter(x) PROVE VisualShown
  BY <1>1, <1>6, Zenon DEF Pricing!SetChecked, Pricing!SetStatusFilter, Pricing!Show
<1>7. ASSUME NEW f, NEW v, Pricing!HandleNumericFieldChange(f, v) PROVE VisualShown
  BY <1>4, <1>7, Zenon DEF Pricing!HandleNumericFieldChange
<1>8. ASSUME NEW v, Pricing!HandleBillingModeChange(v) \/ Pricing!HandleFixedPriceUnitChange(v)
      PROVE  VisualShown
  BY <1>4, <1>8, Zenon DEF Pricing!HandleBillingModeChange, Pricing!HandleFixedPriceUnitChange
<1>9. ASSUME NEW i, NEW f, NEW v, Pricing!HandleTierChange(i, f, v) PROVE VisualShown
  BY <1>4, <1>9, Zenon DEF Pricing!HandleTierChange
<1>10. ASSUME NEW i, Pricing!AddTier \/ Pricing!RemoveTier(i) \/ Pricing!ApplySelectedModelPricing
       PROVE  VisualShown
  BY <1>1, <1>4, <1>10, Zenon DEF Pricing!AddTier, Pricing!RemoveTier,
     Pricing!ApplySelectedModelPricing
<1> QED
  BY <1>2, <1>3, <1>5, <1>6, <1>7, <1>8, <1>9, <1>10, Zenon DEF Pricing!Next, FileOrServer

LEMMA Editors == Pricing!Editor = {"visual", "file"}
BY DEF Pricing!Editor

LEMMA VisualShowKeeps ==
    ASSUME ShowInv, VisualShown \/ UNCHANGED pricing
    PROVE  ShowInv'
<1>1. /\ UNCHANGED <<catalog, loaded, fetched, put, fetch, text, merge, missed, late>>
      /\ \/ \E ns : /\ touched' = [touched EXCEPT !["visual"] = @ \cup ns]
                    /\ ns # {} \/ UNCHANGED <<models, candidates>>
         \/ UNCHANGED <<models, candidates, touched>>
         \/ /\ touched' = [touched EXCEPT !["visual"] = {}]
            /\ models' = Pricing!BuildModels(loaded, Pricing!Names')
  BY Zenon DEF VisualShown, pricing
<1>2. DOMAIN touched = {"visual", "file"}
  BY Editors DEF ShowInv
<1>3. DOMAIN touched' = DOMAIN touched /\ touched'["file"] = touched["file"]
  BY <1>1, <1>2
<1>4. \/ /\ UNCHANGED <<models, candidates>>
         /\ touched'["visual"] = {} => touched["visual"] = {}
      \/ touched'["visual"] # {}
      \/ models' = Pricing!BuildModels(loaded, Pricing!Names')
  BY <1>1, <1>2
<1>5. UNCHANGED candidates => Pricing!Names' = Pricing!Names
  BY Zenon DEF Pricing!Names
<1>6. touched'["visual"] = {} => models' = Pricing!BuildModels(loaded', Pricing!Names')
  BY <1>1, <1>4, <1>5, Zenon DEF ShowInv
<1> QED
  BY <1>1, <1>3, <1>6, Zenon DEF ShowInv

(* Two texts from the same prices are the same.                            *)
LEMMA SameText ==
    ASSUME NEW f, NEW g, \A n \in Pricing!Name : f[n] = g[n]
    PROVE  Pricing!AsText(f) = Pricing!AsText(g)
BY DEF Pricing!AsText

(* The user works on the file: it is touched, or the text stays what it    *)
(* is.                                                                     *)
LEMMA FileShows ==
    ASSUME ShowInv, UNCHANGED <<catalog, loaded, fetched, put, fetch, missed, late, models,
                                candidates>>,
           \/ UNCHANGED touched
           \/ \E ns : touched' = [touched EXCEPT !["file"] = @ \cup ns],
           touched'["file"] = {} => ~merge'.on /\ text' = Pricing!AsText(loaded)
    PROVE  ShowInv'
<1>1. DOMAIN touched = {"visual", "file"}
  BY Editors DEF ShowInv
<1>2. DOMAIN touched' = DOMAIN touched /\ touched'["visual"] = touched["visual"]
  BY <1>1
<1>3. Pricing!Names' = Pricing!Names
  BY Zenon DEF Pricing!Names
<1> QED
  BY <1>2, <1>3, Zenon DEF ShowInv

LEMMA TypingShows ==
    ASSUME PriceInv, ShowInv,
           \/ \E k, e : Pricing!EditText(k, e)
           \/ Pricing!BreakText
    PROVE  ShowInv'
<1>1. PICK ns : /\ ns # {} /\ touched' = [touched EXCEPT !["file"] = @ \cup ns]
                /\ UNCHANGED <<catalog, loaded, fetched, put, fetch, missed, late, models,
                               candidates>>
  <2>1. Pricing!Name # {}
    BY PricesAssumption
  <2>2. ASSUME NEW ns, Pricing!FileChanged(ns)
        PROVE  /\ touched' = [touched EXCEPT !["file"] = @ \cup ns]
               /\ UNCHANGED <<catalog, loaded, fetched, put, fetch, missed, late, models,
                              candidates>>
    BY <2>2, Zenon DEF Pricing!FileChanged, Pricing!server, Pricing!screen, Pricing!requests
  <2>3. \E ns : ns # {} /\ Pricing!FileChanged(ns)
    BY <2>1, Zenon DEF Pricing!EditText, Pricing!BreakText
  <2> QED
    BY <2>2, <2>3
<1>2. DOMAIN touched = {"visual", "file"}
  BY Editors DEF ShowInv
<1>3. touched'["file"] # {}
  BY <1>1, <1>2
<1> QED
  BY <1>1, <1>3, FileShows

LEMMA MergeShows ==
    ASSUME ShowInv,
           \/ \E s : Pricing!HandleConflictChoice(s) \/ Pricing!TurnConflict(s)
           \/ Pricing!HandleApplyConflictChoices \/ Pricing!HandleCancelConflictChoices
    PROVE  ShowInv'
<1>1. /\ merge.on /\ touched' = touched
      /\ UNCHANGED <<catalog, loaded, fetched, put, fetch, missed, late, models, candidates>>
  BY Zenon DEF Pricing!HandleConflictChoice, Pricing!TurnConflict,
     Pricing!HandleApplyConflictChoices, Pricing!HandleCancelConflictChoices, Pricing!MergeStep,
     Pricing!server, Pricing!screen, Pricing!requests
<1>2. touched["file"] # {}
  BY <1>1, Zenon DEF ShowInv
<1> QED
  BY <1>1, <1>2, FileShows

(* Formatting and saving normalize a text that is normalized.              *)
LEMMA NormalShows ==
    ASSUME PriceInv, text = Pricing!AsText(loaded)
    PROVE  Pricing!AsText(Pricing!Normalized(text.keys)) = text
<1>1. PICK g : g = Pricing!Normalized(text.keys)
  OBVIOUS
<1>2. Whole(loaded)
  BY DEF PriceInv, PriceData
<1>3. \A n \in Pricing!Name : g[n] = loaded[n]
  BY <1>1, <1>2, TextOf
<1>4. Pricing!AsText(g) = Pricing!AsText(loaded)
  BY <1>3, SameText
<1> QED
  BY <1>1, <1>4

LEMMA FormatShows ==
    ASSUME PriceInv, ShowInv, Pricing!HandleFormat
    PROVE  ShowInv'
<1>1. /\ text' = Pricing!AsText(Pricing!Normalized(text.keys)) /\ UNCHANGED <<merge, touched>>
      /\ UNCHANGED <<catalog, loaded, fetched, put, fetch, missed, late, models, candidates>>
  BY Zenon DEF Pricing!HandleFormat, Pricing!server, Pricing!screen, Pricing!requests
<1>2. touched["file"] = {} => ~merge.on /\ text = Pricing!AsText(loaded)
  BY Zenon DEF ShowInv
<1>3. touched'["file"] = {} => ~merge'.on /\ text' = Pricing!AsText(loaded)
  BY <1>1, <1>2, NormalShows
<1> QED
  BY <1>1, <1>3, FileShows

LEMMA AppendShows ==
    ASSUME PriceInv, ShowInv, NEW c \in Appended, Pricing!HandleAppendModels(c)
    PROVE  ShowInv'
<1>1. PICK f : f = Pricing!Normalized(text.keys)
  OBVIOUS
<1>2. PICK b : b = [n \in Pricing!Name |-> IF f[n].kind = "none" THEN c[n] ELSE f[n]]
  OBVIOUS
<1>3. PICK ns : ns = {n \in Pricing!Name : c[n].kind # "none"}
  OBVIOUS
<1>4. /\ touched' = [touched EXCEPT !["file"] = @ \cup ns]
      /\ UNCHANGED <<catalog, loaded, fetched, put, fetch, missed, late, models, candidates>>
      /\ \/ text' = Pricing!AsText(b) /\ merge' = Pricing!NoMerge
         \/ \E n \in Pricing!Name : c[n].kind # "none"
  <2>1. Pricing!FileChanged(ns)
    BY <1>3, Zenon DEF Pricing!HandleAppendModels
  <2>2. \/ text' = Pricing!AsText(b) /\ merge' = Pricing!NoMerge
        \/ {n \in Pricing!Name : c[n].kind # "none" /\ f[n].kind # "none" /\ c[n] # f[n]} # {}
    BY <1>1, <1>2, Zenon DEF Pricing!HandleAppendModels
  <2>3. /\ touched' = [touched EXCEPT !["file"] = @ \cup ns]
        /\ UNCHANGED <<catalog, loaded, fetched, put, fetch, missed, late, models, candidates>>
    BY <2>1, Zenon DEF Pricing!FileChanged, Pricing!server, Pricing!screen, Pricing!requests
  <2> QED
    BY <2>2, <2>3
<1>5. DOMAIN touched = {"visual", "file"}
  BY Editors DEF ShowInv
<1>6. ASSUME touched'["file"] = {} PROVE ~merge'.on /\ text' = Pricing!AsText(loaded)
  <2>1. ns = {} /\ touched["file"] = {}
    BY <1>4, <1>5, <1>6
  <2>2. text' = Pricing!AsText(b) /\ merge' = Pricing!NoMerge
    BY <1>3, <1>4, <2>1
  <2>3. text = Pricing!AsText(loaded)
    BY <2>1, Zenon DEF ShowInv
  <2>4. Whole(loaded) /\ Whole(c)
    BY PricesAssumption DEF PriceInv, PriceData, Whole
  <2>5. \A n \in Pricing!Name : f[n] = loaded[n]
    BY <1>1, <2>3, <2>4, TextOf
  <2>6. \A n \in Pricing!Name : b[n] = loaded[n]
    BY <1>2, <1>3, <2>1, <2>4, <2>5 DEF Whole
  <2>7. Pricing!AsText(b) = Pricing!AsText(loaded)
    BY <2>6, SameText
  <2>8. ~merge'.on
    <3>1. \E s, e : merge' = [on |-> FALSE, base |-> e, left |-> e, right |-> e, names |-> <<>>,
                              side |-> s, index |-> 1]
      BY <2>2, Zenon DEF Pricing!NoMerge
    <3> QED
      BY <3>1
  <2> QED
    BY <2>2, <2>7, <2>8
<1> QED
  BY <1>4, <1>6, FileShows

(* A save is on its way.                                                   *)
LEMMA SendShows ==
    ASSUME PriceInv, ShowInv, Pricing!HandleSubmit \/ Pricing!HandleSave
    PROVE  ShowInv'
<1>1. PICK e \in Pricing!Editor : \E v : Pricing!Send(e, v)
  BY Zenon DEF Pricing!HandleSubmit, Pricing!HandleSave, Pricing!Editor
<1>2. /\ \E v : put' = [put EXCEPT ![e] = [st |-> "sent", value |-> v, base |-> loaded,
                                           touched |-> touched[e], known |-> known]]
      /\ UNCHANGED <<loaded, fetch, missed, late, models, candidates, touched>>
  BY <1>1, Zenon DEF Pricing!Send, Pricing!screen
<1>3. put'[e].st # "none"
  BY <1>2 DEF PriceInv, PriceTurns
<1>4. touched["file"] = {} => ~merge.on /\ text = Pricing!AsText(loaded)
  BY Zenon DEF ShowInv
<1>5. /\ merge' = merge
      /\ text' = text \/ text' = Pricing!AsText(Pricing!Normalized(text.keys))
  BY Zenon DEF Pricing!HandleSubmit, Pricing!HandleSave, Pricing!file
<1>6. touched'["file"] = {} => ~merge'.on /\ text' = Pricing!AsText(loaded')
  BY <1>2, <1>4, <1>5, NormalShows
<1>7. Pricing!Names' = Pricing!Names
  BY <1>2, Zenon DEF Pricing!Names
<1> QED
  BY <1>2, <1>3, <1>6, <1>7, Zenon DEF ShowInv

(* The requests go on: the forms stay as they are.                         *)
LEMMA RequestShows ==
    ASSUME ShowInv, UNCHANGED <<loaded, text, merge, models, candidates, touched>>,
           missed' \in BOOLEAN, late' \in BOOLEAN, fetch' \in {"none", "asked", "read"},
           ~missed' /\ ~late' =>
              \/ \E e \in Pricing!Editor : put'[e].st # "none"
              \/ fetch' = "asked" \/ (fetch' = "read" /\ fetched' = catalog')
              \/ fetch' = "none" /\ loaded' = catalog'
    PROVE  ShowInv'
<1>1. Pricing!Names' = Pricing!Names
  BY Zenon DEF Pricing!Names
<1> QED
  BY <1>1, Zenon DEF ShowInv

LEMMA AnswersShow ==
    ASSUME PriceInv, ShowInv, NEW e \in Pricing!Editor,
           Pricing!UpdateOption(e) \/ Pricing!PutAnswered(e) \/ Pricing!PutFails(e)
    PROVE  ShowInv'
<1>1. UNCHANGED <<loaded, text, merge, models, candidates, touched, fetched>>
  BY Zenon DEF Pricing!UpdateOption, Pricing!PutAnswered, Pricing!PutFails, Pricing!screen,
     Pricing!file
<1>2. missed \in BOOLEAN /\ late \in BOOLEAN /\ fetch \in {"none", "asked", "read"}
  BY DEF ShowInv
<1>3. CASE Pricing!UpdateOption(e)
  <2>1. /\ \E w \in {"refused", "stored"} : put' = [put EXCEPT ![e].st = w]
        /\ UNCHANGED <<missed, late, fetch>>
    BY <1>3, Zenon DEF Pricing!UpdateOption
  <2>2. put'[e].st # "none"
    BY <2>1 DEF PriceInv, PriceTurns
  <2> QED
    BY <1>1, <1>2, <2>1, <2>2, RequestShows
<1>4. CASE Pricing!PutAnswered(e) /\ missed' # TRUE
  <2>1. /\ fetch' = IF fetch = "none" THEN "asked" ELSE fetch
        /\ late' = (late \/ fetch = "read") /\ missed' = missed
    BY <1>4, Zenon DEF Pricing!PutAnswered
  <2>2. ~late' => fetch' = "asked"
    BY <1>2, <2>1
  <2>3. late' \in BOOLEAN /\ fetch' \in {"none", "asked", "read"}
    BY <1>2, <2>1
  <2> QED
    BY <1>1, <1>2, <2>1, <2>2, <2>3, RequestShows
<1>5. CASE missed' = TRUE
  <2>1. late' \in BOOLEAN /\ fetch' \in {"none", "asked", "read"}
    <3>1. \/ UNCHANGED <<late, fetch>>
          \/ /\ fetch' = IF fetch = "none" THEN "asked" ELSE fetch
             /\ late' = (late \/ fetch = "read")
      BY Zenon DEF Pricing!UpdateOption, Pricing!PutAnswered, Pricing!PutFails
    <3> QED
      BY <1>2, <3>1
  <2> QED
    BY <1>1, <1>5, <2>1, RequestShows
<1>6. Pricing!PutFails(e) => missed' = TRUE
  BY Zenon DEF Pricing!PutFails
<1> QED
  BY <1>3, <1>4, <1>5, <1>6

LEMMA AskShows ==
    ASSUME ShowInv, Pricing!GetOptions \/ Pricing!GetFails
    PROVE  ShowInv'
<1>1. /\ UNCHANGED <<loaded, text, merge, models, candidates, touched, late>>
      /\ \/ fetch' = "read" /\ fetched' = catalog' /\ missed' = missed
         \/ fetch' = "none" /\ missed' = TRUE
  BY Zenon DEF Pricing!GetOptions, Pricing!GetFails, Pricing!screen, Pricing!file, Pricing!server
<1>2. missed \in BOOLEAN /\ late \in BOOLEAN
  BY DEF ShowInv
<1>3. missed' \in BOOLEAN /\ late' \in BOOLEAN /\ fetch' \in {"none", "asked", "read"}
  BY <1>1, <1>2
<1> QED
  BY <1>1, <1>3, RequestShows

LEMMA ArriveShows ==
    ASSUME PriceInv, ShowInv, Pricing!OptionsArrive
    PROVE  ShowInv'
<1>1. /\ UNCHANGED <<catalog, put, candidates, missed, late>> /\ loaded' = fetched
      /\ fetch = "read" /\ fetch' = "none"
      /\ models' = Pricing!BuildModels(fetched, Pricing!Names)
      /\ \/ /\ fetched = loaded /\ UNCHANGED <<text, merge>>
            /\ touched' = [touched EXCEPT !["visual"] = {}]
         \/ /\ text' = Pricing!AsText(fetched) /\ merge' = Pricing!NoMerge
            /\ touched' = [e \in Pricing!Editor |-> {}]
  BY Zenon DEF Pricing!OptionsArrive, Pricing!file, Pricing!server, Pricing!Show
<1>2. DOMAIN touched = {"visual", "file"}
  BY Editors DEF ShowInv
<1>3. DOMAIN touched' = Pricing!Editor
  BY <1>1, <1>2, Editors
<1>4. Pricing!Names' = Pricing!Names
  BY <1>1, Zenon DEF Pricing!Names
<1>5. ~missed' /\ ~late' =>
         \/ \E e \in Pricing!Editor : put'[e].st # "none"
         \/ fetch' = "none" /\ loaded' = catalog'
  BY <1>1 DEF ShowInv
<1>6. touched'["file"] = {} => ~merge'.on /\ text' = Pricing!AsText(loaded')
  <2>1. CASE /\ fetched = loaded /\ UNCHANGED <<text, merge>>
             /\ touched' = [touched EXCEPT !["visual"] = {}]
    <3>1. touched'["file"] = touched["file"]
      BY <1>2, <2>1
    <3> QED
      BY <1>1, <2>1, <3>1, Zenon DEF ShowInv
  <2>2. CASE text' = Pricing!AsText(fetched) /\ merge' = Pricing!NoMerge
    <3>1. \E s, e : merge' = [on |-> FALSE, base |-> e, left |-> e, right |-> e, names |-> <<>>,
                              side |-> s, index |-> 1]
      BY <2>2, Zenon DEF Pricing!NoMerge
    <3>2. ~merge'.on
      BY <3>1
    <3> QED
      BY <1>1, <2>2, <3>2
  <2> QED
    BY <1>1, <2>1, <2>2
<1>7. missed' \in BOOLEAN /\ late' \in BOOLEAN /\ fetch' \in {"none", "asked", "read"}
  BY <1>1 DEF ShowInv
<1> QED
  BY <1>1, <1>3, <1>4, <1>5, <1>6, <1>7, Zenon DEF ShowInv

LEMMA ShowStart == Init => ShowInv
<1> SUFFICES ASSUME Init PROVE ShowInv
  OBVIOUS
<1>1. /\ loaded = Pricing!Empty /\ candidates = "none"
      /\ models = Pricing!BuildModels(Pricing!Empty, {})
      /\ text = Pricing!AsText(Pricing!Empty) /\ merge = Pricing!NoMerge
      /\ fetch = "asked" /\ missed = FALSE /\ late = FALSE
      /\ touched = [e \in Pricing!Editor |-> {}]
  BY Zenon DEF Init, Pricing!Init
<1>2. Pricing!Names = {}
  BY <1>1 DEF Pricing!Names
<1>3. DOMAIN touched = Pricing!Editor /\ missed \in BOOLEAN /\ late \in BOOLEAN
      /\ fetch \in {"none", "asked", "read"}
  BY <1>1
<1>4. \E s, e : merge = [on |-> FALSE, base |-> e, left |-> e, right |-> e, names |-> <<>>,
                         side |-> s, index |-> 1]
  BY <1>1, Zenon DEF Pricing!NoMerge
<1>5. ~merge.on
  BY <1>4
<1> QED
  BY <1>1, <1>2, <1>3, <1>5, Zenon DEF ShowInv

LEMMA ShowStep == PriceInv /\ ShowInv /\ [Next]_vars => ShowInv'
<1> SUFFICES ASSUME PriceInv, ShowInv, [Next]_vars PROVE ShowInv'
  OBVIOUS
<1>1. VisualShown \/ UNCHANGED pricing \/ FileOrServer
  BY PriceStep, VisualShows
<1>2. CASE VisualShown \/ UNCHANGED pricing
  BY <1>2, VisualShowKeeps
<1>3. CASE FileOrServer
  BY <1>3, TypingShows, FormatShows, AppendShows, MergeShows, SendShows, AnswersShow, AskShows,
     ArriveShows, Zenon DEF FileOrServer
<1> QED
  BY <1>1, <1>2, <1>3

(* When nothing is in flight and nothing was typed, both price editors     *)
(* show the option ModelPrice as it is stored, in whatever order they were *)
(* saved (EditorsShowOption: handleSubmit, handleSave and the refresh of   *)
(* RatioSetting that both share).                                          *)
THEOREM PricesShown == Spec => []Pricing!EditorsShowOption
<1>1. ShowInv => Pricing!EditorsShowOption
  BY Zenon DEF ShowInv, Pricing!EditorsShowOption
<1> QED
  BY <1>1, ShowStart, ShowStep, PriceInductive, PTL DEF Spec

-----------------------------------------------------------------------------
(* The tabs of a browser.  Only a tab that is ready waits for answers; one *)
(* that nothing has mixed up shows the user of its header, or nobody on    *)
(* the login page; and one that has just started has not signed out.       *)
CallFields == {"tab", "kind", "st", "user", "header", "guarded", "current", "stores"}

TabTrue(t) ==
    /\ DOMAIN tabs[t] = {"at", "page", "shown", "header", "guarded"}
    /\ tabs[t].at = "booted" => t \notin signedOut
    /\ tabs[t].at = "ready" /\ t \notin confused =>
          \/ tabs[t].shown = tabs[t].header
          \/ tabs[t].shown = Browser!None /\ tabs[t].page = "login"
    /\ t \in signedOut => tabs[t].shown = Browser!None \/ t \in confused

TabsInv ==
    /\ DOMAIN tabs = Tab /\ signedOut \subseteq Tab
    /\ \A t \in Tab : TabTrue(t)
    /\ \A c \in requests : DOMAIN c = CallFields /\ c.tab \in Tab /\ tabs[c.tab].at = "ready"
    /\ \A a \in acted : a.shown = a.user

LEMMA BrowserStep ==
    ASSUME [Next]_vars
    PROVE  Browser!Next \/ UNCHANGED browser
BY Zenon DEF Next, Of, vars

(* What a tab asks comes from it; an outdated request is the same one.     *)
LEMMA RequestOf ==
    \A t, k, u, b : /\ DOMAIN Browser!Request(t, k, u, b) = CallFields
                    /\ Browser!Request(t, k, u, b).tab = t
BY DEF Browser!Request, CallFields

LEMMA AskSelfCalls ==
    ASSUME TabsInv, NEW t \in Tab, NEW b
    PROVE  \A c \in Browser!AskSelf(t, b) : DOMAIN c = CallFields /\ (c.tab = t \/ c \in requests)
<1> TAKE c \in Browser!AskSelf(t, b)
<1> DEFINE same == {d \in requests : d.tab = t /\ d.kind = "self" /\ d.current}
<1>1. \/ c \in requests
      \/ c = Browser!Request(t, "self", cookie, b)
      \/ \E d \in same : c = [d EXCEPT !.stores = @ \/ b]
  BY Zenon DEF Browser!AskSelf
<1>2. CASE c \in requests
  BY <1>2 DEF TabsInv
<1>3. CASE c = Browser!Request(t, "self", cookie, b)
  BY <1>3, RequestOf
<1>4. CASE \E d \in same : c = [d EXCEPT !.stores = @ \/ b]
  <2>1. PICK d \in requests : d.tab = t /\ c = [d EXCEPT !.stores = @ \/ b]
    BY <1>4
  <2>2. DOMAIN d = CallFields
    BY <2>1 DEF TabsInv
  <2> QED
    BY <2>1, <2>2 DEF CallFields
<1> QED
  BY <1>1, <1>2, <1>3, <1>4

LEMMA OutdatedCalls ==
    ASSUME TabsInv, NEW t, NEW cs, cs \subseteq requests
    PROVE  \A c \in Browser!Outdated(t, cs) :
              DOMAIN c = CallFields /\ \E d \in requests : c.tab = d.tab
<1> TAKE c \in Browser!Outdated(t, cs)
<1>1. PICK d \in cs : c = [d EXCEPT !.current = @ /\ d.tab # t]
  BY DEF Browser!Outdated
<1>2. DOMAIN d = CallFields
  BY DEF TabsInv
<1>3. DOMAIN c = CallFields /\ c.tab = d.tab
  BY <1>1, <1>2 DEF CallFields
<1> QED
  BY <1>3

(* A step that changes one tab at most, and adds only requests of tabs     *)
(* that are ready.                                                         *)
LEMMA OneTab ==
    ASSUME TabsInv, NEW t \in Tab, DOMAIN tabs' = Tab,
           \A x \in Tab \ {t} : /\ tabs'[x] = tabs[x]
                                /\ x \in signedOut' <=> x \in signedOut
                                /\ x \in confused' <=> x \in confused,
           signedOut' \subseteq Tab, TabTrue(t)',
           \A c \in requests' : /\ DOMAIN c = CallFields /\ c.tab \in Tab
                                /\ tabs'[c.tab].at = "ready",
           \A a \in acted' : a \in acted \/ a.shown = a.user
    PROVE  TabsInv'
<1>1. ASSUME NEW x \in Tab PROVE TabTrue(x)'
  <2>1. CASE x = t
    BY <2>1
  <2>2. CASE x # t
    BY <2>2 DEF TabsInv, TabTrue
  <2> QED
    BY <2>1, <2>2
<1> QED
  BY <1>1 DEF TabsInv

LEMMA BootStep ==
    ASSUME TabsInv, NEW t \in Tab, Browser!Boot(t)
    PROVE  TabsInv'
<1>1. /\ tabs[t].at = "loading"
      /\ tabs' = [tabs EXCEPT ![t].at = "booted", ![t].shown = Browser!None,
                              ![t].header = storage, ![t].guarded = TRUE]
      /\ confused' = confused \ {t} /\ signedOut' = signedOut \ {t}
      /\ requests' = requests /\ acted' = acted
  BY DEF Browser!Boot
<1>2. /\ DOMAIN tabs' = Tab /\ \A x \in Tab \ {t} : tabs'[x] = tabs[x]
      /\ DOMAIN tabs'[t] = {"at", "page", "shown", "header", "guarded"} /\ tabs'[t].at = "booted"
  BY <1>1 DEF TabsInv, TabTrue
<1>3. TabTrue(t)'
  BY <1>1, <1>2 DEF TabTrue
<1>4. \A c \in requests' : DOMAIN c = CallFields /\ c.tab \in Tab /\ tabs'[c.tab].at = "ready"
  BY <1>1, <1>2 DEF TabsInv
<1> QED
  BY <1>1, <1>2, <1>3, <1>4, OneTab DEF TabsInv

LEMMA MountStep ==
    ASSUME TabsInv, NEW t \in Tab, Browser!Mount(t)
    PROVE  TabsInv'
<1>1. /\ tabs[t].at = "booted"
      /\ tabs' = [tabs EXCEPT ![t].at = "ready", ![t].shown = storage,
                              ![t].page = IF storage = Browser!None THEN "login" ELSE @]
      /\ requests' = requests \/ requests' = Browser!AskSelf(t, TRUE)
      /\ confused' = IF storage = tabs[t].header THEN confused ELSE confused \cup {t}
      /\ signedOut' = signedOut /\ acted' = acted
  BY Zenon DEF Browser!Mount
<1>2. /\ DOMAIN tabs' = Tab /\ \A x \in Tab \ {t} : tabs'[x] = tabs[x]
      /\ DOMAIN tabs'[t] = {"at", "page", "shown", "header", "guarded"} /\ tabs'[t].at = "ready"
      /\ tabs'[t].shown = storage /\ tabs'[t].header = tabs[t].header
  BY <1>1 DEF TabsInv, TabTrue
<1>3. t \notin signedOut /\ (t \notin confused' => tabs'[t].shown = tabs'[t].header)
  BY <1>1, <1>2 DEF TabsInv, TabTrue
<1>4. TabTrue(t)'
  BY <1>1, <1>2, <1>3 DEF TabTrue
<1>5. \A c \in requests' : DOMAIN c = CallFields /\ (c.tab = t \/ c \in requests)
  <2>1. \A c \in Browser!AskSelf(t, TRUE) :
           DOMAIN c = CallFields /\ (c.tab = t \/ c \in requests)
    BY AskSelfCalls
  <2> QED
    BY <1>1, <2>1 DEF TabsInv
<1>6. \A c \in requests' : DOMAIN c = CallFields /\ c.tab \in Tab /\ tabs'[c.tab].at = "ready"
  BY <1>2, <1>5 DEF TabsInv
<1> QED
  BY <1>1, <1>2, <1>4, <1>6, OneTab DEF TabsInv

(* The page of the tab is left, its requests with it.                      *)
LEMMA LeaveStep ==
    ASSUME TabsInv, NEW t \in Tab, NEW p, Browser!Leave(t, p),
           UNCHANGED <<acted, confused, signedOut>>
    PROVE  TabsInv'
<1>1. /\ tabs' = [tabs EXCEPT ![t].at = "loading", ![t].page = p]
      /\ requests' = {c \in requests : c.tab # t}
  BY DEF Browser!Leave
<1>2. /\ DOMAIN tabs' = Tab /\ \A x \in Tab \ {t} : tabs'[x] = tabs[x]
      /\ DOMAIN tabs'[t] = {"at", "page", "shown", "header", "guarded"}
      /\ tabs'[t].at = "loading" /\ tabs'[t].shown = tabs[t].shown
  BY <1>1 DEF TabsInv, TabTrue
<1>3. TabTrue(t)'
  BY <1>2 DEF TabsInv, TabTrue
<1>4. \A c \in requests' : DOMAIN c = CallFields /\ c.tab \in Tab /\ tabs'[c.tab].at = "ready"
  BY <1>1, <1>2 DEF TabsInv
<1> QED
  BY <1>2, <1>3, <1>4, OneTab DEF TabsInv

(* Nothing but the requests moves.                                         *)
LEMMA CallStep ==
    ASSUME TabsInv, UNCHANGED <<tabs, confused, signedOut, acted>>,
           \A c \in requests' : /\ DOMAIN c = CallFields
                                /\ \/ c.tab \in Tab /\ tabs[c.tab].at = "ready"
                                   \/ \E d \in requests : c.tab = d.tab
    PROVE  TabsInv'
<1>1. \A c \in requests' : DOMAIN c = CallFields /\ c.tab \in Tab /\ tabs'[c.tab].at = "ready"
  BY DEF TabsInv
<1>2. \A x \in Tab : TabTrue(x)'
  BY DEF TabsInv, TabTrue
<1> QED
  BY <1>1, <1>2 DEF TabsInv

(* What users do in a tab that is ready.                                   *)
LEMMA NavigateStep ==
    ASSUME TabsInv, NEW t \in Tab, Browser!Navigate(t)
    PROVE  TabsInv'
<1>1. PICK p : tabs' = [tabs EXCEPT ![t].page = p]
  BY DEF Browser!Navigate
<1>2. /\ tabs[t].at = "ready" /\ tabs[t].shown # Browser!None
      /\ UNCHANGED <<requests, acted, confused, signedOut>>
  BY DEF Browser!Navigate, Browser!Ready
<1>3. /\ DOMAIN tabs' = Tab /\ \A x \in Tab \ {t} : tabs'[x] = tabs[x]
      /\ DOMAIN tabs'[t] = {"at", "page", "shown", "header", "guarded"}
      /\ tabs'[t].at = "ready" /\ tabs'[t].shown = tabs[t].shown
      /\ tabs'[t].header = tabs[t].header
  BY <1>1, <1>2 DEF TabsInv, TabTrue
<1>4. TabTrue(t)'
  BY <1>2, <1>3 DEF TabsInv, TabTrue
<1>5. \A c \in requests' : DOMAIN c = CallFields /\ c.tab \in Tab /\ tabs'[c.tab].at = "ready"
  BY <1>2, <1>3 DEF TabsInv
<1> QED
  BY <1>2, <1>3, <1>4, <1>5, OneTab DEF TabsInv

LEMMA AskStepOfTab ==
    ASSUME TabsInv, NEW t \in Tab,
           \/ Browser!RefreshUser(t) \/ Browser!GetUserQuota(t)
           \/ Browser!HandlePersonalLogout(t) \/ \E u \in User : Browser!HandleSubmit(t, u)
    PROVE  TabsInv'
<1>1. /\ tabs[t].at = "ready" /\ UNCHANGED <<tabs, confused, signedOut, acted>>
      /\ \/ \E b : requests' = Browser!AskSelf(t, b)
         \/ \E k, u : requests' = requests \cup {Browser!Request(t, k, u, FALSE)}
  BY Zenon DEF Browser!RefreshUser, Browser!GetUserQuota, Browser!HandlePersonalLogout,
     Browser!HandleSubmit, Browser!Ready
<1>2. \A c \in requests' : DOMAIN c = CallFields /\ (c.tab = t \/ c \in requests)
  <2>1. \A b : \A c \in Browser!AskSelf(t, b) :
           DOMAIN c = CallFields /\ (c.tab = t \/ c \in requests)
    BY AskSelfCalls
  <2>2. \A c \in requests : DOMAIN c = CallFields
    BY DEF TabsInv
  <2>3. CASE \E b : requests' = Browser!AskSelf(t, b)
    BY <2>1, <2>3
  <2>4. CASE \E k, u : requests' = requests \cup {Browser!Request(t, k, u, FALSE)}
    <3>1. PICK k, u : requests' = requests \cup {Browser!Request(t, k, u, FALSE)}
      BY <2>4
    <3>2. PICK r : r = Browser!Request(t, k, u, FALSE)
      OBVIOUS
    <3>3. DOMAIN r = CallFields /\ r.tab = t
      BY <3>2, RequestOf, Zenon
    <3> QED
      BY <2>2, <3>1, <3>2, <3>3
  <2> QED
    BY <1>1, <2>3, <2>4
<1> QED
  BY <1>1, <1>2, CallStep

(* A change is made for the user that the tab shows: its header passes     *)
(* authHelper only as the user of the session.                             *)
LEMMA ActStep ==
    ASSUME TabsInv, NEW t \in Tab, Browser!ChangePassword(t)
    PROVE  TabsInv'
<1>1. /\ tabs[t].at = "ready" /\ tabs[t].page = "console"
      /\ requests' = requests \cup {Browser!Request(t, "write", cookie, FALSE)}
      /\ acted' = IF Browser!AuthHelper(cookie, tabs[t].header) /\ t \notin confused
                  THEN acted \cup {[shown |-> tabs[t].shown, user |-> cookie]} ELSE acted
      /\ UNCHANGED <<tabs, confused, signedOut>>
  BY DEF Browser!ChangePassword, Browser!Ready
<1>2. \A a \in acted' : a \in acted \/ a.shown = a.user
  BY <1>1 DEF TabsInv, TabTrue, Browser!AuthHelper
<1>3. TabTrue(t)'
  BY <1>1 DEF TabsInv, TabTrue
<1>4. \A c \in requests' : DOMAIN c = CallFields /\ c.tab \in Tab /\ tabs'[c.tab].at = "ready"
  <2>1. PICK r : r = Browser!Request(t, "write", cookie, FALSE)
    OBVIOUS
  <2>2. DOMAIN r = CallFields /\ r.tab = t
    BY <2>1, RequestOf, Zenon
  <2> QED
    BY <1>1, <2>1, <2>2 DEF TabsInv
<1> QED
  BY <1>1, <1>2, <1>3, <1>4, OneTab DEF TabsInv

(* A tab signs in or out: it shows nobody on the login page, or the user   *)
(* of its new header.                                                      *)
Signed(t) ==
    /\ DOMAIN tabs' = Tab /\ \A x \in Tab \ {t} : tabs'[x] = tabs[x]
    /\ DOMAIN tabs'[t] = {"at", "page", "shown", "header", "guarded"} /\ tabs'[t].at = "ready"
    /\ \/ /\ signedOut' = signedOut \cup {t}
          /\ tabs'[t].shown = Browser!None /\ tabs'[t].page = "login"
       \/ /\ signedOut' = signedOut \ {t} /\ tabs'[t].shown = tabs'[t].header

LEMMA SignStep ==
    ASSUME TabsInv, NEW t \in Tab, Signed(t), UNCHANGED acted, confused' = confused \ {t},
           \A c \in requests' : DOMAIN c = CallFields /\ \E d \in requests : c.tab = d.tab
    PROVE  TabsInv'
<1>1. TabTrue(t)'
  BY DEF TabTrue, Signed
<1>2. \A c \in requests' : DOMAIN c = CallFields /\ c.tab \in Tab /\ tabs'[c.tab].at = "ready"
  BY DEF TabsInv, Signed
<1>3. signedOut' \subseteq Tab
  BY DEF TabsInv, Signed
<1>4. /\ DOMAIN tabs' = Tab
      /\ \A x \in Tab \ {t} : /\ tabs'[x] = tabs[x]
                              /\ x \in signedOut' <=> x \in signedOut
                              /\ x \in confused' <=> x \in confused
  BY DEF Signed
<1> QED
  BY <1>1, <1>2, <1>3, <1>4, OneTab

LEMMA LogoutStep ==
    ASSUME TabsInv, NEW t \in Tab, Browser!HandleLogout(t)
    PROVE  TabsInv'
<1>1. /\ tabs[t].at = "ready" /\ UNCHANGED acted /\ confused' = confused \ {t}
      /\ signedOut' = signedOut \cup {t} /\ requests' = Browser!Outdated(t, requests)
      /\ tabs' = [tabs EXCEPT ![t].shown = Browser!None, ![t].page = "login",
                              ![t].header = Browser!None, ![t].guarded = FALSE]
  BY DEF Browser!HandleLogout, Browser!Ready
<1>2. \A c \in requests' : DOMAIN c = CallFields /\ \E d \in requests : c.tab = d.tab
  BY <1>1, OutdatedCalls
<1>3. Signed(t)
  BY <1>1 DEF TabsInv, TabTrue, Signed
<1> QED
  BY <1>1, <1>2, <1>3, SignStep

LEMMA PersonalStep ==
    ASSUME TabsInv, NEW c \in requests, Browser!LogoutAnswered(c)
    PROVE  TabsInv'
<1>1. PICK t : t = c.tab
  OBVIOUS
<1>2. t \in Tab /\ tabs[t].at = "ready"
  BY <1>1 DEF TabsInv
<1>3. /\ UNCHANGED acted /\ confused' = confused \ {t}
      /\ signedOut' = signedOut \cup {t} /\ requests' = requests \ {c}
      /\ tabs' = [tabs EXCEPT ![t].shown = Browser!None, ![t].page = "login"]
  BY <1>1 DEF Browser!LogoutAnswered, Browser!SignedOut
<1>4. Signed(t)
  BY <1>2, <1>3 DEF TabsInv, TabTrue, Signed
<1>5. \A d \in requests' : DOMAIN d = CallFields /\ \E e \in requests : d.tab = e.tab
  BY <1>3 DEF TabsInv
<1> QED
  BY <1>2, <1>3, <1>4, <1>5, SignStep

LEMMA LoginStep ==
    ASSUME TabsInv, NEW c \in requests, Browser!LoginAnswered(c)
    PROVE  TabsInv'
<1>1. PICK t : t = c.tab
  OBVIOUS
<1>2. t \in Tab /\ tabs[t].at = "ready"
  BY <1>1 DEF TabsInv
<1>3. UNCHANGED acted
  BY DEF Browser!LoginAnswered
<1>4. CASE c.st = "refused"
  <2>1. requests' = requests \ {c} /\ UNCHANGED <<tabs, confused, signedOut>>
    BY <1>4 DEF Browser!LoginAnswered
  <2>2. \A d \in requests' : DOMAIN d = CallFields /\ \E e \in requests : d.tab = e.tab
    BY <2>1 DEF TabsInv
  <2> QED
    BY <1>3, <2>1, <2>2, CallStep
<1>5. CASE c.st # "refused"
  <2>1. /\ confused' = confused \ {t} /\ signedOut' = signedOut \ {t}
        /\ requests' = Browser!Outdated(t, requests \ {c})
        /\ tabs' = [tabs EXCEPT ![t].shown = c.user, ![t].page = "console",
                                ![t].header = c.user, ![t].guarded = FALSE]
    BY <1>1, <1>5, Zenon DEF Browser!LoginAnswered
  <2>2. \A d \in requests' : DOMAIN d = CallFields /\ \E e \in requests : d.tab = e.tab
    <3>1. requests \ {c} \subseteq requests
      OBVIOUS
    <3> QED
      BY <2>1, <3>1, OutdatedCalls
  <2>3. Signed(t)
    BY <1>2, <2>1 DEF TabsInv, TabTrue, Signed
  <2> QED
    BY <1>2, <1>3, <2>1, <2>2, <2>3, SignStep
<1> QED
  BY <1>4, <1>5

(* The record of the user arrives: the tab shows the user of its header,   *)
(* or is mixed up.                                                         *)
LEMMA SelfStep ==
    ASSUME TabsInv, NEW c \in requests, Browser!SelfAnswered(c)
    PROVE  TabsInv'
<1>1. PICK t : t = c.tab
  OBVIOUS
<1>2. t \in Tab /\ tabs[t].at = "ready"
  BY <1>1 DEF TabsInv
<1>3. /\ UNCHANGED <<acted, signedOut>> /\ requests' = requests \ {c}
      /\ tabs' = [tabs EXCEPT ![t].shown = c.user]
      /\ confused' = IF tabs[t].header = c.user /\ t \notin signedOut THEN confused
                     ELSE confused \cup {t}
  BY <1>1 DEF Browser!SelfAnswered
<1>4. /\ DOMAIN tabs' = Tab /\ \A x \in Tab \ {t} : tabs'[x] = tabs[x]
      /\ DOMAIN tabs'[t] = {"at", "page", "shown", "header", "guarded"}
      /\ tabs'[t].at = "ready" /\ tabs'[t].shown = c.user /\ tabs'[t].header = tabs[t].header
  BY <1>2, <1>3 DEF TabsInv, TabTrue
<1>5. TabTrue(t)'
  BY <1>3, <1>4 DEF TabTrue
<1>6. \A d \in requests' : DOMAIN d = CallFields /\ d.tab \in Tab /\ tabs'[d.tab].at = "ready"
  BY <1>3, <1>4 DEF TabsInv
<1>7. \A x \in Tab \ {t} : x \in confused' <=> x \in confused
  BY <1>3
<1> QED
  BY <1>2, <1>3, <1>4, <1>5, <1>6, <1>7, OneTab DEF TabsInv

LEMMA EndStep ==
    ASSUME TabsInv, NEW c \in requests,
           Browser!Unauthorized(c) \/ Browser!RequestEnds(c) \/ Browser!SetupLogin(c)
    PROVE  TabsInv'
<1>1. /\ UNCHANGED <<acted, confused, signedOut>>
      /\ \/ Browser!Leave(c.tab, "login")
         \/ requests' = requests \ {c} /\ UNCHANGED tabs
         \/ /\ \E w : requests' = (requests \ {c}) \cup {[c EXCEPT !.st = w]}
            /\ UNCHANGED tabs
  BY Zenon DEF Browser!Unauthorized, Browser!RequestEnds, Browser!SetupLogin
<1>2. DOMAIN c = CallFields /\ c.tab \in Tab
  BY DEF TabsInv
<1>3. CASE Browser!Leave(c.tab, "login")
  BY <1>1, <1>2, <1>3, LeaveStep
<1>4. CASE UNCHANGED tabs /\ \A d \in requests' : \/ d \in requests
                                                  \/ \E w : d = [c EXCEPT !.st = w]
  <2>1. \A d \in requests' : DOMAIN d = CallFields /\ \E e \in requests : d.tab = e.tab
    BY <1>2, <1>4 DEF TabsInv, CallFields
  <2> QED
    BY <1>1, <1>4, <2>1, CallStep
<1> QED
  BY <1>1, <1>3, <1>4

LEMMA TabsKept == TabsInv /\ [Next]_vars => TabsInv'
<1> SUFFICES ASSUME TabsInv, [Next]_vars PROVE TabsInv'
  OBVIOUS
<1>1. Browser!Next \/ UNCHANGED browser
  BY BrowserStep
<1>2. ASSUME UNCHANGED <<tabs, confused, signedOut, acted, requests>> PROVE TabsInv'
  BY <1>2, CallStep DEF TabsInv
<1>3. CASE UNCHANGED browser
  BY <1>2, <1>3, Zenon DEF browser
<1>4. ASSUME NEW t \in Tab, Browser!Reload(t) PROVE TabsInv'
  BY <1>4, LeaveStep DEF Browser!Reload
<1>5. ASSUME Browser!CookieExpires PROVE TabsInv'
  BY <1>2, <1>5 DEF Browser!CookieExpires
<1>6. CASE Browser!Next
  BY <1>4, <1>5, <1>6, BootStep, MountStep, NavigateStep, AskStepOfTab, ActStep, LogoutStep,
     PersonalStep, LoginStep, SelfStep, EndStep, Zenon DEF Browser!Next
<1> QED
  BY <1>1, <1>3, <1>6

(* What is done in a tab is done for the user it shows, and after a        *)
(* sign-out a tab shows nobody (ActsAsShown and SignOutShown): the header  *)
(* of the API instance and what UserContext shows change together, except  *)
(* in a tab that a late answer has mixed up.                               *)
THEOREM TabsAct == Spec => [](Browser!ActsAsShown /\ Browser!SignOutShown)
<1>1. Init => TabsInv
  <2> SUFFICES ASSUME Init PROVE TabsInv
    OBVIOUS
  <2>1. /\ tabs = [t \in Tab |-> [at |-> "loading", page |-> "console", shown |-> Browser!None,
                                  header |-> Browser!None, guarded |-> TRUE]]
        /\ requests = {} /\ acted = {} /\ confused = {} /\ signedOut = {}
    BY Zenon DEF Init, Browser!Init
  <2> QED
    BY <2>1 DEF TabsInv, TabTrue
<1>2. TabsInv => Browser!ActsAsShown /\ Browser!SignOutShown
  BY DEF TabsInv, TabTrue, Browser!ActsAsShown, Browser!SignOutShown
<1> QED
  BY <1>1, <1>2, TabsKept, PTL DEF Spec

-----------------------------------------------------------------------------
(* The spinners of all parts: whoever turns one has a request in flight    *)
(* that stops it, so none turns when nothing is in flight (setLoading in   *)
(* the finally blocks of the hooks, the guards of the refreshes, the       *)
(* server's upstream update task flags).                                   *)
THEOREM AllSpinnersEnd == Spec => []SpinnersEnd
<1> DEFINE I == TableInv /\ FormInv /\ EditInv /\ PriceInv /\ UpdateInv
<1>1. I => SpinnersEnd
  BY TableSpinners, FormSpinners, DialogSpinners, PriceSpinners, UpdateFlags
     DEF SpinnersEnd, On
<1> QED
  BY <1>1, TableInductive, FormInductive, DialogInductive, PriceInductive, UpdateInductive, PTL

(* While no request has failed and the sync loop has put no value back, a  *)
(* settings form that looks at the answers says "saved" only when what it  *)
(* submitted is in OptionMap, and in the table unless UpdateOption ignored *)
(* an error of it; no save empties a secret where the form says that blank *)
(* leaves it as it is.  A merge of prices changes only what was chosen;    *)
(* and applying a provider's news leaves the news that the dialog did not  *)
(* show pending (requestQueue and updateArray of the forms, pendingMerge   *)
(* of the file editor, ApplyChannelUpstreamModelUpdates at the server).    *)
THEOREM SavesAreFaithful == Spec => SavesFaithful
BY SettingsFaithful, MergeFaithful, NewsFaithful, PTL DEF SavesFaithful

=============================================================================
