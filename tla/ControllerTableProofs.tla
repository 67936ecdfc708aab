------------------------ MODULE ControllerTableProofs ------------------------
(***************************************************************************)
(* Which request a client is matched with, and that every request is       *)
(* accounted for, for any number of transfers, copies and clients.  Two    *)
(* transfers of one host address are kept apart by their turns; a client   *)
(* can take the request of an earlier one only if that left it in the      *)
(* table, and no two clients take the same.                                *)
(***************************************************************************)
EXTENDS ControllerTable, FiniteSetTheorems, SequenceTheorems, TLAPS

-----------------------------------------------------------------------------
(* What the operators on the table return.                                 *)

(* A set of positions that is not empty has a first one and a last one.    *)
LEMMA Extremes ==
  ASSUME NEW n \in Nat, NEW S \in SUBSET (1 .. n), S # {}
  PROVE  Min(S) \in S /\ Max(S) \in S
  <1> DEFINE less == {ss \in Nat \X Nat : ss[1] < ss[2]}
  <1>1. IsWellFoundedOn(less, Nat)
    BY NatLessThanWellFounded DEF OpToRel
  <1>2. ASSUME NEW T \in SUBSET Nat, T # {}
        PROVE  \E x \in T : \A y \in T : x <= y
    <2>1. PICK x \in T : \A y \in T : ~(<<y, x>> \in less)
      <3> HIDE DEF less
      <3> QED BY <1>1, <1>2, WFMin
    <2>2. ASSUME NEW y \in T
          PROVE  x <= y
      <3>1. ~(y < x)
        BY <2>1
      <3> QED BY <3>1
    <2> QED BY <2>2
  <1>3. \E x \in S : \A y \in S : x <= y
    BY <1>2
  <1>4. \E x \in S : \A y \in S : x >= y
    <2> DEFINE T == {z \in Nat : n - z \in S}
    <2>1. PICK x0 \in S : TRUE
      OBVIOUS
    <2>2. n - x0 \in T
      BY <2>1
    <2>3. PICK z \in T : \A y \in T : z <= y
      <3>1. T \in SUBSET Nat /\ T # {}
        BY <2>2
      <3> HIDE DEF T
      <3> QED BY <1>2, <3>1
    <2>4. ASSUME NEW y \in S
          PROVE  n - z >= y
      <3>1. n - y \in T /\ z \in Nat
        OBVIOUS
      <3>2. z <= n - y
        BY <2>3, <3>1
      <3> QED BY <3>1, <3>2
    <2> QED BY <2>4
  <1> QED BY <1>3, <1>4 DEF Min, Max

(* What is left when an element is taken out.                              *)
LEMMA Removed ==
  ASSUME NEW S, NEW s \in Seq(S), NEW i \in 1 .. Len(s)
  PROVE  /\ RemoveAt(s, i) \in Seq(S) /\ Len(RemoveAt(s, i)) = Len(s) - 1
         /\ \A k \in 1 .. Len(s) - 1 : RemoveAt(s, i)[k] = IF k < i THEN s[k] ELSE s[k + 1]
  <1> DEFINE first == SubSeq(s, 1, i - 1)
             last == SubSeq(s, i + 1, Len(s))
  <1>1. Len(s) \in Nat /\ i \in Nat /\ i >= 1 /\ i <= Len(s)
    OBVIOUS
  <1>2. first \in Seq(S) /\ Len(first) = i - 1 /\ \A k \in 1 .. i - 1 : first[k] = s[k]
    <2>1. \A k \in 1 .. i - 1 : s[k] \in S
      BY <1>1
    <2>2. /\ first \in Seq(S) /\ Len(first) = IF 1 <= i - 1 THEN (i - 1) - 1 + 1 ELSE 0
          /\ \A k \in 1 .. (i - 1) - 1 + 1 : first[k] = s[1 + k - 1]
      BY <1>1, <2>1, SubSeqProperties
    <2> HIDE DEF first
    <2> QED BY <1>1, <2>2
  <1>3. last \in Seq(S) /\ Len(last) = Len(s) - i /\ \A k \in 1 .. Len(s) - i : last[k] = s[i + k]
    <2>1. \A k \in i + 1 .. Len(s) : s[k] \in S
      BY <1>1
    <2>2. /\ last \in Seq(S) /\ Len(last) = IF i + 1 <= Len(s) THEN Len(s) - (i + 1) + 1 ELSE 0
          /\ \A k \in 1 .. Len(s) - (i + 1) + 1 : last[k] = s[(i + 1) + k - 1]
      BY <1>1, <2>1, SubSeqProperties
    <2> HIDE DEF last
    <2> QED BY <1>1, <2>2
  <1>4. RemoveAt(s, i) = first \o last
    BY DEF RemoveAt
  <1> HIDE DEF first, last
  <1>5. /\ first \o last \in Seq(S) /\ Len(first \o last) = Len(s) - 1
        /\ \A k \in 1 .. Len(s) - 1 :
             (first \o last)[k] = IF k <= Len(first) THEN first[k] ELSE last[k - Len(first)]
    <2>1. /\ first \o last \in Seq(S) /\ Len(first \o last) = Len(first) + Len(last)
          /\ \A k \in 1 .. Len(first) + Len(last) :
               (first \o last)[k] = IF k <= Len(first) THEN first[k] ELSE last[k - Len(first)]
      BY <1>2, <1>3, ConcatProperties
    <2>2. Len(first) + Len(last) = Len(s) - 1
      BY <1>1, <1>2, <1>3
    <2> QED BY <2>1, <2>2
  <1>6. ASSUME NEW k \in 1 .. Len(s) - 1
        PROVE  (first \o last)[k] = IF k < i THEN s[k] ELSE s[k + 1]
    <2>1. CASE k < i
      BY <1>1, <1>2, <1>5, <2>1
    <2>2. CASE k >= i
      <3> DEFINE m == k - (i - 1)
      <3>1. m \in 1 .. Len(s) - i /\ i + m = k + 1
        BY <1>1, <2>2
      <3>2. (first \o last)[k] = last[m]
        BY <1>1, <1>2, <1>5, <2>2
      <3> HIDE DEF m
      <3>3. last[m] = s[i + m]
        BY <1>3, <3>1
      <3>4. ~(k < i)
        BY <1>1, <2>2
      <3> QED BY <3>1, <3>2, <3>3, <3>4
    <2>3. k < i \/ k >= i
      BY <1>1
    <2> QED BY <2>1, <2>2, <2>3
  <1> QED BY <1>4, <1>5, <1>6

(* How often a request is in the table.                                    *)
Count(rs, t) == Cardinality({k \in DOMAIN rs : rs[k] = t})

(* The positions of a request are finitely many, and none if it is absent. *)
LEMMA CountType ==
  ASSUME NEW rs \in Seq(Uuids), NEW t
  PROVE  /\ IsFiniteSet({k \in DOMAIN rs : rs[k] = t})
         /\ Count(rs, t) \in Nat
         /\ Count(rs, t) = 0 <=> \A k \in DOMAIN rs : rs[k] # t
  <1>1. IsFiniteSet(1 .. Len(rs))
    BY FS_Interval
  <1>2. IsFiniteSet({k \in DOMAIN rs : rs[k] = t})
    <2>1. {k \in DOMAIN rs : rs[k] = t} \in SUBSET (1 .. Len(rs))
      OBVIOUS
    <2> QED BY <1>1, <2>1, FS_Subset
  <1> QED BY <1>2, FS_CardinalityType, FS_EmptySet DEF Count

(* A request that comes.                                                   *)
LEMMA CountAppend ==
  ASSUME NEW rs \in Seq(Uuids), NEW t \in Uuids, NEW u
  PROVE  /\ Append(rs, t) \in Seq(Uuids)
         /\ Count(Append(rs, t), u) = Count(rs, u) + (IF u = t THEN 1 ELSE 0)
  <1> DEFINE S == {k \in DOMAIN rs : rs[k] = u}
             n == Len(rs) + 1
             T == {k \in DOMAIN Append(rs, t) : Append(rs, t)[k] = u}
  <1>1. n \in Nat /\ n \notin S
    OBVIOUS
  <1>2. T = IF u = t THEN S \cup {n} ELSE S
    OBVIOUS
  <1>3. IsFiniteSet(S)
    BY CountType
  <1>4. Cardinality(S \cup {n}) = Cardinality(S) + 1
    BY <1>1, <1>3, FS_AddElement
  <1>5. Count(rs, u) = Cardinality(S) /\ Count(Append(rs, t), u) = Cardinality(T) /\ Cardinality(S) \in Nat
    BY CountType DEF Count
  <1> HIDE DEF S, T
  <1> QED BY <1>2, <1>4, <1>5

(* A request that is unlinked.                                             *)
LEMMA CountRemove ==
  ASSUME NEW rs \in Seq(Uuids), NEW i \in DOMAIN rs, NEW u
  PROVE  /\ RemoveAt(rs, i) \in Seq(Uuids)
         /\ Count(RemoveAt(rs, i), u) = Count(rs, u) - (IF u = rs[i] THEN 1 ELSE 0)
  <1> DEFINE S == {k \in DOMAIN rs : rs[k] = u}
             rest == RemoveAt(rs, i)
             T == {k \in DOMAIN rest : rest[k] = u}
             back == [k \in T |-> IF k < i THEN k ELSE k + 1]
  <1>1. /\ i \in 1 .. Len(rs) /\ Len(rs) \in Nat
        /\ rest \in Seq(Uuids) /\ Len(rest) = Len(rs) - 1 /\ DOMAIN rest = 1 .. Len(rs) - 1
        /\ \A k \in 1 .. Len(rs) - 1 : rest[k] = IF k < i THEN rs[k] ELSE rs[k + 1]
    BY Removed
  <1>2. T = {k \in 1 .. Len(rs) - 1 : rest[k] = u} /\ S = {k \in 1 .. Len(rs) : rs[k] = u}
    BY <1>1
  <1> HIDE DEF rest
  <1>3. back \in Bijection(T, S \ {i})
    <2>1. back \in Injection(T, S \ {i})
      BY <1>1, <1>2 DEF Injection, IsInjective
    <2>2. ASSUME NEW s \in S \ {i}
          PROVE  \E k \in T : back[k] = s
      <3>1. CASE s < i
        <4>1. s \in T /\ back[s] = s
          BY <1>1, <1>2, <3>1
        <4> QED BY <4>1
      <3>2. CASE s > i
        <4>1. s - 1 \in T /\ back[s - 1] = s
          BY <1>1, <1>2, <3>2
        <4> QED BY <4>1
      <3>3. s < i \/ s > i
        BY <1>1, <1>2
      <3> QED BY <3>1, <3>2, <3>3
    <2> QED BY <2>1, <2>2 DEF Bijection, Injection, Surjection
  <1>4. IsFiniteSet(S) /\ Cardinality(S) \in Nat
    BY CountType DEF Count
  <1>5. IsFiniteSet(T) /\ Cardinality(T) = Cardinality(S \ {i})
    <2>1. IsFiniteSet(T)
      BY <1>1, CountType
    <2>2. ExistsBijection(T, S \ {i})
      BY <1>3 DEF ExistsBijection
    <2> HIDE DEF T, S, back
    <2> QED BY <2>1, <2>2, FS_Bijection
  <1>6. Cardinality(S \ {i}) = IF i \in S THEN Cardinality(S) - 1 ELSE Cardinality(S)
    <2> HIDE DEF S
    <2> QED BY <1>4, FS_RemoveElement
  <1>7. i \in S <=> u = rs[i]
    BY <1>1
  <1>8. Count(rs, u) = Cardinality(S) /\ Count(rest, u) = Cardinality(T)
    BY DEF Count
  <1> HIDE DEF S, T
  <1>9. Count(rest, u) = Count(rs, u) - (IF u = rs[i] THEN 1 ELSE 0)
    BY <1>4, <1>5, <1>6, <1>7, <1>8
  <1> QED BY <1>1, <1>9 DEF rest

(* A match is a request that fits.                                         *)
LEMMA CheckFits ==
  ASSUME NEW rs \in Seq(Uuids), NEW c
  PROVE  \/ Check(c, rs) = c
         \/ \E k \in DOMAIN rs : /\ Fits(c.transfer, rs[k])
                                 /\ Check(c, rs) = [c EXCEPT !.uuid = rs[k], !.ready = FALSE]
  <1> DEFINE I == {k \in 1 .. Len(rs) : Fits(c.transfer, rs[k])}
  <1>1. I \in SUBSET (1 .. Len(rs)) /\ Len(rs) \in Nat
    OBVIOUS
  <1>2. CASE I = {}
    BY <1>2 DEF Check, SelectInSeq
  <1>3. CASE I # {}
    <2>1. Min(I) \in I
      <3> HIDE DEF I
      <3> QED BY <1>1, <1>3, Extremes
    <2>2. Min(I) \in DOMAIN rs /\ Fits(c.transfer, rs[Min(I)]) /\ Min(I) # 0
      BY <2>1
    <2>3. Check(c, rs) = [c EXCEPT !.uuid = rs[Min(I)], !.ready = FALSE]
      BY <1>3, <2>2 DEF Check, SelectInSeq
    <2> QED BY <2>2, <2>3
  <1> QED BY <1>2, <1>3

(* The scan finds a request of the uuid it looks for, if there is one.     *)
LEMMA FoundIsThere ==
  ASSUME NEW rs \in Seq(Uuids), NEW u
  PROVE  /\ Found(rs, u) = 0 <=> \A k \in DOMAIN rs : rs[k] # u
         /\ Found(rs, u) # 0 => Found(rs, u) \in DOMAIN rs /\ rs[Found(rs, u)] = u
  <1> DEFINE I == {k \in 1 .. Len(rs) : rs[k] = u}
  <1>1. I \in SUBSET (1 .. Len(rs)) /\ Len(rs) \in Nat
    OBVIOUS
  <1>2. Found(rs, u) = IF I # {} THEN Max(I) ELSE 0
    BY DEF Found, SelectLastInSeq
  <1>3. I # {} => Max(I) \in I
    <2> HIDE DEF I
    <2> QED BY <1>1, Extremes
  <1>4. I = {} <=> \A k \in DOMAIN rs : rs[k] # u
    OBVIOUS
  <1> QED BY <1>2, <1>3, <1>4

-----------------------------------------------------------------------------
(* The invariant.                                                          *)

(* Children whose clients were matched with request u.                     *)
Used(u) == Cardinality({f \in forked : f.uuid = u})

ClientState == [transfer : Uuids, uuid : Uuids \union {None}, ready : BOOLEAN]

TableTypes ==
  /\ requests \in Seq(Uuids)
  /\ clients \in Seq(ClientState)
  /\ sent \in [Uuids -> Nat] /\ arrived \in [Uuids -> Nat]
  /\ given_up \in [Uuids -> Nat] /\ dropped \in [Uuids -> Nat]
  /\ IsFiniteSet(forked)

(* Of the transfers of one address that have begun all but one are over.   *)
InTurn == \A t, u \in Uuids : Rivals(t, u) /\ Begun(t) /\ Begun(u) => Over(t) \/ Over(u)

(* A transfer has one client at a time, and none once it is handed over.   *)
OneClient ==
  /\ \A j, k \in DOMAIN clients : clients[j].transfer = clients[k].transfer => j = k
  /\ \A k \in DOMAIN clients :
       LET t == clients[k].transfer
       IN  arrived[t] = given_up[t] + 1 /\ ~HandedOver(t)
  /\ \A t \in Uuids : arrived[t] <= Arrivals[t]

(* The requests that a client of transfer t may be matched with.           *)
Mine(t) == {u \in Uuids : u = t \/ (Rivals(t, u) /\ Over(u) /\ Leaves(u))}

(* A client that was matched has such a request, and it is in the table.   *)
WellMatched(c, rs, M) ==
  /\ c.uuid = None => ~c.ready
  /\ c.uuid # None => c.uuid \in M /\ \E j \in DOMAIN rs : rs[j] = c.uuid
Matched == \A k \in DOMAIN clients : WellMatched(clients[k], requests, Mine(clients[k].transfer))

ChildrenOwn ==
  \A f \in forked :
    /\ f.transfer \in Uuids /\ arrived[f.transfer] > given_up[f.transfer]
    /\ f.uuid \in Mine(f.transfer) /\ f.request = f.uuid

TableInv == TableTypes /\ InTurn /\ OneClient /\ Matched /\ ChildrenOwn /\ CopiesAccounted

-----------------------------------------------------------------------------
(* What follows from it.                                                   *)

(* The fields of a client.                                                 *)
LEMMA ClientTypes ==
  ASSUME TableTypes, NEW k \in DOMAIN clients
  PROVE  /\ clients[k] \in ClientState
         /\ clients[k].transfer \in Uuids /\ clients[k].uuid \in Uuids \union {None}
         /\ clients[k].ready \in BOOLEAN
  <1>1. clients[k] \in ClientState
    BY DEF TableTypes
  <1> QED BY <1>1 DEF ClientState

(* Nothing that a transfer did or left is undone.                          *)
LEMMA Grown ==
  ASSUME forked \subseteq forked', NEW t, NEW u \in Mine(t),
         \A v \in Uuids : (sent[v] > 1 => sent'[v] > 1) /\ (given_up[v] > 0 => given_up'[v] > 0)
  PROVE  u \in Mine(t)'
  <1>1. Over(u) => Over(u)'
    BY DEF Over, HandedOver, Mine
  <1>2. Leaves(u) => Leaves(u)'
    BY DEF Leaves, Mine
  <1> QED BY <1>1, <1>2 DEF Mine, Rivals

(* Copies in the table and copies used up are what has come.               *)
LEMMA Copied ==
  ASSUME TableTypes, CopiesAccounted, NEW u \in Uuids
  PROVE  /\ IsFiniteSet({f \in forked : f.uuid = u})
         /\ Used(u) \in Nat /\ dropped[u] \in Nat /\ sent[u] \in Nat /\ Count(requests, u) \in Nat
         /\ Count(requests, u) = sent[u] - Used(u) - dropped[u]
  <1>1. IsFiniteSet({f \in forked : f.uuid = u})
    BY FS_Subset DEF TableTypes
  <1>2. Used(u) \in Nat
    BY <1>1, FS_CardinalityType DEF Used
  <1>3. Count(requests, u) \in Nat
    BY CountType DEF TableTypes
  <1> QED BY <1>1, <1>2, <1>3 DEF TableTypes, CopiesAccounted, Count, Used

(* A transfer that is over and has left nothing: its request came once,    *)
(* and its own child took it.                                              *)
LEMMA NothingLeft ==
  ASSUME TableInv, NEW u \in Uuids, Over(u), ~Leaves(u)
  PROVE  sent[u] >= 1 /\ Count(requests, u) = 0
  <1>1. PICK f \in forked : f.transfer = u /\ f.uuid = u
    BY DEF Over, Leaves, HandedOver
  <1>2. /\ IsFiniteSet({g \in forked : g.uuid = u})
        /\ Used(u) \in Nat /\ dropped[u] \in Nat /\ sent[u] \in Nat /\ Count(requests, u) \in Nat
        /\ Count(requests, u) = sent[u] - Used(u) - dropped[u]
    BY Copied DEF TableInv
  <1>3. Used(u) # 0
    <2> DEFINE S == {g \in forked : g.uuid = u}
    <2>1. S # {} /\ Used(u) = Cardinality(S)
      BY <1>1 DEF Used
    <2> HIDE DEF S
    <2> QED BY <1>2, <2>1, FS_EmptySet DEF S
  <1>4. sent[u] <= 1
    BY <1>2 DEF Leaves
  <1> QED BY <1>2, <1>3, <1>4

(* A request in the table has come.                                        *)
LEMMA EntryCame ==
  ASSUME TableInv, NEW k \in DOMAIN requests
  PROVE  /\ requests[k] \in Uuids /\ Begun(requests[k])
         /\ Over(requests[k]) => Leaves(requests[k])
  <1>1. PICK u \in Uuids : u = requests[k]
    BY DEF TableInv, TableTypes
  <1>2. Count(requests, u) # 0
    BY <1>1, CountType DEF TableInv, TableTypes
  <1>3. sent[u] > 0
    <2>1. /\ Used(u) \in Nat /\ dropped[u] \in Nat /\ sent[u] \in Nat /\ Count(requests, u) \in Nat
          /\ Count(requests, u) = sent[u] - Used(u) - dropped[u]
      BY Copied DEF TableInv
    <2> QED BY <1>2, <2>1
  <1>4. Over(u) => Leaves(u)
    BY <1>2, NothingLeft
  <1> QED BY <1>1, <1>3, <1>4 DEF Begun

(* A client's transfer has begun, and if it is a CLIENT's it is not over.  *)
LEMMA LiveClient ==
  ASSUME TableInv, NEW k \in DOMAIN clients
  PROVE  LET t == clients[k].transfer
         IN  /\ t \in Uuids /\ Begun(t) /\ ~HandedOver(t) /\ arrived[t] = given_up[t] + 1
             /\ type[t] = "CLIENT" => ~Over(t)
  <1> DEFINE t == clients[k].transfer
  <1>1. /\ t \in Uuids /\ arrived[t] \in Nat /\ given_up[t] \in Nat
        /\ arrived[t] = given_up[t] + 1 /\ ~HandedOver(t) /\ arrived[t] <= Arrivals[t]
    BY ClientTypes DEF TableInv, TableTypes, OneClient
  <1>2. type[t] = "CLIENT" => given_up[t] = 0
    BY <1>1, ControllerTableAssumption
  <1> QED BY <1>1, <1>2 DEF Begun, Over

(* No two clients are matched with the same request.                       *)
LEMMA NoSharing ==
  ASSUME TableInv, NEW i \in DOMAIN clients, NEW k \in DOMAIN clients, i # k, clients[i].uuid # None
  PROVE  clients[k].uuid # clients[i].uuid
  <1> DEFINE t == clients[i].transfer
             v == clients[k].transfer
             u == clients[i].uuid
  <1>1. t # v
    BY DEF TableInv, OneClient
  <1>2. /\ t \in Uuids /\ Begun(t) /\ (type[t] = "CLIENT" => ~Over(t))
        /\ v \in Uuids /\ Begun(v) /\ (type[v] = "CLIENT" => ~Over(v))
    BY LiveClient
  <1>3. u \in Mine(t)
    BY DEF TableInv, Matched, WellMatched
  <1>4. SUFFICES ASSUME clients[k].uuid = u
                 PROVE  FALSE
    OBVIOUS
  <1>5. u \in Mine(v)
    BY <1>4 DEF TableInv, Matched, WellMatched
  <1> HIDE DEF t, u, v
  <1>6. CASE u = t
    BY <1>1, <1>2, <1>5, <1>6 DEF Mine, Rivals
  <1>7. CASE u = v
    BY <1>1, <1>2, <1>3, <1>7 DEF Mine, Rivals
  <1>8. CASE u # t /\ u # v
    <2>1. Rivals(t, v)
      BY <1>1, <1>3, <1>5, <1>8 DEF Mine, Rivals
    <2> QED BY <1>2, <2>1 DEF TableInv, InTurn, Rivals
  <1> QED BY <1>6, <1>7, <1>8

(* When it is the turn of a transfer, what fits it in the table is its own *)
(* or was left there.                                                      *)
LEMMA FitsMine ==
  ASSUME TableInv, NEW t \in Uuids, NEW k \in DOMAIN requests, Fits(t, requests[k]),
         \A u \in Uuids : Rivals(t, u) /\ Begun(u) => Over(u)
  PROVE  requests[k] \in Mine(t)
  <1>1. requests[k] \in Uuids /\ Begun(requests[k]) /\ (Over(requests[k]) => Leaves(requests[k]))
    BY EntryCame
  <1>2. requests[k] # t => Rivals(t, requests[k])
    BY <1>1, ControllerTableAssumption DEF Fits, Rivals
  <1> QED BY <1>1, <1>2 DEF Mine

(* A client that looks itself up finds such a request or none.             *)
LEMMA CheckKeeps ==
  ASSUME NEW rs \in Seq(Uuids), NEW c \in ClientState, NEW M, WellMatched(c, rs, M),
         \A k \in DOMAIN rs : Fits(c.transfer, rs[k]) => rs[k] \in M
  PROVE  /\ Check(c, rs) \in ClientState
         /\ Check(c, rs).transfer = c.transfer
         /\ WellMatched(Check(c, rs), rs, M)
  <1>1. CASE Check(c, rs) = c
    BY <1>1
  <1>2. ASSUME NEW k \in DOMAIN rs, Fits(c.transfer, rs[k]),
               Check(c, rs) = [c EXCEPT !.uuid = rs[k], !.ready = FALSE]
        PROVE  /\ Check(c, rs) \in ClientState
               /\ Check(c, rs).transfer = c.transfer
               /\ WellMatched(Check(c, rs), rs, M)
    <2> DEFINE d == Check(c, rs)
    <2>1. rs[k] \in M /\ rs[k] \in Uuids /\ c.transfer \in Uuids
      BY <1>2 DEF ClientState
    <2>2. d = [transfer |-> c.transfer, uuid |-> rs[k], ready |-> FALSE]
      BY <1>2, <2>1 DEF ClientState
    <2> HIDE DEF d
    <2>3. d \in ClientState /\ d.transfer = c.transfer /\ d.uuid = rs[k] /\ d.ready = FALSE
      BY <2>1, <2>2 DEF ClientState
    <2>4. WellMatched(d, rs, M)
      BY <1>2, <2>1, <2>3, ControllerTableAssumption DEF WellMatched
    <2> QED BY <2>3, <2>4 DEF d
  <1> QED BY <1>1, <1>2, CheckFits

-----------------------------------------------------------------------------
(* The actions.                                                            *)

(* A transfer begins in its turn.                                          *)
LEMMA TurnKeeps ==
  ASSUME InTurn, NEW t \in Uuids, Turn(t), \A u \in Uuids : Over(u)' <=> Over(u),
         \A u \in Uuids \ {t} : Begun(u)' <=> Begun(u)
  PROVE  InTurn'
  <1> SUFFICES ASSUME NEW u \in Uuids, NEW v \in Uuids, Rivals(u, v), Begun(u)', Begun(v)'
               PROVE  Over(u) \/ Over(v)
    BY DEF InTurn, Rivals
  <1>1. CASE u # t /\ v # t
    BY <1>1 DEF InTurn
  <1>2. CASE u = t
    BY <1>2 DEF InTurn, Turn, Rivals
  <1>3. CASE v = t
    BY <1>3 DEF InTurn, Turn, Rivals
  <1> QED BY <1>1, <1>2, <1>3

(* A request comes, and the clients that wait are matched anew.            *)
LEMMA ReceiveKeepsTable ==
  ASSUME TableInv, NEW t \in Uuids, Receive(t)
  PROVE  TableInv'
  <1>1. /\ Turn(t)
        /\ sent' = [sent EXCEPT ![t] = @ + 1]
        /\ requests' = Append(requests, t)
        /\ clients' = [k \in DOMAIN clients |-> Check(clients[k], requests')]
        /\ arrived' = arrived /\ forked' = forked /\ given_up' = given_up /\ dropped' = dropped
    BY DEF Receive
  <1>2. \A u \in Uuids : (HandedOver(u)' <=> HandedOver(u)) /\ (Over(u)' <=> Over(u))
    BY <1>1 DEF HandedOver, Over
  <1>3. /\ requests \in Seq(Uuids) /\ requests' \in Seq(Uuids)
        /\ \A u : Count(requests', u) = Count(requests, u) + (IF u = t THEN 1 ELSE 0)
    BY <1>1, CountAppend DEF TableInv, TableTypes
  <1>4. /\ sent \in [Uuids -> Nat] /\ sent' \in [Uuids -> Nat]
        /\ \A u \in Uuids : sent'[u] = sent[u] + (IF u = t THEN 1 ELSE 0)
    BY <1>1 DEF TableInv, TableTypes
  <1>5. \A v, u : u \in Mine(v) => u \in Mine(v)'
    BY <1>1, <1>4, Grown
  <1>6. ChildrenOwn'
    BY <1>1, <1>5 DEF TableInv, ChildrenOwn
  <1>7. CopiesAccounted'
    <2> SUFFICES ASSUME NEW u \in Uuids
                 PROVE  Count(requests', u) = sent'[u] - Used(u) - dropped[u]
      BY <1>1 DEF CopiesAccounted, Count, Used
    <2>1. /\ Used(u) \in Nat /\ dropped[u] \in Nat /\ sent[u] \in Nat /\ Count(requests, u) \in Nat
          /\ Count(requests, u) = sent[u] - Used(u) - dropped[u]
      BY Copied DEF TableInv
    <2>2. Count(requests', u) = Count(requests, u) + (IF u = t THEN 1 ELSE 0)
      BY <1>3, Zenon
    <2>3. CASE u = t
      BY <1>4, <2>1, <2>2, <2>3
    <2>4. CASE u # t
      BY <1>4, <2>1, <2>2, <2>4
    <2> QED BY <2>3, <2>4
  <1>8. InTurn'
    <2>1. \A x \in Uuids \ {t} : Begun(x)' <=> Begun(x)
      BY <1>1, <1>4 DEF Begun
    <2> QED BY <1>1, <1>2, <2>1, TurnKeeps DEF TableInv
  <1>9. DOMAIN clients' = DOMAIN clients /\ DOMAIN clients = 1 .. Len(clients) /\ Len(clients) \in Nat
    BY <1>1 DEF TableInv, TableTypes
  <1>10. ASSUME NEW k \in DOMAIN clients, NEW v, v = clients[k].transfer
         PROVE  /\ clients'[k] \in ClientState
                /\ clients'[k].transfer = v
                /\ WellMatched(clients'[k], requests', Mine(v)')
    <2> DEFINE c == clients[k]
    <2>1. /\ c \in ClientState /\ v \in Uuids /\ Begun(v) /\ ~HandedOver(v)
          /\ type[v] = "CLIENT" => ~Over(v)
      BY <1>10, ClientTypes, LiveClient DEF TableInv
    <2>2. WellMatched(c, requests', Mine(v)')
      <3>1. WellMatched(c, requests, Mine(v))
        BY <1>10 DEF TableInv, Matched
      <3>2. \A j \in DOMAIN requests : j \in DOMAIN requests' /\ requests'[j] = requests[j]
        BY <1>1, <1>3
      <3> QED BY <1>5, <3>1, <3>2 DEF WellMatched
    <2>3. \A u \in Uuids : Rivals(v, u) /\ Begun(u) => Over(u)
      BY <2>1 DEF TableInv, InTurn, Rivals
    <2>4. ASSUME NEW j \in DOMAIN requests', Fits(v, requests'[j])
          PROVE  requests'[j] \in Mine(v)'
      <3>1. CASE j \in DOMAIN requests
        <4>1. requests'[j] = requests[j]
          BY <1>1, <1>3, <3>1
        <4>2. requests[j] \in Mine(v)
          BY <2>1, <2>3, <2>4, <3>1, <4>1, FitsMine
        <4> QED BY <1>5, <4>1, <4>2
      <3>2. CASE j \notin DOMAIN requests
        <4>1. requests'[j] = t
          BY <1>1, <1>3, <3>2
        <4>2. CASE t = v
          BY <2>1, <4>1, <4>2 DEF Mine
        <4>3. CASE t # v
          <5>1. Rivals(v, t) /\ Rivals(t, v)
            BY <2>1, <2>4, <4>1, <4>3, ControllerTableAssumption DEF Fits, Rivals
          <5>2. Over(t)
            BY <1>1, <2>1, <2>3, <5>1 DEF Turn, Rivals
          <5>3. Leaves(t)'
            <6>1. CASE Leaves(t)
              BY <1>1, <1>4, <6>1 DEF Leaves
            <6>2. CASE ~Leaves(t)
              BY <1>4, <5>2, <6>2, NothingLeft DEF Leaves
            <6> QED BY <6>1, <6>2
          <5> QED BY <1>2, <4>1, <5>1, <5>2, <5>3 DEF Mine, Rivals
        <4> QED BY <4>2, <4>3
      <3> QED BY <3>1, <3>2
    <2>5. clients'[k] = Check(c, requests')
      BY <1>1
    <2> DEFINE M == Mine(v)'
    <2> HIDE DEF M
    <2>6. /\ WellMatched(c, requests', M)
          /\ \A j \in DOMAIN requests' : Fits(c.transfer, requests'[j]) => requests'[j] \in M
      BY <1>10, <2>2, <2>4 DEF M
    <2> HIDE DEF c
    <2>7. /\ Check(c, requests') \in ClientState
          /\ Check(c, requests').transfer = c.transfer
          /\ WellMatched(Check(c, requests'), requests', M)
      BY <1>3, <2>1, <2>6, CheckKeeps
    <2> QED BY <1>10, <2>5, <2>7 DEF c, M
  <1>11. TableTypes'
    <2>1. clients' \in Seq(ClientState)
      <3>1. clients' = [k \in 1 .. Len(clients) |-> clients'[k]]
        BY <1>1, <1>9
      <3> QED BY <1>9, <1>10, <3>1
    <2> QED BY <1>1, <1>3, <1>4, <2>1 DEF TableTypes, TableInv
  <1>12. OneClient'
    <2>1. \A k \in DOMAIN clients : clients[k].transfer \in Uuids
      BY ClientTypes DEF TableInv
    <2> QED BY <1>1, <1>2, <1>9, <1>10, <2>1 DEF TableInv, OneClient
  <1>13. Matched'
    BY <1>9, <1>10 DEF Matched, Mine
  <1> QED BY <1>6, <1>7, <1>8, <1>11, <1>12, <1>13 DEF TableInv

(* A client comes: it is looked up in the table at once.                   *)
LEMMA ArriveKeepsTable ==
  ASSUME TableInv, NEW t \in Uuids, Arrive(t)
  PROVE  TableInv'
  <1> DEFINE c == [transfer |-> t, uuid |-> None, ready |-> FALSE]
             n == Len(clients)
  <1>1. /\ arrived[t] < Arrivals[t] /\ arrived[t] = given_up[t] /\ Turn(t)
        /\ arrived' = [arrived EXCEPT ![t] = @ + 1]
        /\ clients' = Append(clients, Check(c, requests))
        /\ requests' = requests /\ sent' = sent /\ forked' = forked
        /\ given_up' = given_up /\ dropped' = dropped
    BY DEF Arrive
  <1>2. \A u \in Uuids : (HandedOver(u)' <=> HandedOver(u)) /\ (Over(u)' <=> Over(u))
    BY <1>1 DEF HandedOver, Over
  <1>3. /\ arrived \in [Uuids -> Nat] /\ given_up \in [Uuids -> Nat] /\ arrived' \in [Uuids -> Nat]
        /\ Arrivals \in [Uuids -> Nat \ {0}]
        /\ \A u \in Uuids : arrived'[u] = arrived[u] + (IF u = t THEN 1 ELSE 0)
    <2>1. arrived \in [Uuids -> Nat] /\ given_up \in [Uuids -> Nat]
      BY DEF TableInv, TableTypes
    <2> QED BY <1>1, <2>1, ControllerTableAssumption
  <1>4. ~HandedOver(t)
    BY <1>1, <1>3 DEF TableInv, ChildrenOwn, HandedOver
  <1>5. \A v, u : u \in Mine(v) => u \in Mine(v)'
    BY <1>1, Grown
  <1>6. ChildrenOwn' /\ CopiesAccounted'
    <2>1. ASSUME NEW f \in forked
          PROVE  /\ f.transfer \in Uuids /\ arrived'[f.transfer] > given_up[f.transfer]
                 /\ f.uuid \in Mine(f.transfer)' /\ f.request = f.uuid
      BY <1>3, <1>5 DEF TableInv, ChildrenOwn
    <2> QED BY <1>1, <2>1 DEF TableInv, ChildrenOwn, CopiesAccounted
  <1>7. InTurn'
    <2>1. \A x \in Uuids \ {t} : Begun(x)' <=> Begun(x)
      BY <1>1, <1>3 DEF Begun
    <2> QED BY <1>1, <1>2, <2>1, TurnKeeps DEF TableInv
  <1>8. requests \in Seq(Uuids) /\ clients \in Seq(ClientState) /\ n \in Nat
    BY DEF TableInv, TableTypes
  <1>9. \A u \in Uuids : Rivals(t, u) /\ Begun(u) => Over(u)
    <2> SUFFICES ASSUME NEW u \in Uuids, Rivals(t, u), Begun(u)
                 PROVE  Over(u)
      OBVIOUS
    <2>1. arrived[t] = 0 /\ given_up[t] = 0
      BY <1>1, <1>3, ControllerTableAssumption DEF Rivals
    <2>2. ~Over(t)
      BY <1>4, <2>1 DEF Over
    <2> QED BY <1>1, <2>2 DEF Turn, TableInv, InTurn
  <1> DEFINE d == Check(c, requests)
  <1>10. d \in ClientState /\ d.transfer = t /\ WellMatched(d, requests, Mine(t))
    <2> DEFINE M == Mine(t)
    <2>1. c \in ClientState /\ c.transfer = t /\ WellMatched(c, requests, M)
      BY DEF ClientState, WellMatched
    <2>2. \A j \in DOMAIN requests : Fits(t, requests[j]) => requests[j] \in M
      BY <1>9, FitsMine
    <2> HIDE DEF c, M
    <2>3. d \in ClientState /\ d.transfer = t /\ WellMatched(d, requests, M)
      BY <1>8, <2>1, <2>2, CheckKeeps
    <2> QED BY <2>3 DEF M
  <1> HIDE DEF c, d
  <1>11. /\ clients' \in Seq(ClientState) /\ DOMAIN clients' = 1 .. n + 1 /\ DOMAIN clients = 1 .. n
         /\ clients'[n + 1] = d /\ \A k \in DOMAIN clients : clients'[k] = clients[k]
    BY <1>1, <1>8, <1>10 DEF d
  <1>12. TableTypes'
    BY <1>1, <1>3, <1>11 DEF TableTypes, TableInv
  <1>13. \A k \in DOMAIN clients' : k \in DOMAIN clients \/ k = n + 1
    BY <1>8, <1>11
  <1>14. OneClient'
    <2>1. ASSUME NEW k \in DOMAIN clients, NEW v, v = clients[k].transfer
          PROVE  v \in Uuids /\ v # t /\ arrived[v] = given_up[v] + 1 /\ ~HandedOver(v)
      BY <1>1, <1>3, <2>1, LiveClient
    <2>2. ASSUME NEW k \in DOMAIN clients', NEW v, v = clients'[k].transfer
          PROVE  arrived'[v] = given_up[v] + 1 /\ \A f \in forked : f.transfer # v
      <3>1. CASE k \in DOMAIN clients
        <4>1. /\ v \in Uuids /\ v # t /\ arrived[v] = given_up[v] + 1
              /\ \A f \in forked : f.transfer # v
          BY <1>11, <2>1, <2>2, <3>1 DEF HandedOver
        <4>2. arrived'[v] = arrived[v] + 0
          BY <1>3, <4>1
        <4> QED BY <1>3, <4>1, <4>2
      <3>2. CASE k = n + 1
        BY <1>1, <1>3, <1>4, <1>10, <1>11, <2>2, <3>2 DEF HandedOver
      <3> QED BY <1>13, <2>2, <3>1, <3>2
    <2>3. ASSUME NEW j \in DOMAIN clients', NEW k \in DOMAIN clients',
                 clients'[j].transfer = clients'[k].transfer
          PROVE  j = k
      <3>1. \A x, y \in DOMAIN clients : clients[x].transfer = clients[y].transfer => x = y
        BY DEF TableInv, OneClient
      <3>2. \A x \in DOMAIN clients : clients'[x].transfer = clients[x].transfer /\ clients[x].transfer # t
        BY <1>11, <2>1
      <3>3. clients'[n + 1].transfer = t
        BY <1>10, <1>11
      <3>4. (j \in DOMAIN clients \/ j = n + 1) /\ (k \in DOMAIN clients \/ k = n + 1)
        BY <1>13
      <3> QED BY <2>3, <3>1, <3>2, <3>3, <3>4
    <2>4. \A u \in Uuids : arrived'[u] <= Arrivals[u]
      <3>1. \A u \in Uuids : arrived[u] <= Arrivals[u]
        BY DEF TableInv, OneClient
      <3> QED BY <1>1, <1>3, <3>1
    <2> QED BY <1>1, <2>2, <2>3, <2>4 DEF OneClient, HandedOver
  <1>15. Matched'
    <2> SUFFICES ASSUME NEW k \in DOMAIN clients', NEW v, v = clients'[k].transfer
                 PROVE  WellMatched(clients'[k], requests, Mine(v)')
      BY <1>1 DEF Matched, WellMatched, Mine
    <2>1. CASE k \in DOMAIN clients
      <3>1. WellMatched(clients[k], requests, Mine(v)) /\ clients'[k] = clients[k]
        BY <1>11, <2>1 DEF TableInv, Matched
      <3> QED BY <1>5, <3>1 DEF WellMatched
    <2>2. CASE k = n + 1
      BY <1>5, <1>10, <1>11, <2>2 DEF WellMatched
    <2> QED BY <1>13, <2>1, <2>2
  <1> QED BY <1>6, <1>7, <1>12, <1>14, <1>15 DEF TableInv

(* The connections of a matched client are there.                          *)
LEMMA ConnectedKeepsTable ==
  ASSUME TableInv, NEW i \in DOMAIN clients, Connected(i)
  PROVE  TableInv'
  <1>1. /\ clients[i].uuid # None
        /\ clients' = [clients EXCEPT ![i].ready = TRUE]
        /\ requests' = requests /\ sent' = sent /\ arrived' = arrived /\ forked' = forked
        /\ given_up' = given_up /\ dropped' = dropped
    BY DEF Connected
  <1>2. clients \in Seq(ClientState) /\ clients[i] \in ClientState
    BY ClientTypes DEF TableInv, TableTypes
  <1>3. [clients[i] EXCEPT !.ready = TRUE] \in ClientState
    BY <1>2 DEF ClientState
  <1>4. clients' \in Seq(ClientState) /\ DOMAIN clients' = DOMAIN clients
    BY <1>1, <1>2, <1>3
  <1>5. ASSUME NEW k \in DOMAIN clients
        PROVE  /\ clients'[k].transfer = clients[k].transfer /\ clients'[k].uuid = clients[k].uuid
               /\ k # i => clients'[k] = clients[k]
    BY <1>1, <1>2, ClientTypes DEF ClientState, TableInv
  <1>6. InTurn' /\ ChildrenOwn' /\ CopiesAccounted'
    BY <1>1 DEF TableInv, InTurn, ChildrenOwn, CopiesAccounted, Begun, Over, HandedOver, Mine, Leaves
  <1>7. TableTypes'
    BY <1>1, <1>4 DEF TableInv, TableTypes
  <1>8. OneClient'
    BY <1>1, <1>4, <1>5 DEF TableInv, OneClient, HandedOver
  <1>9. Matched'
    <2> SUFFICES ASSUME NEW k \in DOMAIN clients
                 PROVE  WellMatched(clients'[k], requests, Mine(clients[k].transfer))
      BY <1>1, <1>4, <1>5 DEF Matched, WellMatched, Mine, Over, HandedOver, Leaves
    <2>1. WellMatched(clients[k], requests, Mine(clients[k].transfer))
      BY DEF TableInv, Matched
    <2>2. CASE k = i
      BY <1>1, <1>5, <2>1, <2>2 DEF WellMatched
    <2>3. CASE k # i
      BY <1>5, <2>1, <2>3
    <2> QED BY <2>2, <2>3
  <1> QED BY <1>6, <1>7, <1>8, <1>9 DEF TableInv

(* What the scan does with a client: the request it takes out is the one   *)
(* that the client was matched with.                                       *)
LEMMA ScanTakes ==
  ASSUME TableInv, NEW i \in DOMAIN clients, Scan(i)
  PROVE  LET c == clients[i]
             t == c.transfer
             u == c.uuid
             child == [transfer |-> t, uuid |-> u, request |-> u]
         IN  /\ clients' = RemoveAt(clients, i) /\ sent' = sent /\ arrived' = arrived
             /\ u = None => requests' = requests /\ dropped' = dropped /\ ~c.ready
             /\ u # None => /\ u \in Uuids /\ u \in Mine(t)
                            /\ \E r \in DOMAIN requests : requests[r] = u /\ requests' = RemoveAt(requests, r)
             /\ c.ready => forked' = forked \union {child} /\ given_up' = given_up /\ dropped' = dropped
             /\ ~c.ready => /\ forked' = forked /\ given_up' = [given_up EXCEPT ![t] = @ + 1]
                            /\ u # None => dropped' = [dropped EXCEPT ![u] = @ + 1]
  <1> DEFINE c == clients[i]
             t == c.transfer
             u == c.uuid
             r == Found(requests, u)
  <1>1. u \in Uuids \union {None} /\ requests \in Seq(Uuids) /\ c.ready \in BOOLEAN
    BY ClientTypes DEF TableInv, TableTypes
  <1>2. /\ u = None => ~c.ready
        /\ u # None => u \in Mine(t) /\ \E j \in DOMAIN requests : requests[j] = u
    BY DEF TableInv, Matched, WellMatched
  <1>3. /\ r = 0 <=> \A j \in DOMAIN requests : requests[j] # u
        /\ r # 0 => r \in DOMAIN requests /\ requests[r] = u
    BY <1>1, FoundIsThere
  <1>4. /\ u = None => r = 0
        /\ u # None => r # 0 /\ r \in DOMAIN requests /\ requests[r] = u
    <2>1. u = None => \A j \in DOMAIN requests : requests[j] # u
      BY <1>1, ControllerTableAssumption
    <2> HIDE DEF r, u, t
    <2> QED BY <1>2, <1>3, <2>1
  <1>5. /\ clients' = RemoveAt(clients, i) /\ sent' = sent /\ arrived' = arrived
        /\ requests' = IF r = 0 THEN requests ELSE RemoveAt(requests, r)
        /\ c.ready /\ r # 0 => /\ forked' = forked \union
                                    {[transfer |-> t, uuid |-> u, request |-> requests[r]]}
                               /\ given_up' = given_up /\ dropped' = dropped
        /\ ~(c.ready /\ r # 0) => /\ given_up' = [given_up EXCEPT ![t] = @ + 1] /\ forked' = forked
                                  /\ dropped' = IF u = None THEN dropped ELSE [dropped EXCEPT ![u] = @ + 1]
    BY DEF Scan, Unlinked
  <1> HIDE DEF r
  <1> QED BY <1>1, <1>2, <1>4, <1>5

(* The scan hands the client over or gives it up, and its request goes.    *)
LEMMA ScanKeepsTable ==
  ASSUME TableInv, NEW i \in DOMAIN clients, Scan(i)
  PROVE  TableInv'
  <1> DEFINE n == Len(clients)
  <1>0. PICK c, t, u, child : /\ c = clients[i] /\ t = c.transfer /\ u = c.uuid
                              /\ child = [transfer |-> t, uuid |-> u, request |-> u]
    OBVIOUS
  <1>1. /\ clients' = RemoveAt(clients, i) /\ sent' = sent /\ arrived' = arrived
        /\ u = None => requests' = requests /\ dropped' = dropped /\ ~c.ready
        /\ u # None => /\ u \in Uuids /\ u \in Mine(t)
                       /\ \E r \in DOMAIN requests : requests[r] = u /\ requests' = RemoveAt(requests, r)
        /\ c.ready => forked' = forked \union {child} /\ given_up' = given_up /\ dropped' = dropped
        /\ ~c.ready => /\ forked' = forked /\ given_up' = [given_up EXCEPT ![t] = @ + 1]
                       /\ u # None => dropped' = [dropped EXCEPT ![u] = @ + 1]
    BY <1>0, ScanTakes
  <1>2. /\ t \in Uuids /\ ~HandedOver(t) /\ arrived[t] = given_up[t] + 1
        /\ u \in Uuids \union {None} /\ c.ready \in BOOLEAN
        /\ given_up \in [Uuids -> Nat] /\ dropped \in [Uuids -> Nat] /\ arrived \in [Uuids -> Nat]
    BY <1>0, LiveClient, ClientTypes DEF TableInv, TableTypes
  <1>3. child.transfer = t /\ child.uuid = u /\ child.request = u /\ child \notin forked
    BY <1>0, <1>2 DEF HandedOver
  <1>4. /\ given_up' \in [Uuids -> Nat] /\ dropped' \in [Uuids -> Nat]
        /\ \A v \in Uuids : given_up'[v] = given_up[v] + (IF v = t /\ ~c.ready THEN 1 ELSE 0)
        /\ \A v \in Uuids : dropped'[v] = dropped[v] + (IF v = u /\ ~c.ready THEN 1 ELSE 0)
    <2>1. CASE c.ready
      BY <1>1, <1>2, <2>1
    <2>2. CASE ~c.ready
      <3>1. u = None => u \notin Uuids
        BY ControllerTableAssumption
      <3>2. CASE u = None
        BY <1>1, <1>2, <2>2, <3>1, <3>2
      <3>3. CASE u # None
        BY <1>1, <1>2, <2>2, <3>3
      <3> QED BY <3>2, <3>3
    <2> QED BY <2>1, <2>2
  <1>5. /\ requests \in Seq(Uuids) /\ requests' \in Seq(Uuids)
        /\ \A v \in Uuids : Count(requests', v) = Count(requests, v) - (IF v = u THEN 1 ELSE 0)
    <2>1. requests \in Seq(Uuids)
      BY DEF TableInv, TableTypes
    <2>2. CASE u = None
      <3>1. \A v \in Uuids : v # u /\ Count(requests, v) \in Nat
        BY <2>1, <2>2, CountType, ControllerTableAssumption
      <3> QED BY <1>1, <2>1, <2>2, <3>1
    <2>3. CASE u # None
      <3>1. PICK r \in DOMAIN requests : requests[r] = u /\ requests' = RemoveAt(requests, r)
        BY <1>1, <2>3
      <3>2. ASSUME NEW v
            PROVE  /\ RemoveAt(requests, r) \in Seq(Uuids)
                   /\ Count(RemoveAt(requests, r), v) = Count(requests, v) - (IF v = requests[r] THEN 1 ELSE 0)
        BY <2>1, CountRemove
      <3> QED BY <2>1, <3>1, <3>2
    <2> QED BY <2>2, <2>3
  <1>6. forked \subseteq forked' /\ \A v \in Uuids : v # t => (HandedOver(v)' <=> HandedOver(v))
    BY <1>1, <1>2, <1>3 DEF HandedOver
  <1>7. /\ \A v, w : w \in Mine(v) => w \in Mine(v)'
        /\ \A v \in Uuids : Over(v) => Over(v)'
    <2>1. \A v \in Uuids : /\ sent[v] > 1 => sent'[v] > 1
                           /\ given_up[v] > 0 => given_up'[v] > 0
      BY <1>1, <1>2, <1>4
    <2>2. \A v, w : w \in Mine(v) => w \in Mine(v)'
      BY <1>6, <2>1, Grown
    <2> QED BY <1>6, <2>1, <2>2 DEF Over, HandedOver
  <1>8. ChildrenOwn'
    <2> SUFFICES ASSUME NEW f \in forked'
                 PROVE  /\ f.transfer \in Uuids /\ arrived[f.transfer] > given_up'[f.transfer]
                        /\ f.uuid \in Mine(f.transfer)' /\ f.request = f.uuid
      BY <1>1 DEF ChildrenOwn
    <2>1. CASE f \in forked
      <3>1. /\ f.transfer \in Uuids /\ f.transfer # t /\ arrived[f.transfer] > given_up[f.transfer]
            /\ f.uuid \in Mine(f.transfer) /\ f.request = f.uuid
        BY <1>2, <2>1 DEF TableInv, ChildrenOwn, HandedOver
      <3>2. given_up'[f.transfer] = given_up[f.transfer]
        BY <1>2, <1>4, <3>1
      <3> QED BY <1>7, <3>1, <3>2
    <2>2. CASE f \notin forked
      <3>1. f = child /\ c.ready /\ u # None
        BY <1>1, <1>2, <2>2
      <3>2. given_up'[t] = given_up[t] /\ arrived[t] > given_up[t]
        BY <1>1, <1>2, <3>1
      <3> QED BY <1>1, <1>2, <1>3, <1>7, <3>1, <3>2
    <2> QED BY <2>1, <2>2
  <1>9. IsFiniteSet(forked')
    <2>1. IsFiniteSet(forked)
      BY DEF TableInv, TableTypes
    <2>2. IsFiniteSet(forked \union {child})
      BY <2>1, FS_AddElement
    <2> QED BY <1>1, <1>2, <2>1, <2>2
  <1>10. CopiesAccounted'
    <2> SUFFICES ASSUME NEW v \in Uuids
                 PROVE  Count(requests', v) = sent[v] - Used(v)' - dropped'[v]
      BY <1>1 DEF CopiesAccounted, Count, Used
    <2>1. /\ IsFiniteSet({f \in forked : f.uuid = v})
          /\ Used(v) \in Nat /\ dropped[v] \in Nat /\ sent[v] \in Nat /\ Count(requests, v) \in Nat
          /\ Count(requests, v) = sent[v] - Used(v) - dropped[v]
      BY Copied DEF TableInv
    <2>2. Used(v)' = Used(v) + (IF v = u /\ c.ready THEN 1 ELSE 0)
      <3> DEFINE S == {f \in forked : f.uuid = v}
                 T == {f \in forked' : f.uuid = v}
      <3>1. CASE v = u /\ c.ready
        <4>1. T = S \union {child} /\ child \notin S
          BY <1>1, <1>3, <3>1
        <4>2. Cardinality(S \union {child}) = Cardinality(S) + 1
          <5>1. IsFiniteSet(S) /\ child \notin S
            BY <2>1, <4>1
          <5> HIDE DEF S, T
          <5> QED BY <5>1, FS_AddElement
        <4>3. Used(v) = Cardinality(S) /\ Used(v)' = Cardinality(T)
          BY DEF Used
        <4> HIDE DEF S, T
        <4> QED BY <3>1, <4>1, <4>2, <4>3
      <3>2. CASE ~(v = u /\ c.ready)
        <4>1. T = S
          BY <1>1, <1>2, <1>3, <3>2
        <4>2. Used(v) = Cardinality(S) /\ Used(v)' = Cardinality(T)
          BY DEF Used
        <4> HIDE DEF S, T
        <4> QED BY <2>1, <3>2, <4>1, <4>2
      <3> QED BY <3>1, <3>2
    <2>3. Count(requests', v) = Count(requests, v) - (IF v = u THEN 1 ELSE 0)
      BY <1>5
    <2>4. dropped'[v] = dropped[v] + (IF v = u /\ ~c.ready THEN 1 ELSE 0)
      BY <1>4
    <2>5. CASE v # u
      BY <2>1, <2>2, <2>3, <2>4, <2>5
    <2>6. CASE v = u /\ c.ready
      BY <2>1, <2>2, <2>3, <2>4, <2>6
    <2>7. CASE v = u /\ ~c.ready
      BY <2>1, <2>2, <2>3, <2>4, <2>7
    <2> QED BY <2>5, <2>6, <2>7
  <1>11. InTurn'
    <2> SUFFICES ASSUME NEW v \in Uuids, NEW w \in Uuids, Rivals(v, w), Begun(v)', Begun(w)'
                 PROVE  Over(v)' \/ Over(w)'
      BY DEF InTurn, Rivals
    <2>1. Begun(v) /\ Begun(w)
      BY <1>1 DEF Begun
    <2>2. Over(v) \/ Over(w)
      BY <2>1 DEF TableInv, InTurn
    <2> QED BY <1>7, <2>2
  <1>12. clients \in Seq(ClientState) /\ n \in Nat /\ i \in 1 .. n /\ DOMAIN clients = 1 .. n
    BY DEF TableInv, TableTypes
  <1>13. /\ clients' \in Seq(ClientState) /\ DOMAIN clients' = 1 .. n - 1
         /\ \A k \in 1 .. n - 1 : clients'[k] = IF k < i THEN clients[k] ELSE clients[k + 1]
    <2>1. /\ RemoveAt(clients, i) \in Seq(ClientState) /\ Len(RemoveAt(clients, i)) = n - 1
          /\ \A k \in 1 .. n - 1 : RemoveAt(clients, i)[k] = IF k < i THEN clients[k] ELSE clients[k + 1]
      BY <1>12, Removed
    <2>2. DOMAIN RemoveAt(clients, i) = 1 .. n - 1
      BY <2>1
    <2> QED BY <1>1, <2>1, <2>2
  <1>14. ASSUME NEW k \in DOMAIN clients'
         PROVE  \E m \in DOMAIN clients : m # i /\ clients'[k] = clients[m]
    <2>1. CASE k < i
      BY <1>12, <1>13, <2>1
    <2>2. CASE ~(k < i)
      <3>1. k + 1 \in DOMAIN clients /\ k + 1 # i /\ clients'[k] = clients[k + 1]
        BY <1>12, <1>13, <2>2
      <3> QED BY <3>1
    <2> QED BY <2>1, <2>2
  <1>15. TableTypes'
    BY <1>1, <1>4, <1>5, <1>9, <1>13 DEF TableInv, TableTypes
  <1>16. OneClient'
    <2>1. ASSUME NEW k \in DOMAIN clients', NEW v, v = clients'[k].transfer
          PROVE  arrived[v] = given_up'[v] + 1 /\ \A f \in forked' : f.transfer # v
      <3>1. PICK m \in DOMAIN clients : m # i /\ clients'[k] = clients[m]
        BY <1>14, <2>1
      <3>2. v \in Uuids /\ v # t /\ arrived[v] = given_up[v] + 1 /\ ~HandedOver(v)
        BY <1>0, <2>1, <3>1, LiveClient DEF TableInv, OneClient
      <3>3. given_up'[v] = given_up[v] /\ ~HandedOver(v)'
        BY <1>2, <1>4, <1>6, <3>2
      <3> QED BY <3>2, <3>3 DEF HandedOver
    <2>2. ASSUME NEW j \in DOMAIN clients', NEW k \in DOMAIN clients',
                 clients'[j].transfer = clients'[k].transfer
          PROVE  j = k
      <3> DEFINE at(x) == IF x < i THEN x ELSE x + 1
      <3>1. /\ at(j) \in DOMAIN clients /\ clients'[j] = clients[at(j)]
            /\ at(k) \in DOMAIN clients /\ clients'[k] = clients[at(k)]
        BY <1>12, <1>13
      <3>2. at(j) = at(k)
        BY <2>2, <3>1 DEF TableInv, OneClient
      <3>3. j \in Int /\ k \in Int /\ i \in Int
        BY <1>12, <1>13
      <3> QED BY <3>2, <3>3
    <2>3. \A v \in Uuids : arrived[v] <= Arrivals[v]
      BY DEF TableInv, OneClient
    <2> QED BY <1>1, <2>1, <2>2, <2>3 DEF OneClient, HandedOver
  <1>17. Matched'
    <2> SUFFICES ASSUME NEW k \in DOMAIN clients', NEW v, v = clients'[k].transfer
                 PROVE  WellMatched(clients'[k], requests', Mine(v)')
      BY DEF Matched, WellMatched, Mine
    <2>1. PICK m \in DOMAIN clients : m # i /\ clients'[k] = clients[m]
      BY <1>14
    <2>2. PICK w : w = clients[m].uuid
      OBVIOUS
    <2>3. WellMatched(clients[m], requests, Mine(v)) /\ w \in Uuids \union {None}
      BY <2>1, <2>2, ClientTypes DEF TableInv, Matched
    <2>4. CASE w = None
      BY <2>1, <2>2, <2>3, <2>4 DEF WellMatched
    <2>5. CASE w # None
      <3>1. w \in Uuids /\ w \in Mine(v) /\ \E j \in DOMAIN requests : requests[j] = w
        BY <2>2, <2>3, <2>5 DEF WellMatched
      <3>2. w # u
        <4>1. clients[m].uuid # None => clients[i].uuid # clients[m].uuid
          BY <2>1, NoSharing
        <4> QED BY <1>0, <2>2, <2>5, <4>1
      <3>3. Count(requests, w) \in Nat /\ Count(requests, w) # 0
        BY <1>5, <3>1, CountType
      <3>4. Count(requests', w) # 0
        BY <1>5, <3>1, <3>2, <3>3
      <3>5. \E j \in DOMAIN requests' : requests'[j] = w
        BY <1>5, <3>4, CountType
      <3> QED BY <1>7, <2>1, <2>2, <2>5, <3>1, <3>5 DEF WellMatched
    <2> QED BY <2>4, <2>5
  <1> QED BY <1>8, <1>10, <1>11, <1>15, <1>16, <1>17 DEF TableInv

(* The table is empty at first.                                            *)
LEMMA InitTable ==
  ASSUME Init
  PROVE  TableInv
  <1>1. /\ requests = <<>> /\ clients = <<>> /\ forked = {}
        /\ sent = [t \in Uuids |-> 0] /\ arrived = [t \in Uuids |-> 0]
        /\ given_up = [t \in Uuids |-> 0] /\ dropped = [t \in Uuids |-> 0]
        /\ DOMAIN requests = {} /\ DOMAIN clients = {}
    BY DEF Init
  <1>2. TableTypes
    BY <1>1, FS_EmptySet DEF TableTypes
  <1>3. InTurn /\ OneClient /\ Matched /\ ChildrenOwn
    BY <1>1, ControllerTableAssumption DEF InTurn, OneClient, Matched, ChildrenOwn, Begun
  <1>4. CopiesAccounted
    <2> SUFFICES ASSUME NEW t \in Uuids
                 PROVE  Cardinality({k \in DOMAIN requests : requests[k] = t})
                          = sent[t] - Cardinality({f \in forked : f.uuid = t}) - dropped[t]
      BY DEF CopiesAccounted
    <2>1. /\ {k \in DOMAIN requests : requests[k] = t} = {} /\ {f \in forked : f.uuid = t} = {}
          /\ sent[t] = 0 /\ dropped[t] = 0
      BY <1>1
    <2>2. Cardinality({}) = 0
      BY FS_EmptySet
    <2> QED BY <2>1, <2>2
  <1> QED BY <1>2, <1>3, <1>4 DEF TableInv

(* The transfers of an address keep to their turns, a client has a request *)
(* of its own or one that was left there, and no two have the same, however*)
(* often requests are delivered and clients given up (controller.c:93-184, *)
(* poll.c:75-130).                                                         *)
THEOREM TableInvariant == Spec => []TableInv
  <1>1. TableInv /\ [Next]_vars => TableInv'
    <2> SUFFICES ASSUME TableInv, [Next]_vars
                 PROVE  TableInv'
      OBVIOUS
    <2>1. CASE UNCHANGED vars
      BY <2>1 DEF vars, TableInv, TableTypes, InTurn, OneClient, Matched, ChildrenOwn, CopiesAccounted,
                  Begun, Over, HandedOver, Mine, Leaves
    <2> QED BY <2>1, ReceiveKeepsTable, ArriveKeepsTable, ConnectedKeepsTable, ScanKeepsTable DEF Next
  <1> QED BY <1>1, InitTable, PTL DEF Spec

(* Every child was forked by the request its client was matched with, and  *)
(* that is the one of its own transfer unless an earlier transfer of the   *)
(* same address, which is over, left one in the table (controller.c:145-180,*)
(* poll.c:85-107).                                                         *)
THEOREM OwnRequest == Spec => []MatchedOwn
  <1>1. TableInv => MatchedOwn
    BY DEF TableInv, ChildrenOwn, MatchedOwn, Mine
  <1> QED BY <1>1, TableInvariant, PTL

(* Every copy that came is in the table, or a client that was matched with *)
(* it took it out when it ended (controller.c:136, 157-158; poll.c:85-104).*)
THEOREM NoCopyLost == Spec => []CopiesAccounted
  <1>1. TableInv => CopiesAccounted
    BY DEF TableInv
  <1> QED BY <1>1, TableInvariant, PTL
=============================================================================
