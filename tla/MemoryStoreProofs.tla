------------------------- MODULE MemoryStoreProofs -------------------------
(***************************************************************************)
(* What overlapping updates do to a memory, whom a call acts for, what     *)
(* becomes of deleted memories and what the searches find, for any number  *)
(* of memories, calls, tenants and fields and any page size.               *)
(***************************************************************************)
EXTENDS MemoryStore, SequenceTheorems, FiniteSetTheorems, TLAPS

LEMMA InitType == Init => TypeOK
<1> SUFFICES ASSUME Init PROVE TypeOK
  OBVIOUS
<1>1. PICK edited \in SUBSET {m \in Memory : status[m] # "unsaved"} :
        /\ content = [m \in Memory |-> IF m \in edited THEN Edited ELSE AsSaved]
        /\ version = [m \in Memory |-> IF m \in edited THEN 2 ELSE 1]
        /\ updates = [m \in Memory |->
             IF m \in edited THEN <<[call |-> Earlier, fields |-> Field, read_at |-> 0]>> ELSE <<>>]
  BY DEF Init
<1>2. Edited \in Content /\ AsSaved \in Content
  BY DEF Edited, AsSaved, Content
<1>3. Unread \in Read
  BY <1>2 DEF Unread, Read
<1>4. [call |-> Earlier, fields |-> Field, read_at |-> 0] \in Update
  BY DEF Update
<1>5. <<[call |-> Earlier, fields |-> Field, read_at |-> 0]>> \in Seq(Update)
  BY <1>4
<1>6. updates \in [Memory -> Seq(Update)]
  BY <1>1, <1>5
<1>7. content \in [Memory -> Content] /\ version \in [Memory -> Nat]
  BY <1>1, <1>2
<1>8. read \in [Call -> Read]
  BY <1>3 DEF Init
<1> QED
  BY <1>6, <1>7, <1>8, MemoryAssumption DEF Init, TypeOK, Answer

(* What a read, a write and a search leave behind is of their types. *)
LEMMA ReadTyped ==
  ASSUME TypeOK, NEW m \in Memory
  PROVE  [content |-> content[m], version |-> version[m], at |-> Len(updates[m])] \in Read
<1>1. Len(updates[m]) \in Nat
  BY LenProperties DEF TypeOK
<1> QED
  BY <1>1 DEF TypeOK, Read

LEMMA UnreadTyped == Unread \in Read
BY DEF Unread, Read, AsSaved, Content

LEMMA AnsweredTyped ==
  ASSUME TypeOK, NEW c \in Call, NEW a \in Answer, Answered(c, a)
  PROVE  /\ pc' \in [Call -> {"new", "set", "write", "delete", "page", "keywords", "answered"}]
         /\ answer' \in [Call -> Answer]
         /\ target' \in [Call -> Memory \cup {None}]
         /\ read' \in [Call -> Read]
BY UnreadTyped DEF TypeOK, Answered

LEMMA BeginTyped ==
  ASSUME TypeOK, NEW c \in Call,
         NEW next \in {"write", "delete", "page", "keywords", "answered"}, Begin(c, next)
  PROVE  /\ pc' \in [Call -> {"new", "set", "write", "delete", "page", "keywords", "answered"}]
         /\ acting' \in [Call -> Tenant \cup {None}]
BY DEF TypeOK, Begin

LEMMA MatchingTyped == \A t : Matching(t) \subseteq Memory /\ LiveOf(t) \subseteq Memory
BY DEF Matching, LiveOf

LEMMA MergedTyped ==
  ASSUME TypeOK, NEW c \in Call, NEW fields \in SUBSET Field
  PROVE  Merged(c, fields) \in Content
BY DEF TypeOK, Merged, Read, Content

LEMMA WriteTyped ==
  ASSUME TypeOK, NEW c \in Call, NEW fields \in SUBSET Field, NEW m \in Memory,
         WriteOver(c, m, Merged(c, fields), read[c].version + 1, fields)
  PROVE  /\ content' \in [Memory -> Content]
         /\ version' \in [Memory -> Nat]
         /\ updates' \in [Memory -> Seq(Update)]
<1>1. Merged(c, fields) \in Content /\ read[c].version + 1 \in Nat /\ read[c].at \in Nat
  BY MergedTyped DEF TypeOK, Read
<1>2. [call |-> c, fields |-> fields, read_at |-> read[c].at] \in Update
  BY <1>1 DEF Update
<1>3. Append(updates[m], [call |-> c, fields |-> fields, read_at |-> read[c].at]) \in Seq(Update)
  BY <1>2, AppendProperties DEF TypeOK
<1> QED
  BY <1>1, <1>3 DEF TypeOK, WriteOver

LEMMA StepType == TypeOK /\ [Next]_vars => TypeOK'
<1> SUFFICES ASSUME TypeOK, [Next]_vars PROVE TypeOK'
  OBVIOUS
<1> USE DEF Unmoved, row
<1>1. ASSUME NEW m \in Memory, StoreEmbedding(m) \/ EmbeddingFails(m) PROVE TypeOK'
  BY <1>1 DEF StoreEmbedding, EmbeddingFails, TypeOK
<1>2. ASSUME NEW c \in Call, SetTenantContext(c) PROVE TypeOK'
  BY <1>2, MemoryAssumption DEF SetTenantContext, TypeOK
<1>3. ASSUME NEW c \in Call, NEW m \in Memory, Remember(c, m) PROVE TypeOK'
  BY <1>3, BeginTyped DEF Remember, TypeOK, Answer
<1>4. ASSUME NEW c \in Call, NEW m \in Memory, ReadForUpdate(c, m) \/ ReadForForget(c, m)
      PROVE TypeOK'
  <2>1. PICK next \in {"write", "delete"}, missing \in {"null", "false"} : Get(c, m, next, missing)
    BY <1>4 DEF ReadForUpdate, ReadForForget
  <2>2. pc' \in [Call -> {"new", "set", "write", "delete", "page", "keywords", "answered"}]
        /\ acting' \in [Call -> Tenant \cup {None}]
    BY <2>1, BeginTyped DEF Get
  <2>3. target' \in [Call -> Memory \cup {None}] /\ read' \in [Call -> Read]
        /\ answer' \in [Call -> Answer]
    BY <2>1, ReadTyped DEF Get, TypeOK, Answer
  <2> QED
    BY <2>1, <2>2, <2>3 DEF Get, TypeOK
<1>5. ASSUME NEW c \in Call, NEW m \in Memory, ForgetRefused(c, m) PROVE TypeOK'
  BY <1>5, BeginTyped DEF ForgetRefused, TypeOK, Answer
<1>6. ASSUME NEW c \in Call, NEW fields \in SUBSET Field, WriteUpdate(c, fields) PROVE TypeOK'
  <2>1. /\ pc' \in [Call -> {"new", "set", "write", "delete", "page", "keywords", "answered"}]
        /\ answer' \in [Call -> Answer]
        /\ target' \in [Call -> Memory \cup {None}]
        /\ read' \in [Call -> Read]
    BY <1>6, AnsweredTyped DEF WriteUpdate, WriteOr, Answer
  <2>2. /\ content' \in [Memory -> Content]
        /\ version' \in [Memory -> Nat]
        /\ updates' \in [Memory -> Seq(Update)]
    <3>1. CASE target[c] \in LiveOf(acting[c])
      BY <1>6, <3>1, WriteTyped, MatchingTyped DEF WriteUpdate, WriteOr
    <3>2. CASE target[c] \notin LiveOf(acting[c])
      BY <1>6, <3>2 DEF WriteUpdate, WriteOr, TypeOK
    <3> QED BY <3>1, <3>2
  <2> QED
    BY <1>6, <2>1, <2>2 DEF WriteUpdate, WriteOr, TypeOK
<1>7. ASSUME NEW c \in Call, Delete(c) PROVE TypeOK'
  <2>1. /\ pc' \in [Call -> {"new", "set", "write", "delete", "page", "keywords", "answered"}]
        /\ answer' \in [Call -> Answer]
        /\ target' \in [Call -> Memory \cup {None}]
        /\ read' \in [Call -> Read]
    BY <1>7, AnsweredTyped DEF Delete, Answer
  <2> QED
    BY <1>7, <2>1 DEF Delete, SetStatus, TypeOK
<1>8. ASSUME NEW c \in Call, NEW ms, NEW s \in {"live", "deleted", "erased"}, Sweep(c, ms, s)
      PROVE TypeOK'
  BY <1>8, BeginTyped DEF Sweep, SetStatus, TypeOK, Answer
<1>9. ASSUME NEW c \in Call, NEW m \in Memory, Restore(c, m) \/ HardDelete(c, m) PROVE TypeOK'
  BY <1>8, <1>9 DEF Restore, HardDelete
<1>10. ASSUME NEW c \in Call, CleanupExpired(c) PROVE TypeOK'
  BY <1>8, <1>10 DEF CleanupExpired
<1>11. ASSUME NEW c \in Call, Count(c) \/ VectorSearch(c) PROVE TypeOK'
  <2>1. PICK S \in SUBSET Memory : found' = [found EXCEPT ![c] = S]
    BY <1>11, MatchingTyped, Zenon DEF Count, VectorSearch, Cut
  <2>2. Begin(c, "page") \/ Begin(c, "keywords")
    BY <1>11 DEF Count, VectorSearch
  <2> QED
    BY <1>11, <2>1, <2>2, BeginTyped DEF Count, VectorSearch, Searched, TypeOK
<1>12. ASSUME NEW c \in Call, Page(c) \/ KeywordSearch(c) PROVE TypeOK'
  <2>1. PICK a \in Answer : Answered(c, a)
    <3>1. {"more pages", "last page", "results"} \subseteq Answer
      BY DEF Answer
    <3> QED BY <1>12, <3>1, Zenon DEF Page, KeywordSearch
  <2>2. PICK S \in SUBSET Memory : found' = [found EXCEPT ![c] = S]
    <3>1. CASE Page(c)
      BY <3>1, MatchingTyped, Zenon DEF Page, Cut
    <3>2. CASE KeywordSearch(c)
      <4>1. PICK texts \in Cut(Matching(acting[c]), Limit \div 2) :
              \E rest \in Cut(texts \ found[c], Limit - Cardinality(found[c])) :
                found' = [found EXCEPT ![c] = found[c] \cup rest]
        BY <3>2, Zenon DEF KeywordSearch
      <4>2. PICK rest \in Cut(texts \ found[c], Limit - Cardinality(found[c])) :
              found' = [found EXCEPT ![c] = found[c] \cup rest]
        BY <4>1
      <4>3. found[c] \cup rest \subseteq Memory
        BY <4>2, MatchingTyped DEF Cut, TypeOK
      <4> QED BY <4>2, <4>3
    <3> QED BY <1>12, <3>1, <3>2
  <2> QED
    BY <1>12, <2>1, <2>2, AnsweredTyped DEF Page, KeywordSearch, Searched, TypeOK
<1>13. ASSUME NEW c \in Call, FallbackSearch(c) PROVE TypeOK'
  <2>1. pc' \in [Call -> {"new", "set", "write", "delete", "page", "keywords", "answered"}]
        /\ acting' \in [Call -> Tenant \cup {None}]
    <3>1. CASE Begin(c, "answered")
      BY <3>1, BeginTyped
    <3>2. CASE pc' = [pc EXCEPT ![c] = "answered"] /\ UNCHANGED acting
      BY <3>2 DEF TypeOK
    <3> QED BY <1>13, <3>1, <3>2, Zenon DEF FallbackSearch
  <2>2. found' \in [Call -> SUBSET Memory]
    BY <1>13, MatchingTyped DEF FallbackSearch, Cut, TypeOK
  <2> QED
    BY <1>13, <2>1, <2>2 DEF FallbackSearch, Searched, TypeOK, Answer
<1>14. CASE UNCHANGED vars
  BY <1>14 DEF vars, TypeOK
<1> QED
  BY <1>1, <1>2, <1>3, <1>4, <1>5, <1>6, <1>7, <1>9, <1>10, <1>11, <1>12, <1>13, <1>14 DEF Next

(* Every variable keeps to its type. *)
THEOREM TypeCorrect == Spec => []TypeOK
BY InitType, StepType, PTL DEF Spec

-----------------------------------------------------------------------------
(***************************************************************************)
(* What the first n updates h of a memory leave it with: con and ver.  It  *)
(* is true of the row with all its updates, and of what a call has read    *)
(* with those the row had then; an update carries the latter over to the   *)
(* former, since it is written over what has been read.                    *)
(***************************************************************************)
LeftWith(h, n, con, ver) ==
  /\ \A i \in 1..n :
       (\A j \in i + 1..n : h[j].read_at >= i) =>
          \A f \in h[i].fields : \E k \in i..n : f \in h[k].fields /\ con[f] = h[k].call
  /\ IF \A i \in 1..n : h[i].read_at = i - 1 THEN ver = n + 1 ELSE ver <= n

LEMMA LeftWithPrefix ==
  ASSUME NEW h \in Seq(Update), NEW e \in Update, NEW n \in 0..Len(h), NEW con, NEW ver
  PROVE  LeftWith(h, n, con, ver) <=> LeftWith(Append(h, e), n, con, ver)
<1> DEFINE g == Append(h, e)
<1>1. n \in Nat
  BY LenProperties
<1>2. \A i \in 1..n : g[i] = h[i]
  BY AppendProperties, LenProperties
<1> HIDE DEF g
<1>3. \A i \in 1..n : \A j \in i..n : g[j] = h[j]
  BY <1>1, <1>2
<1>4. \A i \in 1..n : \A j \in i + 1..n : g[j] = h[j]
  BY <1>1, <1>2
<1>5. (\A i \in 1..n : h[i].read_at = i - 1) <=> (\A i \in 1..n : g[i].read_at = i - 1)
  BY <1>2
<1>6. ASSUME NEW i \in 1..n
      PROVE  /\ (\A j \in i + 1..n : h[j].read_at >= i) <=> (\A j \in i + 1..n : g[j].read_at >= i)
             /\ (\A f \in h[i].fields : \E k \in i..n : f \in h[k].fields /\ con[f] = h[k].call)
                <=> (\A f \in g[i].fields : \E k \in i..n : f \in g[k].fields /\ con[f] = g[k].call)
  BY <1>2, <1>3, <1>4, Zenon
<1>7. LeftWith(h, n, con, ver) <=> LeftWith(g, n, con, ver)
  BY <1>5, <1>6 DEF LeftWith
<1> QED BY <1>7 DEF g

LEMMA LeftWithWrite ==
  ASSUME NEW h \in Seq(Update), NEW n \in 0..Len(h),
         NEW con \in Content, NEW ver \in Nat, LeftWith(h, n, con, ver),
         NEW c \in Call, NEW fields \in SUBSET Field
  PROVE  LeftWith(Append(h, [call |-> c, fields |-> fields, read_at |-> n]), Len(h) + 1,
                  [f \in Field |-> IF f \in fields THEN c ELSE con[f]], ver + 1)
<1> DEFINE e == [call |-> c, fields |-> fields, read_at |-> n]
           g == Append(h, e)
           L == Len(h)
           new == [f \in Field |-> IF f \in fields THEN c ELSE con[f]]
<1>1. L \in Nat /\ n \in Nat /\ n <= L
  BY LenProperties
<1>2. e \in Update
  BY <1>1 DEF Update
<1>3. g[L + 1] = e /\ \A i \in 1..L : g[i] = h[i]
  BY <1>2, AppendProperties
<1>4. \A i \in 1..L : h[i] \in Update
  BY ElementOfSeq
<1> HIDE DEF g, e
<1>5. ASSUME NEW i \in 1..L + 1, \A j \in i + 1..L + 1 : g[j].read_at >= i, NEW f \in g[i].fields
      PROVE  \E k \in i..L + 1 : f \in g[k].fields /\ new[f] = g[k].call
  <2>1. f \in Field
    BY <1>1, <1>3, <1>4, <1>5 DEF Update, e
  <2>2. CASE f \in fields
    <3>1. new[f] = g[L + 1].call /\ f \in g[L + 1].fields
      BY <1>3, <2>1, <2>2 DEF e
    <3> QED BY <1>1, <1>5, <3>1
  <2>3. CASE f \notin fields
    <3>1. i \in 1..L
      BY <1>1, <1>3, <1>5, <2>3 DEF e
    <3>2. g[L + 1].read_at >= i
      BY <1>1, <1>5, <3>1
    <3>3. i \in 1..n
      BY <1>1, <1>3, <3>1, <3>2 DEF e
    <3>4. \A j \in i + 1..n : h[j].read_at >= i
      BY <1>1, <1>3, <1>5, <3>3
    <3>5. PICK k \in i..n : f \in h[k].fields /\ con[f] = h[k].call
      BY <1>3, <1>5, <3>1, <3>3, <3>4 DEF LeftWith
    <3>6. k \in i..L + 1 /\ g[k] = h[k] /\ new[f] = con[f]
      BY <1>1, <1>3, <2>1, <2>3, <3>3, <3>5
    <3> QED BY <3>5, <3>6
  <2> QED BY <2>2, <2>3
<1>6. IF \A i \in 1..L + 1 : g[i].read_at = i - 1 THEN ver + 1 = (L + 1) + 1 ELSE ver + 1 <= L + 1
  <2>1. CASE \A i \in 1..L + 1 : g[i].read_at = i - 1
    <3>1. n = L
      BY <1>1, <1>3, <2>1 DEF e
    <3>2. \A i \in 1..n : h[i].read_at = i - 1
      BY <1>1, <1>3, <2>1, <3>1
    <3> QED BY <1>1, <2>1, <3>1, <3>2 DEF LeftWith
  <2>2. CASE ~ \A i \in 1..L + 1 : g[i].read_at = i - 1
    <3>1. CASE n = L
      <4>1. PICK i \in 1..L + 1 : g[i].read_at # i - 1
        BY <2>2
      <4>2. i \in 1..L
        BY <1>1, <1>3, <3>1, <4>1 DEF e
      <4>3. ~ \A k \in 1..n : h[k].read_at = k - 1
        BY <1>3, <3>1, <4>1, <4>2
      <4> QED BY <1>1, <2>2, <3>1, <4>3 DEF LeftWith
    <3>2. CASE n < L
      <4>1. ver <= n + 1
        BY <1>1 DEF LeftWith
      <4> QED BY <1>1, <2>2, <3>2, <4>1
    <3> QED BY <1>1, <3>1, <3>2
  <2> QED BY <2>1, <2>2
<1> HIDE DEF new
<1>7. LeftWith(g, L + 1, new, ver + 1)
  BY <1>5, <1>6, Zenon DEF LeftWith
<1> QED BY <1>7 DEF g, e, new

RowsLeft == \A m \in Memory : LeftWith(updates[m], Len(updates[m]), content[m], version[m])

ReadsLeft ==
  \A c \in Call : pc[c] = "write" =>
    /\ target[c] \in Memory
    /\ read[c].at \in 0..Len(updates[target[c]])
    /\ LeftWith(updates[target[c]], read[c].at, read[c].content, read[c].version)

UpdatesInv == TypeOK /\ RowsLeft /\ ReadsLeft

LEMMA InitUpdates == Init => UpdatesInv
<1> SUFFICES ASSUME Init PROVE UpdatesInv
  OBVIOUS
<1>1. TypeOK
  BY InitType
<1>2. ReadsLeft
  BY DEF Init, ReadsLeft
<1>3. PICK edited \in SUBSET {m \in Memory : status[m] # "unsaved"} :
        /\ content = [m \in Memory |-> IF m \in edited THEN Edited ELSE AsSaved]
        /\ version = [m \in Memory |-> IF m \in edited THEN 2 ELSE 1]
        /\ updates = [m \in Memory |->
             IF m \in edited THEN <<[call |-> Earlier, fields |-> Field, read_at |-> 0]>> ELSE <<>>]
  BY DEF Init
<1>4. ASSUME NEW m \in Memory PROVE LeftWith(updates[m], Len(updates[m]), content[m], version[m])
  <2>1. CASE m \in edited
    <3>1. /\ updates[m] = <<[call |-> Earlier, fields |-> Field, read_at |-> 0]>>
          /\ Len(updates[m]) = 1 /\ content[m] = Edited /\ version[m] = 2
      BY <1>3, <2>1
    <3>2. updates[m][1] = [call |-> Earlier, fields |-> Field, read_at |-> 0]
      BY <3>1
    <3>3. \A i \in 1..1 : i = 1
      OBVIOUS
    <3>4. 1 \in 1..1
      OBVIOUS
    <3>5. \A i \in 1..1 : \A f \in updates[m][i].fields : \E k \in i..1 :
             f \in updates[m][k].fields /\ content[m][f] = updates[m][k].call
      BY <3>1, <3>2, <3>3, <3>4 DEF Edited
    <3> QED BY <3>1, <3>2, <3>5 DEF LeftWith
  <2>2. CASE m \notin edited
    <3>1. Len(updates[m]) = 0 /\ version[m] = 1
      BY <1>3, <2>2
    <3>2. 1..0 = {}
      OBVIOUS
    <3> QED BY <3>1, <3>2 DEF LeftWith
  <2> QED BY <2>1, <2>2
<1> QED BY <1>1, <1>2, <1>4 DEF UpdatesInv, RowsLeft

(* A step that writes no row, and brings no call to the writing of one. *)
LEMMA QuietUpdates ==
  ASSUME UpdatesInv, TypeOK', UNCHANGED <<content, version, updates>>,
         \A c \in Call : pc'[c] = "write" =>
           pc[c] = "write" /\ target'[c] = target[c] /\ read'[c] = read[c]
  PROVE  UpdatesInv'
<1>1. RowsLeft'
  BY Zenon DEF UpdatesInv, RowsLeft
<1>2. ASSUME NEW c \in Call, pc'[c] = "write"
      PROVE  /\ target'[c] \in Memory
             /\ read'[c].at \in 0..Len(updates'[target'[c]])
             /\ LeftWith(updates'[target'[c]], read'[c].at, read'[c].content, read'[c].version)
  <2>1. pc[c] = "write" /\ target'[c] = target[c] /\ read'[c] = read[c] /\ updates' = updates
    BY <1>2
  <2>2. /\ target[c] \in Memory
        /\ read[c].at \in 0..Len(updates[target[c]])
        /\ LeftWith(updates[target[c]], read[c].at, read[c].content, read[c].version)
    BY <2>1 DEF UpdatesInv, ReadsLeft
  <2> QED BY <2>1, <2>2, Zenon
<1>3. ReadsLeft'
  BY <1>2, Zenon DEF ReadsLeft
<1> QED BY <1>1, <1>3 DEF UpdatesInv

LEMMA GetUpdates ==
  ASSUME UpdatesInv, TypeOK', NEW c \in Call, NEW m \in Memory,
         NEW next \in {"write", "delete"}, NEW missing, Get(c, m, next, missing)
  PROVE  UpdatesInv'
<1> USE DEF Unmoved, row
<1>1. CASE m \in LiveOf(_tenantId)
  <2>1. /\ UNCHANGED <<content, version, updates>>
        /\ target'[c] = m
        /\ read'[c] = [content |-> content[m], version |-> version[m], at |-> Len(updates[m])]
        /\ \A d \in Call : d # c => pc'[d] = pc[d] /\ target'[d] = target[d] /\ read'[d] = read[d]
    BY <1>1 DEF Get, Begin, UpdatesInv, TypeOK
  <2>2. RowsLeft'
    BY <2>1, Zenon DEF UpdatesInv, RowsLeft
  <2>3. LeftWith(updates[m], Len(updates[m]), content[m], version[m]) /\ Len(updates[m]) \in Nat
    BY LenProperties DEF UpdatesInv, RowsLeft, TypeOK
  <2>4. ASSUME NEW d \in Call, pc'[d] = "write"
        PROVE  /\ target'[d] \in Memory
               /\ read'[d].at \in 0..Len(updates[target'[d]])
               /\ LeftWith(updates[target'[d]], read'[d].at, read'[d].content, read'[d].version)
    <3>1. CASE d = c
      BY <2>1, <2>3, <3>1
    <3>2. CASE d # c
      <4>1. pc[d] = "write" /\ target'[d] = target[d] /\ read'[d] = read[d]
        BY <2>1, <2>4, <3>2
      <4> QED BY <4>1, Zenon DEF UpdatesInv, ReadsLeft
    <3> QED BY <3>1, <3>2
  <2>5. ReadsLeft'
    BY <2>1, <2>4, Zenon DEF ReadsLeft
  <2> QED BY <2>2, <2>5 DEF UpdatesInv
<1>2. CASE m \notin LiveOf(_tenantId)
  <2>1. /\ UNCHANGED <<content, version, updates, target, read>>
        /\ \A d \in Call : pc'[d] = "write" => pc[d] = "write"
    BY <1>2 DEF Get, Begin, UpdatesInv, TypeOK
  <2> QED BY <2>1, QuietUpdates
<1> QED BY <1>1, <1>2

LEMMA WriteUpdates ==
  ASSUME UpdatesInv, TypeOK', NEW c \in Call, NEW fields \in SUBSET Field, WriteUpdate(c, fields)
  PROVE  UpdatesInv'
<1>1. \A d \in Call : pc'[d] = "write" =>
         d # c /\ pc[d] = "write" /\ target'[d] = target[d] /\ read'[d] = read[d]
  BY DEF WriteUpdate, WriteOr, Answered, UpdatesInv, TypeOK
<1>2. CASE target[c] \in LiveOf(acting[c])
  <2> DEFINE m == target[c]
             e == [call |-> c, fields |-> fields, read_at |-> read[c].at]
             h == updates[m]
  <2>1. /\ m \in Memory
        /\ read[c].at \in 0..Len(h)
        /\ LeftWith(h, read[c].at, read[c].content, read[c].version)
    BY DEF WriteUpdate, WriteOr, UpdatesInv, ReadsLeft
  <2>2. /\ h \in Seq(Update) /\ e \in Update
        /\ read[c].content \in Content /\ read[c].version \in Nat
    BY <2>1, LenProperties DEF UpdatesInv, TypeOK, Read, Update
  <2>3. /\ updates'[m] = Append(h, e)
        /\ content'[m] = [f \in Field |-> IF f \in fields THEN c ELSE read[c].content[f]]
        /\ version'[m] = read[c].version + 1
        /\ \A n \in Memory : n # m => /\ updates'[n] = updates[n] /\ content'[n] = content[n]
                                      /\ version'[n] = version[n]
    BY <1>2, <2>1 DEF WriteUpdate, WriteOr, WriteOver, Merged, UpdatesInv, TypeOK
  <2>4. Len(Append(h, e)) = Len(h) + 1
    BY <2>2, AppendProperties
  <2>5. LeftWith(updates'[m], Len(updates'[m]), content'[m], version'[m])
    <3> DEFINE new == [f \in Field |-> IF f \in fields THEN c ELSE read[c].content[f]]
    <3>1. LeftWith(Append(h, e), Len(h) + 1, new, read[c].version + 1)
      BY <2>1, <2>2, LeftWithWrite, Zenon
    <3> HIDE DEF h, e, new
    <3> QED BY <2>3, <2>4, <3>1, Zenon DEF new
  <2>6. RowsLeft'
    BY <2>3, <2>5, Zenon DEF UpdatesInv, RowsLeft
  <2>7. ASSUME NEW d \in Call, pc'[d] = "write"
        PROVE  /\ target'[d] \in Memory
               /\ read'[d].at \in 0..Len(updates'[target'[d]])
               /\ LeftWith(updates'[target'[d]], read'[d].at, read'[d].content, read'[d].version)
    <3>1. /\ target'[d] = target[d] /\ read'[d] = read[d]
          /\ target[d] \in Memory
          /\ read[d].at \in 0..Len(updates[target[d]])
          /\ LeftWith(updates[target[d]], read[d].at, read[d].content, read[d].version)
      BY <1>1, <2>7 DEF UpdatesInv, ReadsLeft
    <3>2. CASE target[d] # m
      BY <2>3, <3>1, <3>2, Zenon
    <3>3. CASE target[d] = m
      <4>1. LeftWith(Append(h, e), read[d].at, read[d].content, read[d].version)
        BY <2>2, <3>1, <3>3, LeftWithPrefix
      <4>2. read[d].at \in 0..Len(Append(h, e))
        BY <2>2, <2>4, <3>1, <3>3, LenProperties
      <4> QED BY <2>3, <3>1, <3>3, <4>1, <4>2, Zenon
    <3> QED BY <3>2, <3>3
  <2>8. ReadsLeft'
    BY <2>7, Zenon DEF ReadsLeft
  <2> QED BY <2>6, <2>8 DEF UpdatesInv
<1>3. CASE target[c] \notin LiveOf(acting[c])
  <2>1. UNCHANGED <<content, version, updates>>
    BY <1>3 DEF WriteUpdate, WriteOr
  <2> QED BY <1>1, <2>1, QuietUpdates
<1> QED BY <1>2, <1>3

LEMMA StepUpdates == UpdatesInv /\ [Next]_vars => UpdatesInv'
<1> SUFFICES ASSUME UpdatesInv, [Next]_vars PROVE UpdatesInv'
  OBVIOUS
<1>0. TypeOK' /\ pc \in [Call -> {"new", "set", "write", "delete", "page", "keywords", "answered"}]
      /\ target \in [Call -> Memory \cup {None}] /\ read \in [Call -> Read]
  BY StepType DEF UpdatesInv, TypeOK
<1> USE DEF Unmoved, row
<1>1. ASSUME NEW m \in Memory, StoreEmbedding(m) \/ EmbeddingFails(m) PROVE UpdatesInv'
  BY <1>0, <1>1, QuietUpdates DEF StoreEmbedding, EmbeddingFails
<1>2. ASSUME NEW c \in Call, SetTenantContext(c) PROVE UpdatesInv'
  BY <1>0, <1>2, QuietUpdates DEF SetTenantContext
<1>3. ASSUME NEW c \in Call, NEW m \in Memory, Remember(c, m) \/ ForgetRefused(c, m)
      PROVE UpdatesInv'
  BY <1>0, <1>3, QuietUpdates DEF Remember, ForgetRefused, Begin
<1>4. ASSUME NEW c \in Call, NEW m \in Memory, ReadForUpdate(c, m) \/ ReadForForget(c, m)
      PROVE UpdatesInv'
  BY <1>0, <1>4, GetUpdates DEF ReadForUpdate, ReadForForget
<1>5. ASSUME NEW c \in Call, NEW fields \in SUBSET Field, WriteUpdate(c, fields) PROVE UpdatesInv'
  BY <1>0, <1>5, WriteUpdates
<1>6. ASSUME NEW c \in Call, Delete(c) PROVE UpdatesInv'
  BY <1>0, <1>6, QuietUpdates DEF Delete, Answered
<1>7. ASSUME NEW c \in Call, NEW ms, NEW s, Sweep(c, ms, s) PROVE UpdatesInv'
  BY <1>0, <1>7, QuietUpdates DEF Sweep, Begin
<1>8. ASSUME NEW c \in Call, \E m \in Memory : Restore(c, m) \/ HardDelete(c, m) PROVE UpdatesInv'
  BY <1>7, <1>8 DEF Restore, HardDelete
<1>9. ASSUME NEW c \in Call, CleanupExpired(c) PROVE UpdatesInv'
  BY <1>7, <1>9 DEF CleanupExpired
<1>10. ASSUME NEW c \in Call,
              Count(c) \/ Page(c) \/ VectorSearch(c) \/ KeywordSearch(c) \/ FallbackSearch(c)
       PROVE UpdatesInv'
  <2>1. UNCHANGED <<content, version, updates>>
    BY <1>10 DEF Count, Page, VectorSearch, KeywordSearch, FallbackSearch, Searched
  <2>2. ASSUME NEW d \in Call, pc'[d] = "write"
        PROVE  pc[d] = "write" /\ target'[d] = target[d] /\ read'[d] = read[d]
    <3>1. \/ /\ \E p \in {"page", "keywords", "answered"} : pc' = [pc EXCEPT ![c] = p]
             /\ UNCHANGED <<target, read>>
          \/ \E a : Answered(c, a)
      BY <1>10, Zenon
         DEF Count, Page, VectorSearch, KeywordSearch, FallbackSearch, Searched, Begin
    <3> QED BY <1>0, <2>2, <3>1 DEF Answered
  <2> QED BY <1>0, <2>1, <2>2, QuietUpdates
<1>11. CASE UNCHANGED vars
  BY <1>0, <1>11, QuietUpdates DEF vars
<1> QED
  BY <1>1, <1>2, <1>3, <1>4, <1>5, <1>6, <1>8, <1>9, <1>10, <1>11 DEF Next

LEMMA SpecUpdates == Spec => []UpdatesInv
BY InitUpdates, StepUpdates, PTL DEF Spec

(* An update is lost only to one that had read the memory before it was    *)
(* written: updateMemory merges into what it has read and writes the whole *)
(* row back.                                                               *)
THEOREM UpdatesSurvive == Spec => []LostOnlyByOverlap
<1>1. UpdatesInv => LostOnlyByOverlap
  BY DEF UpdatesInv, RowsLeft, LeftWith, LostOnlyByOverlap, Survives
<1> QED BY <1>1, SpecUpdates, PTL

(* metadata.version counts the updates while none overlaps another, and    *)
(* stays behind once two have.                                             *)
THEOREM VersionsCount == Spec => []VersionCountsUpdates
<1>1. UpdatesInv => VersionCountsUpdates
  BY DEF UpdatesInv, RowsLeft, LeftWith, VersionCountsUpdates
<1> QED BY <1>1, SpecUpdates, PTL

-----------------------------------------------------------------------------
(* The facade's tenant is that of the last caller that set it, so while a  *)
(* call waits it is its own or that of one of those who came between.      *)
FacadeTenant ==
  \A c \in Call : pc[c] = "set" =>
    _tenantId = own[c] \/ \E d \in intruded[c] : _tenantId = own[d]

TenantInv == TypeOK /\ FacadeTenant /\ WrongTenantOnlyByIntrusion

LEMMA InitTenant == Init => TenantInv
<1> SUFFICES ASSUME Init PROVE TenantInv
  OBVIOUS
<1> QED
  BY InitType DEF Init, TenantInv, FacadeTenant, WrongTenantOnlyByIntrusion

(* A call that moves on without touching the facade, taking its tenant     *)
(* from it if it has none. *)
LEMMA MoveTenant ==
  ASSUME TenantInv, TypeOK', NEW c \in Call, UNCHANGED <<_tenantId, intruded>>,
         \A d \in Call : d # c => pc'[d] = pc[d],
         pc'[c] # "set",
         \/ UNCHANGED acting
         \/ pc[c] = "set" /\ acting' = [acting EXCEPT ![c] = _tenantId]
  PROVE  TenantInv'
<1>1. FacadeTenant'
  BY DEF TenantInv, FacadeTenant
<1>2. WrongTenantOnlyByIntrusion'
  <2>1. CASE UNCHANGED acting
    BY <2>1 DEF TenantInv, WrongTenantOnlyByIntrusion
  <2>2. CASE pc[c] = "set" /\ acting' = [acting EXCEPT ![c] = _tenantId]
    <3>1. acting'[c] = _tenantId /\ \A d \in Call : d # c => acting'[d] = acting[d]
      BY <2>2 DEF TenantInv, TypeOK
    <3> QED BY <2>2, <3>1, Zenon DEF TenantInv, FacadeTenant, WrongTenantOnlyByIntrusion
  <2> QED BY <2>1, <2>2
<1> QED BY <1>1, <1>2 DEF TenantInv

LEMMA StepTenant == TenantInv /\ [Next]_vars => TenantInv'
<1> SUFFICES ASSUME TenantInv, [Next]_vars PROVE TenantInv'
  OBVIOUS
<1>0. TypeOK' /\ TypeOK
  BY StepType DEF TenantInv
<1> USE DEF Unmoved, row
<1>1. ASSUME UNCHANGED <<_tenantId, intruded, pc, acting>> PROVE TenantInv'
  BY <1>0, <1>1 DEF TenantInv, FacadeTenant, WrongTenantOnlyByIntrusion
<1>2. ASSUME NEW m \in Memory, StoreEmbedding(m) \/ EmbeddingFails(m) PROVE TenantInv'
  BY <1>1, <1>2 DEF StoreEmbedding, EmbeddingFails
<1>3. ASSUME NEW c \in Call, SetTenantContext(c) PROVE TenantInv'
  <2>1. /\ _tenantId' = own[c] /\ acting' = acting
        /\ pc[c] = "new"
        /\ \A d \in Call : d # c /\ pc'[d] = "set" =>
             pc[d] = "set" /\ intruded'[d] = intruded[d] \cup {c}
        /\ \A d \in Call : intruded[d] \subseteq intruded'[d]
    BY <1>0, <1>3 DEF SetTenantContext, TypeOK
  <2>2. FacadeTenant'
    BY <2>1 DEF FacadeTenant
  <2>3. WrongTenantOnlyByIntrusion'
    BY <2>1 DEF TenantInv, WrongTenantOnlyByIntrusion
  <2> QED BY <1>0, <2>2, <2>3 DEF TenantInv
<1>4. ASSUME NEW c \in Call, NEW p \in {"write", "delete", "page", "keywords", "answered"},
             Begin(c, p), UNCHANGED <<_tenantId, intruded>>
      PROVE TenantInv'
  BY <1>0, <1>4, MoveTenant DEF Begin, TypeOK
<1>5. ASSUME NEW c \in Call, pc' = [pc EXCEPT ![c] = "answered"],
             UNCHANGED <<_tenantId, intruded, acting>>
      PROVE TenantInv'
  BY <1>0, <1>5, MoveTenant DEF TypeOK
<1>6. ASSUME NEW c \in Call, NEW m \in Memory,
             Remember(c, m) \/ ReadForUpdate(c, m) \/ ReadForForget(c, m) \/ ForgetRefused(c, m)
      PROVE TenantInv'
  BY <1>4, <1>6 DEF Remember, ReadForUpdate, ReadForForget, ForgetRefused, Get
<1>7. ASSUME NEW c \in Call, \/ \E m \in Memory : Restore(c, m) \/ HardDelete(c, m)
                             \/ CleanupExpired(c)
      PROVE TenantInv'
  <2>1. PICK ms, s : Sweep(c, ms, s)
    BY <1>7 DEF Restore, HardDelete, CleanupExpired
  <2> QED BY <1>4, <2>1 DEF Sweep
<1>8. ASSUME NEW c \in Call, NEW fields \in SUBSET Field, WriteUpdate(c, fields) PROVE TenantInv'
  BY <1>5, <1>8 DEF WriteUpdate, WriteOr, Answered
<1>9. ASSUME NEW c \in Call, Delete(c) PROVE TenantInv'
  BY <1>5, <1>9 DEF Delete, Answered
<1>10. ASSUME NEW c \in Call, Count(c) \/ VectorSearch(c) PROVE TenantInv'
  BY <1>4, <1>10 DEF Count, VectorSearch, Searched
<1>11. ASSUME NEW c \in Call, Page(c) \/ KeywordSearch(c) PROVE TenantInv'
  <2>1. PICK a : Answered(c, a)
    BY <1>11, Zenon DEF Page, KeywordSearch
  <2> QED BY <1>5, <1>11, <2>1 DEF Page, KeywordSearch, Searched, Answered
<1>12. ASSUME NEW c \in Call, FallbackSearch(c) PROVE TenantInv'
  <2>1. UNCHANGED <<_tenantId, intruded>>
    BY <1>12 DEF FallbackSearch, Searched
  <2>2. Begin(c, "answered") \/ (pc' = [pc EXCEPT ![c] = "answered"] /\ UNCHANGED acting)
    BY <1>12, Zenon DEF FallbackSearch
  <2> QED BY <1>4, <1>5, <2>1, <2>2
<1>13. CASE UNCHANGED vars
  BY <1>1, <1>13 DEF vars
<1> QED
  BY <1>2, <1>3, <1>6, <1>7, <1>8, <1>9, <1>10, <1>11, <1>12, <1>13 DEF Next

(* A call acts for another tenant only when a caller of that tenant set    *)
(* the facade's between the call's own setting and its use.                *)
THEOREM TenantsMixOnlyByIntrusion == Spec => []WrongTenantOnlyByIntrusion
<1>1. TenantInv => WrongTenantOnlyByIntrusion
  BY DEF TenantInv
<1> QED BY <1>1, InitTenant, StepTenant, PTL DEF Spec

-----------------------------------------------------------------------------
(* Every action but an update of a live row leaves contents alone, and an  *)
(* erased row is out of reach of every statement.                          *)
LEMMA StepFrozen ==
  ASSUME TypeOK, [Next]_vars, NEW m \in Memory
  PROVE  /\ status[m] = "erased" => status'[m] = "erased"
         /\ status[m] \in {"deleted", "erased"} =>
              content'[m] = content[m] /\ version'[m] = version[m]
<1> USE DEF Unmoved, row
<1>1. ASSUME NEW n \in Memory, StoreEmbedding(n) \/ EmbeddingFails(n)
      PROVE UNCHANGED <<status, content, version>>
  BY <1>1 DEF StoreEmbedding, EmbeddingFails
<1>2. ASSUME NEW c \in Call,
             \/ SetTenantContext(c)
             \/ \E n \in Memory : ReadForUpdate(c, n) \/ ReadForForget(c, n) \/ ForgetRefused(c, n)
             \/ Count(c) \/ Page(c) \/ VectorSearch(c) \/ KeywordSearch(c) \/ FallbackSearch(c)
      PROVE UNCHANGED <<status, content, version>>
  BY <1>2 DEF SetTenantContext, ReadForUpdate, ReadForForget, ForgetRefused, Get, Count, Page,
              VectorSearch, KeywordSearch, FallbackSearch, Searched
<1>3. ASSUME NEW c \in Call, NEW n \in Memory, Remember(c, n)
      PROVE  UNCHANGED <<content, version>> /\ (status[m] = "erased" => status'[m] = "erased")
  BY <1>3 DEF Remember, TypeOK
<1>4. ASSUME NEW c \in Call, NEW fields \in SUBSET Field, WriteUpdate(c, fields)
      PROVE  /\ status' = status
             /\ status[m] \in {"deleted", "erased"} =>
                  content'[m] = content[m] /\ version'[m] = version[m]
  BY <1>4 DEF WriteUpdate, WriteOr, WriteOver, LiveOf, TypeOK
<1>5. ASSUME NEW c \in Call, Delete(c)
      PROVE  UNCHANGED <<content, version>> /\ (status[m] = "erased" => status'[m] = "erased")
  BY <1>5 DEF Delete, SetStatus, LiveOf
<1>6. ASSUME NEW c \in Call, NEW ms, NEW s, Sweep(c, ms, s),
             s = "erased" \/ m \notin ms \/ status[m] # "erased"
      PROVE  UNCHANGED <<content, version>> /\ (status[m] = "erased" => status'[m] = "erased")
  BY <1>6 DEF Sweep, SetStatus
<1>7. ASSUME NEW c \in Call, NEW n \in Memory, Restore(c, n) \/ HardDelete(c, n)
      PROVE  UNCHANGED <<content, version>> /\ (status[m] = "erased" => status'[m] = "erased")
  BY <1>6, <1>7 DEF Restore, HardDelete
<1>8. ASSUME NEW c \in Call, CleanupExpired(c)
      PROVE  UNCHANGED <<content, version>> /\ (status[m] = "erased" => status'[m] = "erased")
  BY <1>6, <1>8 DEF CleanupExpired, LiveOf
<1>9. CASE UNCHANGED vars
  BY <1>9 DEF vars
<1> QED
  BY <1>1, <1>2, <1>3, <1>4, <1>5, <1>7, <1>8, <1>9, Zenon DEF Next

(* What is deleted keeps its content and version until it is restored, and *)
(* what is erased stays so: the second halves of updates look for a live   *)
(* row.                                                                    *)
THEOREM DeletedStaysFrozen == Spec => DeletedIsFrozen
<1>1. TypeOK /\ [Next]_vars =>
        [\A m \in Memory :
           /\ status[m] = "erased" => status'[m] = "erased"
           /\ status[m] \in {"deleted", "erased"} =>
                <<content[m], version[m]>>' = <<content[m], version[m]>>]_vars
  BY StepFrozen
<1> QED BY <1>1, TypeCorrect, PTL DEF Spec, DeletedIsFrozen

-----------------------------------------------------------------------------
(* A cut takes everything there is, or as many as were asked for. *)
LEMMA CutAllOrFull ==
  ASSUME NEW S \in SUBSET Memory, NEW n \in Int, NEW T \in Cut(S, n)
  PROVE  T \subseteq S /\ (T = S \/ Cardinality(T) = n)
<1>1. IsFiniteSet(S) /\ Cardinality(S) \in Nat
  BY MemoryAssumption, FS_Subset, FS_CardinalityType
<1>2. T \subseteq S /\ (Cardinality(T) = Cardinality(S) \/ Cardinality(T) = n)
  BY DEF Cut
<1>3. Cardinality(T) = Cardinality(S) => T = S
  BY <1>1, <1>2, FS_Subset
<1> QED BY <1>2, <1>3

(* Only its second statement, or the one the catch block sends in its      *)
(* place, ends a semantic search that is under way.                        *)
LEMMA SearchEnds ==
  ASSUME TypeOK, [Next]_vars, NEW c \in Call, pc[c] = "keywords", pc'[c] = "answered"
  PROVE  KeywordSearch(c) \/ FallbackSearch(c)
<1> USE DEF Unmoved, row
<1>1. \/ UNCHANGED pc
      \/ \E d \in Call : /\ \E p : pc' = [pc EXCEPT ![d] = p]
                         /\ pc[d] # "keywords" \/ KeywordSearch(d) \/ FallbackSearch(d)
  <2>1. ASSUME NEW m \in Memory, StoreEmbedding(m) \/ EmbeddingFails(m) PROVE UNCHANGED pc
    BY <2>1 DEF StoreEmbedding, EmbeddingFails
  <2>2. ASSUME NEW d \in Call, NEW p, Begin(d, p)
        PROVE  pc[d] # "keywords" /\ \E q : pc' = [pc EXCEPT ![d] = q]
    BY <2>2 DEF Begin
  <2>3. ASSUME NEW d \in Call, NEW m \in Memory,
               \/ Remember(d, m) \/ ReadForUpdate(d, m) \/ ReadForForget(d, m)
               \/ ForgetRefused(d, m) \/ Restore(d, m) \/ HardDelete(d, m)
        PROVE  \E p : Begin(d, p)
    BY <2>3, Zenon DEF Remember, ReadForUpdate, ReadForForget, ForgetRefused, Get, Restore,
                       HardDelete, Sweep
  <2>4. ASSUME NEW d \in Call, CleanupExpired(d) \/ Count(d) \/ VectorSearch(d)
        PROVE  \E p : Begin(d, p)
    BY <2>4, Zenon DEF CleanupExpired, Sweep, Count, VectorSearch
  <2>5. ASSUME NEW d \in Call,
               \/ SetTenantContext(d) \/ Delete(d) \/ Page(d)
               \/ \E fields \in SUBSET Field : WriteUpdate(d, fields)
        PROVE  pc[d] # "keywords" /\ \E p : pc' = [pc EXCEPT ![d] = p]
    <3>1. pc[d] # "keywords"
      BY <2>5 DEF SetTenantContext, Delete, Page, WriteUpdate, WriteOr
    <3>2. \E p : pc' = [pc EXCEPT ![d] = p]
      BY <2>5, Zenon DEF SetTenantContext, Delete, Page, WriteUpdate, WriteOr, Answered
    <3> QED BY <3>1, <3>2
  <2>6. ASSUME NEW d \in Call, KeywordSearch(d) \/ FallbackSearch(d)
        PROVE  \E p : pc' = [pc EXCEPT ![d] = p]
    BY <2>6, Zenon DEF KeywordSearch, FallbackSearch, Answered, Begin
  <2>7. CASE UNCHANGED vars
    BY <2>7 DEF vars
  <2>8. ASSUME NEW d \in Call,
               \/ \E p : Begin(d, p)
               \/ pc[d] # "keywords" /\ \E p : pc' = [pc EXCEPT ![d] = p]
               \/ KeywordSearch(d) \/ FallbackSearch(d)
        PROVE  /\ \E p : pc' = [pc EXCEPT ![d] = p]
               /\ pc[d] # "keywords" \/ KeywordSearch(d) \/ FallbackSearch(d)
    BY <2>2, <2>6, <2>8, Zenon
  <2>9. CASE \E m \in Memory : StoreEmbedding(m) \/ EmbeddingFails(m)
    BY <2>1, <2>9
  <2>10. ASSUME Next, ~ \E m \in Memory : StoreEmbedding(m) \/ EmbeddingFails(m)
         PROVE  \E d \in Call :
                  \/ \E p : Begin(d, p)
                  \/ pc[d] # "keywords" /\ \E p : pc' = [pc EXCEPT ![d] = p]
                  \/ KeywordSearch(d) \/ FallbackSearch(d)
    BY <2>3, <2>4, <2>5, <2>10, Zenon DEF Next
  <2>11. ASSUME Next, ~ \E m \in Memory : StoreEmbedding(m) \/ EmbeddingFails(m)
         PROVE  \E d \in Call : /\ \E p : pc' = [pc EXCEPT ![d] = p]
                                /\ pc[d] # "keywords" \/ KeywordSearch(d) \/ FallbackSearch(d)
    BY <2>8, <2>10, <2>11, Zenon
  <2> QED
    BY <2>7, <2>9, <2>11
<1>2. KeywordSearch(c) \/ FallbackSearch(c)
  <2>1. pc \in [Call -> {"new", "set", "write", "delete", "page", "keywords", "answered"}]
    BY DEF TypeOK
  <2>2. PICK d \in Call : /\ \E p : pc' = [pc EXCEPT ![d] = p]
                          /\ pc[d] # "keywords" \/ KeywordSearch(d) \/ FallbackSearch(d)
    <3>1. ~ UNCHANGED pc
      BY Zenon
    <3> QED BY <1>1, <3>1, Zenon
  <2>3. PICK p : pc' = [pc EXCEPT ![d] = p]
    BY <2>2
  <2>4. d = c
    BY <2>1, <2>3
  <2> QED BY <2>2, <2>4
<1> QED BY <1>2

LEMMA StepSearch ==
  ASSUME TypeOK, [Next]_vars, NEW c \in Call, pc[c] = "keywords", pc'[c] = "answered"
  PROVE  \/ Matching(acting[c]) \subseteq found'[c]
         \/ Cardinality(found'[c]) = Limit
         \/ Cardinality(Matching(acting[c])) > Limit \div 2
<1> DEFINE M == Matching(acting[c])
<1> USE DEF Unmoved, row
<1>0. M \subseteq Memory /\ IsFiniteSet(M) /\ Cardinality(M) \in Nat
      /\ Limit \in Nat /\ Limit \div 2 \in Nat
  <2>1. Limit \div 2 \in Nat
    BY MemoryAssumption
  <2> QED BY <2>1, MatchingTyped, MemoryAssumption, FS_Subset, FS_CardinalityType
<1>2. KeywordSearch(c) \/ FallbackSearch(c)
  BY SearchEnds
<1> HIDE DEF M
<1>3. CASE KeywordSearch(c)
  <2>1. PICK texts \in Cut(M, Limit \div 2) :
          \E rest \in Cut(texts \ found[c], Limit - Cardinality(found[c])) :
            found' = [found EXCEPT ![c] = found[c] \cup rest]
    BY <1>3, Zenon DEF KeywordSearch, M
  <2>2. PICK rest \in Cut(texts \ found[c], Limit - Cardinality(found[c])) :
          found' = [found EXCEPT ![c] = found[c] \cup rest]
    BY <2>1
  <2>3. found'[c] = found[c] \cup rest /\ found[c] \subseteq Memory
    BY <2>2 DEF TypeOK
  <2>4. texts \subseteq M /\ (texts = M \/ Cardinality(texts) = Limit \div 2)
    BY <1>0, CutAllOrFull
  <2>5. IsFiniteSet(found[c]) /\ Cardinality(found[c]) \in Nat
    BY <2>3, MemoryAssumption, FS_Subset, FS_CardinalityType
  <2>6. /\ rest \subseteq texts \ found[c]
        /\ rest = texts \ found[c] \/ Cardinality(rest) = Limit - Cardinality(found[c])
    <3>1. texts \ found[c] \in SUBSET Memory /\ Limit - Cardinality(found[c]) \in Int
      BY <1>0, <2>4, <2>5
    <3> QED BY <3>1, CutAllOrFull
  <2>7. CASE texts # M
    <3>1. Cardinality(M) > Limit \div 2
      BY <1>0, <2>4, <2>7, FS_Subset
    <3> QED BY <3>1 DEF M
  <2>8. CASE texts = M /\ rest = texts \ found[c]
    BY <2>3, <2>8 DEF M
  <2>9. CASE Cardinality(rest) = Limit - Cardinality(found[c])
    <3>1. IsFiniteSet(rest)
      BY <1>0, <2>4, <2>6, FS_Subset
    <3>2. Cardinality(found[c] \cup rest)
            = Cardinality(found[c]) + Cardinality(rest) - Cardinality(found[c] \cap rest)
      BY <2>5, <3>1, FS_Union
    <3>3. found[c] \cap rest = {} /\ Cardinality({}) = 0
      BY <2>6, FS_EmptySet
    <3>4. Cardinality(rest) \in Nat
      BY <3>1, FS_CardinalityType
    <3>5. Cardinality(found[c] \cap rest) = 0
      BY <3>3, Zenon
    <3>6. Cardinality(found[c] \cup rest) = Limit
      BY <1>0, <2>5, <2>9, <3>2, <3>4, <3>5
    <3>7. Cardinality(found'[c]) = Limit
      BY <2>3, <3>6, Zenon
    <3> QED BY <3>7
  <2> QED BY <2>6, <2>7, <2>8, <2>9
<1>4. CASE FallbackSearch(c)
  <2>1. acting' = acting
    BY <1>4, Zenon DEF FallbackSearch, Begin
  <2>2. PICK texts \in Cut(M, Limit) : found' = [found EXCEPT ![c] = texts]
    BY <1>4, <2>1, Zenon DEF FallbackSearch, M
  <2>3. found'[c] = texts
    BY <2>2 DEF TypeOK
  <2>4. texts = M \/ Cardinality(texts) = Limit
    BY <1>0, CutAllOrFull
  <2> QED BY <2>3, <2>4 DEF M
<1> QED BY <1>2, <1>3, <1>4

-----------------------------------------------------------------------------
(* Only the fetch of a search says whether its page is the last. *)
LEMMA PageFetched ==
  ASSUME TypeOK, [Next]_vars, NEW c \in Call, answer[c] = "none",
         answer'[c] \in {"last page", "more pages"}
  PROVE  Page(c)
<1> USE DEF Unmoved, row
<1>1. answer \in [Call -> Answer]
  BY DEF TypeOK
<1>2. SUFFICES
        \/ UNCHANGED answer
        \/ \E d \in Call : /\ \E a : /\ answer' = [answer EXCEPT ![d] = a]
                                     /\ a \notin {"last page", "more pages"} \/ Page(d)
  <2>1. ~ UNCHANGED answer
    BY Zenon
  <2>2. PICK d \in Call : \E a : /\ answer' = [answer EXCEPT ![d] = a]
                                 /\ a \notin {"last page", "more pages"} \/ Page(d)
    BY <1>2, <2>1, Zenon
  <2> PICK a : /\ answer' = [answer EXCEPT ![d] = a]
               /\ a \notin {"last page", "more pages"} \/ Page(d)
    BY <2>2
  <2>3. d = c /\ a \in {"last page", "more pages"}
    BY <1>1
  <2> QED BY <2>3
<1>3. CASE UNCHANGED vars
  BY <1>3 DEF vars
<1>4. ASSUME NEW m \in Memory, StoreEmbedding(m) \/ EmbeddingFails(m) PROVE UNCHANGED answer
  BY <1>4 DEF StoreEmbedding, EmbeddingFails
<1>5. ASSUME NEW d \in Call, SetTenantContext(d) \/ Count(d) \/ VectorSearch(d)
      PROVE  UNCHANGED answer
  BY <1>5 DEF SetTenantContext, Count, VectorSearch
<1>6. ASSUME NEW d \in Call, NEW m \in Memory, Remember(d, m) \/ ForgetRefused(d, m)
      PROVE  \E a : answer' = [answer EXCEPT ![d] = a] /\ a \notin {"last page", "more pages"}
  BY <1>6 DEF Remember, ForgetRefused
<1>7. ASSUME NEW d \in Call, NEW m \in Memory, ReadForUpdate(d, m) \/ ReadForForget(d, m)
      PROVE  \/ UNCHANGED answer
             \/ \E a : answer' = [answer EXCEPT ![d] = a] /\ a \notin {"last page", "more pages"}
  BY <1>7 DEF ReadForUpdate, ReadForForget, Get
<1>8. ASSUME NEW d \in Call, NEW ms, NEW s, Sweep(d, ms, s)
      PROVE  \E a : answer' = [answer EXCEPT ![d] = a] /\ a \notin {"last page", "more pages"}
  <2>1. answer' = [answer EXCEPT ![d] = IF ms = {} THEN "false" ELSE "true"]
    BY <1>8 DEF Sweep
  <2>2. (IF ms = {} THEN "false" ELSE "true") \notin {"last page", "more pages"}
    OBVIOUS
  <2> QED BY <2>1, <2>2, Zenon
<1>9. ASSUME NEW d \in Call, NEW m \in Memory,
             Restore(d, m) \/ HardDelete(d, m) \/ CleanupExpired(d)
      PROVE  \E a : answer' = [answer EXCEPT ![d] = a] /\ a \notin {"last page", "more pages"}
  BY <1>8, <1>9, Zenon DEF Restore, HardDelete, CleanupExpired
<1>10. ASSUME NEW d \in Call, CleanupExpired(d)
       PROVE  \E a : answer' = [answer EXCEPT ![d] = a] /\ a \notin {"last page", "more pages"}
  BY <1>8, <1>10, Zenon DEF CleanupExpired
<1>11. ASSUME NEW d \in Call, NEW a, a \notin {"last page", "more pages"}, Answered(d, a)
       PROVE  \E b : answer' = [answer EXCEPT ![d] = b] /\ b \notin {"last page", "more pages"}
  BY <1>11, Zenon DEF Answered
<1>12. ASSUME NEW d \in Call,
              \/ \E fields \in SUBSET Field : WriteUpdate(d, fields)
              \/ KeywordSearch(d)
       PROVE  \E a : answer' = [answer EXCEPT ![d] = a] /\ a \notin {"last page", "more pages"}
  <2>1. Answered(d, "entry") \/ Answered(d, "null") \/ Answered(d, "results")
    BY <1>12, Zenon DEF WriteUpdate, WriteOr, KeywordSearch
  <2> QED BY <1>11, <2>1
<1>13. ASSUME NEW d \in Call, Delete(d)
       PROVE  \E a : answer' = [answer EXCEPT ![d] = a] /\ a \notin {"last page", "more pages"}
  <2>1. \E a \in {"true", "false"} : Answered(d, a)
    BY <1>13 DEF Delete
  <2> QED BY <1>11, <2>1
<1>14. ASSUME NEW d \in Call, FallbackSearch(d)
       PROVE  \E a : answer' = [answer EXCEPT ![d] = a] /\ a \notin {"last page", "more pages"}
  <2>1. answer' = [answer EXCEPT ![d] = "results"]
    BY <1>14, Zenon DEF FallbackSearch
  <2>2. "results" \notin {"last page", "more pages"}
    OBVIOUS
  <2> QED BY <2>1, <2>2, Zenon
<1>15. ASSUME NEW d \in Call, Page(d)
       PROVE  \E a : answer' = [answer EXCEPT ![d] = a]
  BY <1>15, Zenon DEF Page, Answered
<1> QED
  BY <1>3, <1>4, <1>5, <1>6, <1>7, <1>9, <1>10, <1>12, <1>13, <1>14, <1>15, Zenon DEF Next

(* Whatever changes between the count and the fetch, and for any page      *)
(* size, hasMore is wrong by no more than what came and went in between.   *)
THEOREM PagesSayWhetherMore == Spec => HasMoreErrsOnlyByChange
<1>1. ASSUME TypeOK, [Next]_vars, NEW c \in Call, answer[c] = "none",
             answer'[c] \in {"last page", "more pages"}
      PROVE  LET matching == Matching(acting[c])
                 came     == Cardinality(matching \ found[c])
                 gone     == Cardinality(found[c] \ matching)
                 left_out == Cardinality(matching \ found'[c])
             IN  /\ answer'[c] = "last page"  => left_out <= came
                 /\ answer'[c] = "more pages" => left_out > 0 \/ gone > came
  <2> DEFINE M == Matching(acting[c])
             F == found[c]
  <2>1. PICK page \in Cut(M, Limit) :
          /\ found' = [found EXCEPT ![c] = page]
          /\ Answered(c, IF Cardinality(page) < Cardinality(found[c]) THEN "more pages"
                         ELSE "last page")
    BY <1>1, PageFetched, Zenon DEF Page
  <2>2. /\ answer'[c] = "last page"  => ~ Cardinality(page) < Cardinality(F)
        /\ answer'[c] = "more pages" => Cardinality(page) < Cardinality(F)
    BY <1>1, <2>1 DEF Answered, TypeOK
  <2>3. found'[c] = page /\ F \subseteq Memory
    BY <1>1, <2>1 DEF TypeOK
  <2>4. M \in SUBSET Memory
    BY MatchingTyped
  <2> HIDE DEF M, F
  <2>5. page \subseteq M
    BY <2>4, MemoryAssumption, CutAllOrFull
  <2>6. /\ IsFiniteSet(M) /\ IsFiniteSet(F) /\ IsFiniteSet(page) /\ IsFiniteSet(M \cap F)
        /\ IsFiniteSet(M \ page)
    BY <2>3, <2>4, <2>5, MemoryAssumption, FS_Subset
  <2>7. ASSUME NEW S, NEW T, IsFiniteSet(S), IsFiniteSet(T)
        PROVE  Cardinality(S \ T) = Cardinality(S) - Cardinality(S \cap T)
    BY <2>7, FS_Difference
  <2>8. /\ Cardinality(M) \in Nat /\ Cardinality(F) \in Nat /\ Cardinality(page) \in Nat
        /\ Cardinality(M \cap F) \in Nat /\ Cardinality(M \cap F) <= Cardinality(F)
    BY <2>6, FS_Subset, FS_CardinalityType
  <2>9. Cardinality(page) <= Cardinality(M)
    BY <2>5, <2>6, FS_Subset
  <2>10. /\ Cardinality(M \ page) = Cardinality(M) - Cardinality(page)
         /\ Cardinality(M \ F) = Cardinality(M) - Cardinality(M \cap F)
         /\ Cardinality(F \ M) = Cardinality(F) - Cardinality(M \cap F)
    <3>1. M \cap page = page /\ F \cap M = M \cap F
      BY <2>5
    <3>2. Cardinality(M \ page) = Cardinality(M) - Cardinality(M \cap page)
      BY <2>6, <2>7
    <3>3. Cardinality(F \ M) = Cardinality(F) - Cardinality(F \cap M)
      BY <2>6, <2>7
    <3>4. Cardinality(M \ F) = Cardinality(M) - Cardinality(M \cap F)
      BY <2>6, <2>7
    <3> QED BY <3>1, <3>2, <3>3, <3>4, Zenon
  <2>11. ASSUME answer'[c] = "last page" PROVE Cardinality(M \ page) <= Cardinality(M \ F)
    <3>1. ~ Cardinality(page) < Cardinality(F)
      BY <2>2, <2>11
    <3> QED BY <2>8, <2>9, <2>10, <3>1
  <2>12. ASSUME answer'[c] = "more pages"
         PROVE  Cardinality(M \ page) > 0 \/ Cardinality(F \ M) > Cardinality(M \ F)
    <3>1. Cardinality(page) < Cardinality(F)
      BY <2>2, <2>12
    <3> QED BY <2>8, <2>9, <2>10, <3>1
  <2> QED BY <2>3, <2>11, <2>12 DEF M, F
<1>2. TypeOK /\ [Next]_vars =>
        [\A c \in Call :
           LET matching == Matching(acting[c])
               came     == Cardinality(matching \ found[c])
               gone     == Cardinality(found[c] \ matching)
               left_out == Cardinality(matching \ found'[c])
           IN  answer[c] = "none" =>
                 /\ answer'[c] = "last page"  => left_out <= came
                 /\ answer'[c] = "more pages" => left_out > 0 \/ gone > came]_vars
  BY <1>1
<1> QED BY <1>2, TypeCorrect, PTL DEF Spec, HasMoreErrsOnlyByChange
-----------------------------------------------------------------------------
(***************************************************************************)
(* What a memory says, and what a call has read of one and is about to     *)
(* write back, is the text it was saved with unless an update has named    *)
(* its text; and what a semantic search has found so far are memories of   *)
(* its tenant that have, or had until they were erased, an embedding.      *)
(***************************************************************************)
NamesText(h) == \E i \in DOMAIN h : "text" \in h[i].fields

TextsNamed == \A m \in Memory : content[m]["text"] = Saved \/ NamesText(updates[m])

ReadsNamed ==
  \A c \in Call : pc[c] = "write" =>
    /\ target[c] \in Memory
    /\ read[c].content["text"] = Saved \/ NamesText(updates[target[c]])

HasEmbedding(m) == status[m] = "erased" \/ m \in embedded

HitsOwned ==
  \A c \in Call : pc[c] = "keywords" => \A m \in found[c] :
    status[m] # "unsaved" /\ tenant_id[m] = acting[c] /\ HasEmbedding(m)

HitsInv == TypeOK /\ TextsNamed /\ ReadsNamed /\ HitsOwned

LEMMA InitHits == Init => HitsInv
<1> SUFFICES ASSUME Init PROVE HitsInv
  OBVIOUS
<1>1. TypeOK /\ ReadsNamed /\ HitsOwned
  BY InitType DEF Init, ReadsNamed, HitsOwned
<1>2. PICK edited \in SUBSET {m \in Memory : status[m] # "unsaved"} :
        /\ content = [m \in Memory |-> IF m \in edited THEN Edited ELSE AsSaved]
        /\ updates = [m \in Memory |->
             IF m \in edited THEN <<[call |-> Earlier, fields |-> Field, read_at |-> 0]>> ELSE <<>>]
  BY DEF Init
<1>3. ASSUME NEW m \in Memory PROVE content[m]["text"] = Saved \/ NamesText(updates[m])
  <2>1. CASE m \in edited
    <3> DEFINE e == [call |-> Earlier, fields |-> Field, read_at |-> 0]
    <3>1. updates[m] = <<e>> /\ e.fields = Field
      BY <1>2, <2>1
    <3> HIDE DEF e
    <3>2. 1 \in DOMAIN updates[m] /\ updates[m][1] = e
      BY <3>1
    <3> QED BY <3>1, <3>2, MemoryAssumption DEF NamesText
  <2>2. CASE m \notin edited
    BY <1>2, <2>2, MemoryAssumption DEF AsSaved
  <2> QED BY <2>1, <2>2
<1> QED BY <1>1, <1>3 DEF HitsInv, TextsNamed

(* A row once saved stays its tenant's, and loses its embedding only when  *)
(* it is erased.                                                           *)
KeepsRows ==
  \A m \in Memory : status[m] # "unsaved" =>
    status'[m] # "unsaved" /\ tenant_id'[m] = tenant_id[m] /\ (HasEmbedding(m) => HasEmbedding(m)')

(* A step that writes no content, and neither brings a call to the writing *)
(* of one nor a search to its second statement.                            *)
LEMMA QuietHits ==
  ASSUME HitsInv, TypeOK', UNCHANGED <<content, updates>>, KeepsRows,
         \A c \in Call : pc'[c] = "write" =>
           pc[c] = "write" /\ target'[c] = target[c] /\ read'[c] = read[c],
         \A c \in Call : pc'[c] = "keywords" =>
           pc[c] = "keywords" /\ found'[c] = found[c] /\ acting'[c] = acting[c]
  PROVE  HitsInv'
<1>1. TextsNamed'
  BY Zenon DEF HitsInv, TextsNamed
<1>2. ReadsNamed'
  BY Zenon DEF HitsInv, ReadsNamed
<1>3. ASSUME NEW c \in Call, pc'[c] = "keywords", NEW m \in found'[c]
      PROVE  status'[m] # "unsaved" /\ tenant_id'[m] = acting'[c] /\ HasEmbedding(m)'
  <2>1. /\ m \in found[c] /\ acting'[c] = acting[c]
        /\ status[m] # "unsaved" /\ tenant_id[m] = acting[c] /\ HasEmbedding(m)
    BY <1>3, Zenon DEF HitsInv, HitsOwned
  <2>2. m \in Memory
    BY <2>1 DEF HitsInv, TypeOK
  <2> QED BY <2>1, <2>2, Zenon DEF KeepsRows
<1>4. HitsOwned'
  BY <1>3, Zenon DEF HitsOwned
<1> QED BY <1>1, <1>2, <1>4 DEF HitsInv

LEMMA GetHits ==
  ASSUME HitsInv, TypeOK', NEW c \in Call, NEW m \in Memory,
         NEW next \in {"write", "delete"}, NEW missing, Get(c, m, next, missing)
  PROVE  HitsInv'
<1> USE DEF Unmoved, row
<1>1. UNCHANGED <<content, updates, status, tenant_id, embedded, found>> /\ KeepsRows
  BY DEF Get, KeepsRows, HasEmbedding
<1>2. \A d \in Call : /\ pc'[d] = "keywords" => pc[d] = "keywords" /\ acting'[d] = acting[d]
                      /\ d # c => pc'[d] = pc[d] /\ target'[d] = target[d] /\ read'[d] = read[d]
  BY DEF Get, Begin, HitsInv, TypeOK
<1>3. ASSUME NEW d \in Call, pc'[d] = "write"
      PROVE  target'[d] \in Memory
             /\ (read'[d].content["text"] = Saved \/ NamesText(updates[target'[d]]))
  <2>1. CASE d # c
    BY <1>2, <1>3, <2>1, Zenon DEF HitsInv, ReadsNamed
  <2>2. CASE d = c
    <3>1. target'[c] = m /\ read'[c].content = content[m]
      BY <1>3, <2>2 DEF Get, Begin, HitsInv, TypeOK
    <3> QED BY <2>2, <3>1, Zenon DEF HitsInv, TextsNamed
  <2> QED BY <2>1, <2>2
<1>4. ReadsNamed'
  BY <1>1, <1>3, Zenon DEF ReadsNamed
<1>5. TextsNamed'
  BY <1>1, Zenon DEF HitsInv, TextsNamed
<1>6. HitsOwned'
  BY <1>1, <1>2, Zenon DEF HitsInv, HitsOwned, HasEmbedding
<1> QED BY <1>4, <1>5, <1>6 DEF HitsInv

LEMMA WriteHits ==
  ASSUME HitsInv, TypeOK', NEW c \in Call, NEW fields \in SUBSET Field, WriteUpdate(c, fields)
  PROVE  HitsInv'
<1>1. /\ UNCHANGED <<status, tenant_id, embedded, found, acting>>
      /\ \A d \in Call : pc'[d] = "keywords" => pc[d] = "keywords"
      /\ \A d \in Call : pc'[d] = "write" =>
           pc[d] = "write" /\ target'[d] = target[d] /\ read'[d] = read[d]
  BY DEF WriteUpdate, WriteOr, Answered, HitsInv, TypeOK
<1>2. HitsOwned'
  BY <1>1, Zenon DEF HitsInv, HitsOwned, HasEmbedding
<1>3. CASE target[c] \notin LiveOf(acting[c])
  <2>1. UNCHANGED <<content, updates>>
    BY <1>3 DEF WriteUpdate, WriteOr
  <2> QED BY <1>1, <2>1, QuietHits DEF KeepsRows, HasEmbedding
<1>4. CASE target[c] \in LiveOf(acting[c])
  <2> DEFINE m == target[c]
             e == [call |-> c, fields |-> fields, read_at |-> read[c].at]
  <2>1. m \in Memory /\ (read[c].content["text"] = Saved \/ NamesText(updates[m]))
    BY DEF WriteUpdate, WriteOr, HitsInv, ReadsNamed
  <2>2. updates[m] \in Seq(Update) /\ e \in Update
    BY <2>1 DEF HitsInv, TypeOK, Read, Update
  <2>3. /\ updates'[m] = Append(updates[m], e)
        /\ content'[m]["text"] = IF "text" \in fields THEN c ELSE read[c].content["text"]
        /\ \A n \in Memory : n # m => updates'[n] = updates[n] /\ content'[n] = content[n]
    BY <1>4, <2>1, MemoryAssumption DEF WriteUpdate, WriteOr, WriteOver, Merged, HitsInv, TypeOK
  <2>4. /\ DOMAIN updates'[m] = DOMAIN updates[m] \cup {Len(updates[m]) + 1}
        /\ \A i \in DOMAIN updates[m] : updates'[m][i] = updates[m][i]
        /\ updates'[m][Len(updates[m]) + 1] = e
    <3>1. DOMAIN updates[m] = 1..Len(updates[m]) /\ Len(updates[m]) \in Nat
      BY <2>2, LenProperties
    <3>2. DOMAIN updates'[m] = 1..Len(updates[m]) + 1
      <4>1. updates'[m] \in Seq(Update) /\ Len(updates'[m]) = Len(updates[m]) + 1
        BY <2>2, <2>3, AppendProperties
      <4> QED BY <4>1, LenProperties
    <3> HIDE DEF m, e
    <3>3. \A i \in 1..Len(updates[m]) + 1 :
            updates'[m][i] = IF i = Len(updates[m]) + 1 THEN e ELSE updates[m][i]
      BY <2>2, <2>3, <3>1, AppendProperties
    <3> QED BY <3>1, <3>2, <3>3
  <2>5. /\ NamesText(updates[m]) => NamesText(updates'[m])
        /\ "text" \in fields => NamesText(updates'[m])
    <3>1. e.fields = fields
      OBVIOUS
    <3> HIDE DEF m, e
    <3> QED BY <2>4, <3>1 DEF NamesText
  <2>6. \A n \in Memory : NamesText(updates[n]) => NamesText(updates'[n])
    BY <2>3, <2>5, Zenon
  <2>7. TextsNamed'
    <3>1. content'[m]["text"] = Saved \/ NamesText(updates'[m])
      BY <2>1, <2>3, <2>5
    <3> QED BY <2>3, <2>6, <3>1, Zenon DEF HitsInv, TextsNamed
  <2>8. ReadsNamed'
    BY <1>1, <2>6, Zenon DEF HitsInv, ReadsNamed
  <2> QED BY <1>2, <2>7, <2>8 DEF HitsInv
<1> QED BY <1>3, <1>4

(* What the first statement of a semantic search finds. *)
LEMMA VectorHits ==
  ASSUME HitsInv, TypeOK', NEW c \in Call, VectorSearch(c)
  PROVE  HitsInv'
<1> USE DEF Unmoved, row
<1>1. /\ UNCHANGED <<content, updates, status, tenant_id, embedded, target, read>>
      /\ acting'[c] = _tenantId
      /\ \A d \in Call : pc'[d] = "write" => pc[d] = "write"
      /\ \A d \in Call : d # c =>
           pc'[d] = pc[d] /\ acting'[d] = acting[d] /\ found'[d] = found[d]
  BY DEF VectorSearch, Searched, Begin, HitsInv, TypeOK
<1>2. found'[c] \subseteq LiveOf(_tenantId) \cap embedded
  <2>1. PICK near \in Cut(LiveOf(_tenantId) \cap embedded, Limit) :
          found' = [found EXCEPT ![c] = near]
    BY DEF VectorSearch
  <2> QED BY <2>1 DEF Cut, HitsInv, TypeOK
<1>3. \A m \in found'[c] : status[m] = "live" /\ tenant_id[m] = _tenantId /\ m \in embedded
  BY <1>2 DEF LiveOf
<1>4. ASSUME NEW d \in Call, pc'[d] = "keywords", NEW m \in found'[d]
      PROVE  status'[m] # "unsaved" /\ tenant_id'[m] = acting'[d] /\ HasEmbedding(m)'
  <2>1. CASE d = c
    BY <1>1, <1>3, <1>4, <2>1 DEF HasEmbedding
  <2>2. CASE d # c
    BY <1>1, <1>4, <2>2, Zenon DEF HitsInv, HitsOwned, HasEmbedding
  <2> QED BY <2>1, <2>2
<1>5. HitsOwned'
  BY <1>4, Zenon DEF HitsOwned
<1>6. TextsNamed' /\ ReadsNamed'
  BY <1>1, Zenon DEF HitsInv, TextsNamed, ReadsNamed
<1> QED BY <1>5, <1>6 DEF HitsInv

LEMMA StepHits == HitsInv /\ [Next]_vars => HitsInv'
<1> SUFFICES ASSUME HitsInv, [Next]_vars PROVE HitsInv'
  OBVIOUS
<1>0. TypeOK /\ TypeOK'
  BY StepType DEF HitsInv
<1> USE DEF Unmoved, row
<1>1. ASSUME UNCHANGED <<content, updates, pc, target, read, found, acting>>, KeepsRows
      PROVE  HitsInv'
  BY <1>0, <1>1, QuietHits
<1>2. ASSUME NEW m \in Memory, StoreEmbedding(m) \/ EmbeddingFails(m) PROVE HitsInv'
  BY <1>1, <1>2 DEF StoreEmbedding, EmbeddingFails, KeepsRows, HasEmbedding
<1>3. ASSUME NEW c \in Call, NEW p \in {"set", "delete", "page", "answered"},
             pc' = [pc EXCEPT ![c] = p], KeepsRows, UNCHANGED <<content, updates>>,
             \A d \in Call : d # c => /\ target'[d] = target[d] /\ read'[d] = read[d]
                                      /\ found'[d] = found[d] /\ acting'[d] = acting[d]
      PROVE  HitsInv'
  BY <1>0, <1>3, QuietHits DEF TypeOK
<1>4. ASSUME UNCHANGED <<status, tenant_id, embedded>> PROVE KeepsRows
  BY <1>4 DEF KeepsRows, HasEmbedding
<1>5. ASSUME NEW c \in Call, SetTenantContext(c) PROVE HitsInv'
  BY <1>3, <1>4, <1>5 DEF SetTenantContext
<1>6. ASSUME NEW c \in Call, NEW m \in Memory, Remember(c, m) PROVE HitsInv'
  <2>1. KeepsRows
    BY <1>0, <1>6 DEF Remember, KeepsRows, HasEmbedding, TypeOK
  <2> QED BY <1>0, <1>3, <1>6, <2>1 DEF Remember, Begin, TypeOK
<1>7. ASSUME NEW c \in Call, NEW m \in Memory, ReadForUpdate(c, m) \/ ReadForForget(c, m)
      PROVE  HitsInv'
  BY <1>0, <1>7, GetHits DEF ReadForUpdate, ReadForForget
<1>8. ASSUME NEW c \in Call, NEW m \in Memory, ForgetRefused(c, m) PROVE HitsInv'
  BY <1>0, <1>3, <1>4, <1>8 DEF ForgetRefused, Begin, TypeOK
<1>9. ASSUME NEW c \in Call, NEW fields \in SUBSET Field, WriteUpdate(c, fields) PROVE HitsInv'
  BY <1>0, <1>9, WriteHits
<1>10. ASSUME NEW c \in Call, Delete(c) PROVE HitsInv'
  <2>1. KeepsRows
    BY <1>0, <1>10 DEF Delete, SetStatus, LiveOf, KeepsRows, HasEmbedding, TypeOK
  <2> QED BY <1>0, <1>3, <1>10, <2>1 DEF Delete, Answered, TypeOK
<1>11. ASSUME NEW c \in Call, NEW ms, NEW s \in {"live", "deleted", "erased"}, Sweep(c, ms, s),
              \A n \in ms : status[n] # "erased"
       PROVE  HitsInv'
  <2>1. KeepsRows
    BY <1>0, <1>11 DEF Sweep, SetStatus, KeepsRows, HasEmbedding, TypeOK
  <2> QED BY <1>0, <1>3, <1>11, <2>1 DEF Sweep, Begin, TypeOK
<1>12. ASSUME NEW c \in Call, NEW m \in Memory, Restore(c, m) \/ HardDelete(c, m) PROVE HitsInv'
  BY <1>11, <1>12 DEF Restore, HardDelete
<1>13. ASSUME NEW c \in Call, CleanupExpired(c) PROVE HitsInv'
  BY <1>11, <1>13 DEF CleanupExpired, LiveOf
<1>14. ASSUME NEW c \in Call, Count(c) PROVE HitsInv'
  BY <1>0, <1>3, <1>4, <1>14 DEF Count, Searched, Begin, TypeOK
<1>15. ASSUME NEW c \in Call, VectorSearch(c) PROVE HitsInv'
  BY <1>0, <1>15, VectorHits
<1>16. ASSUME NEW c \in Call, Page(c) \/ KeywordSearch(c) \/ FallbackSearch(c) PROVE HitsInv'
  <2>1. KeepsRows /\ UNCHANGED <<content, updates>>
    BY <1>4, <1>16 DEF Page, KeywordSearch, FallbackSearch, Searched
  <2>2. PICK S : found' = [found EXCEPT ![c] = S]
    BY <1>16, Zenon DEF Page, KeywordSearch, FallbackSearch
  <2>3. /\ pc' = [pc EXCEPT ![c] = "answered"]
        /\ UNCHANGED acting \/ acting' = [acting EXCEPT ![c] = _tenantId]
        /\ UNCHANGED <<target, read>>
           \/ /\ target' = [target EXCEPT ![c] = None]
              /\ read' = [read EXCEPT ![c] = Unread]
    BY <1>16, Zenon DEF Page, KeywordSearch, FallbackSearch, Begin, Answered
  <2> QED BY <1>0, <1>3, <2>1, <2>2, <2>3 DEF TypeOK
<1>17. CASE UNCHANGED vars
  BY <1>1, <1>4, <1>17 DEF vars
<1> QED
  BY <1>2, <1>5, <1>6, <1>7, <1>8, <1>9, <1>10, <1>12, <1>13, <1>14, <1>15, <1>16, <1>17 DEF Next

(* A semantic search misses a memory that contains the text only if its    *)
(* page is full, or half a page does not hold those that do.  It returns   *)
(* one that does not only by its embedding, among its tenant's memories,   *)
(* and only once the memory is gone or an update has named its text.       *)
THEOREM SearchesGoByText == Spec => SearchGoesByText
<1>1. ASSUME HitsInv, [Next]_vars, NEW c \in Call, pc[c] = "keywords", pc'[c] = "answered",
             NEW m \in found'[c] \ Matching(acting[c])
      PROVE  /\ m \in found[c] /\ tenant_id[m] = acting[c]
             /\ status[m] = "live" =>
                  m \in embedded /\ \E i \in DOMAIN updates[m] : "text" \in updates[m][i].fields
  <2>1. found'[c] \subseteq found[c] \cup Matching(acting[c])
    <3>1. CASE KeywordSearch(c)
      <4>1. PICK texts \in Cut(Matching(acting[c]), Limit \div 2) :
              \E rest \in Cut(texts \ found[c], Limit - Cardinality(found[c])) :
                found' = [found EXCEPT ![c] = found[c] \cup rest]
        BY <3>1, Zenon DEF KeywordSearch
      <4>2. PICK rest \in Cut(texts \ found[c], Limit - Cardinality(found[c])) :
              found' = [found EXCEPT ![c] = found[c] \cup rest]
        BY <4>1
      <4>3. rest \subseteq Matching(acting[c]) /\ found'[c] = found[c] \cup rest
        BY <1>1, <4>2 DEF Cut, HitsInv, TypeOK
      <4> QED BY <4>3
    <3>2. CASE FallbackSearch(c)
      <4>1. acting' = acting
        BY <1>1, <3>2, Zenon DEF FallbackSearch, Begin
      <4>2. PICK texts \in Cut(Matching(acting[c]), Limit) : found' = [found EXCEPT ![c] = texts]
        BY <3>2, <4>1, Zenon DEF FallbackSearch
      <4> QED BY <1>1, <4>2 DEF Cut, HitsInv, TypeOK
    <3> QED BY <1>1, <3>1, <3>2, SearchEnds DEF HitsInv
  <2>2. m \in found[c] /\ m \in Memory
    BY <1>1, <2>1 DEF HitsInv, TypeOK
  <2>3. tenant_id[m] = acting[c] /\ HasEmbedding(m)
    BY <1>1, <2>2 DEF HitsInv, HitsOwned
  <2>4. ASSUME status[m] = "live" PROVE NamesText(updates[m])
    <3>1. content[m]["text"] # Saved
      BY <1>1, <2>2, <2>3, <2>4 DEF Matching, LiveOf
    <3> QED BY <1>1, <2>2, <3>1 DEF HitsInv, TextsNamed
  <2> QED BY <2>2, <2>3, <2>4 DEF HasEmbedding, NamesText
<1>2. HitsInv /\ [Next]_vars =>
        [\A c \in Call :
           pc[c] = "keywords" /\ pc'[c] = "answered" =>
             LET matching == Matching(acting[c])
             IN  /\ \/ matching \subseteq found'[c]
                    \/ Cardinality(found'[c]) = Limit
                    \/ Cardinality(matching) > Limit \div 2
                 /\ \A m \in found'[c] \ matching :
                      /\ m \in found[c] /\ tenant_id[m] = acting[c]
                      /\ status[m] = "live" =>
                           /\ m \in embedded
                           /\ \E i \in DOMAIN updates[m] :
                                "text" \in updates[m][i].fields]_vars
  BY <1>1, StepSearch DEF HitsInv
<1> QED BY <1>2, InitHits, StepHits, PTL DEF Spec, SearchGoesByText
=============================================================================
