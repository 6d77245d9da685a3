---------------------------- MODULE MemoryStore ----------------------------
(***************************************************************************)
(* The agents' memories: MemoryStore of src/memory/store.ts behind the     *)
(* facade of src/memory/index.ts, whose tenant is one module variable.     *)
(*                                                                         *)
(* An action is one statement sent to the database with the code around    *)
(* it; updateMemory, forget and the two searches send two.  The embedding  *)
(* of a memory is asked for when it is saved and stored whenever it comes. *)
(* Callers hold the store by getMemoryStore and pass it the tenant of      *)
(* getCurrentTenantId, or use the facade's functions, which do the same.   *)
(* A field's value is named for the call that wrote it last, and searches  *)
(* look for the text the memories were saved with.                         *)
(***************************************************************************)
EXTENDS Naturals, Sequences, FiniteSets

CONSTANTS Memory,     \* the uuids of saveMemory
          Call, Tenant,
          own,        \* the tenant each caller works for
          Field,      \* of content and metadata, as far as updates name them
          Limit,      \* of the searches
          Saved,      \* the value of a field nobody has updated
          Earlier,    \* stands for the updates before those of Call
          None

ASSUME MemoryAssumption ==
  /\ own \in [Call -> Tenant]
  /\ {Saved, Earlier} \cap Call = {}
  /\ Saved # Earlier
  /\ None \notin Tenant \cup Memory
  /\ "text" \in Field
  /\ Limit \in Nat \ {0}
  /\ IsFiniteSet(Memory)

VARIABLES
  _tenantId,       \* the facade's
  status,          \* of each row; "live" is deleted_at IS NULL
  tenant_id, content, version,
  embedded,        \* the rows with an embedding
  embedding,       \* the embeddings under way
  pc,
  acting,          \* the tenant a call has taken from the facade
  target, read,    \* the memory it is about, and what it has read of it
  found,           \* what the first statement of a search brought
  answer,
  updates,         \* history: the updates each row has taken, in order
  intruded         \* history: who set the context between a call's and its use

row   == <<status, tenant_id, content, version, embedded>>
vars  == <<_tenantId, row, embedding, pc, acting, target, read, found, answer,
           updates, intruded>>

Content == [Field -> Call \cup {Saved, Earlier}]
Read    == [content : Content, version : Nat, at : Nat]
Update  == [call : Call \cup {Earlier}, fields : SUBSET Field, read_at : Nat]
Answer  == {"none", "entry", "null", "true", "false", "refused", "results",
            "last page", "more pages"}

TypeOK ==
  /\ _tenantId \in Tenant
  /\ status \in [Memory -> {"unsaved", "live", "deleted", "erased"}]
  /\ tenant_id \in [Memory -> Tenant \cup {None}]
  /\ content \in [Memory -> Content]
  /\ version \in [Memory -> Nat]
  /\ embedded \subseteq Memory
  /\ embedding \subseteq Memory
  /\ pc \in [Call -> {"new", "set", "write", "delete", "page", "keywords", "answered"}]
  /\ acting \in [Call -> Tenant \cup {None}]
  /\ target \in [Call -> Memory \cup {None}]
  /\ read \in [Call -> Read]
  /\ found \in [Call -> SUBSET Memory]
  /\ answer \in [Call -> Answer]
  /\ updates \in [Memory -> Seq(Update)]
  /\ intruded \in [Call -> SUBSET Call]

AsSaved == [f \in Field |-> Saved]
Edited  == [f \in Field |-> Earlier]
Unread  == [content |-> AsSaved, version |-> 0, at |-> 0]

LiveOf(t) == {m \in Memory : status[m] = "live" /\ tenant_id[m] = t}

-----------------------------------------------------------------------------
(* Some memories were saved before; they may have been updated once, their *)
(* embedding may have failed, and some are deleted.                        *)
Init ==
  /\ _tenantId \in Tenant
  /\ status \in [Memory -> {"unsaved", "live", "deleted"}]
  /\ tenant_id \in [Memory -> Tenant \cup {None}]
  /\ \A m \in Memory : tenant_id[m] = None <=> status[m] = "unsaved"
  /\ \E edited \in SUBSET {m \in Memory : status[m] # "unsaved"} :
       /\ content = [m \in Memory |-> IF m \in edited THEN Edited ELSE AsSaved]
       /\ version = [m \in Memory |-> IF m \in edited THEN 2 ELSE 1]
       /\ updates = [m \in Memory |->
             IF m \in edited THEN <<[call |-> Earlier, fields |-> Field, read_at |-> 0]>> ELSE <<>>]
  /\ embedded \in SUBSET {m \in Memory : status[m] # "unsaved"}
  /\ embedding = {}
  /\ pc = [c \in Call |-> "new"]
  /\ acting = [c \in Call |-> None]
  /\ target = [c \in Call |-> None]
  /\ read = [c \in Call |-> Unread]
  /\ found = [c \in Call |-> {}]
  /\ answer = [c \in Call |-> "none"]
  /\ intruded = [c \in Call |-> {}]

(* Mutation: a context once set is kept. *)
SetTenantContextOnce(c) ==
  /\ pc[c] = "new"
  /\ _tenantId' = IF \A d \in Call : pc[d] = "new" THEN own[c] ELSE _tenantId
  /\ pc' = [pc EXCEPT ![c] = "set"]
  /\ intruded' = [d \in Call |-> IF pc[d] = "set" THEN intruded[d] \cup {c} ELSE intruded[d]]
  /\ UNCHANGED <<row, embedding, acting, target, read, found, answer, updates>>

(* setTenantContext, by a caller about to use the facade. *)
SetTenantContext(c) ==
  /\ pc[c] = "new"
  /\ _tenantId' = own[c]
  /\ pc' = [pc EXCEPT ![c] = "set"]
  /\ intruded' = [d \in Call |-> IF pc[d] = "set" THEN intruded[d] \cup {c} ELSE intruded[d]]
  /\ UNCHANGED <<row, embedding, acting, target, read, found, answer, updates>>

(* A call takes the tenant the facade has now, ... *)
Begin(c, next) ==
  /\ pc[c] = "set"
  /\ acting' = [acting EXCEPT ![c] = _tenantId]
  /\ pc' = [pc EXCEPT ![c] = next]

Unmoved == UNCHANGED <<_tenantId, embedding, updates, intruded>>

(* remember, of a fresh uuid.  The embedding is not waited for. *)
Remember(c, m) ==
  /\ Begin(c, "answered")
  /\ status[m] = "unsaved"
  /\ status' = [status EXCEPT ![m] = "live"]
  /\ tenant_id' = [tenant_id EXCEPT ![m] = _tenantId]
  /\ embedding' = embedding \cup {m}
  /\ answer' = [answer EXCEPT ![c] = "entry"]
  /\ UNCHANGED <<_tenantId, content, version, embedded, target, read, found, updates, intruded>>

(* generate_and_store_embedding: by id alone, deleted or not. *)
StoreEmbedding(m) ==
  /\ m \in embedding
  /\ embedding' = embedding \ {m}
  /\ embedded' = IF status[m] = "erased" THEN embedded ELSE embedded \cup {m}
  /\ UNCHANGED <<_tenantId, status, tenant_id, content, version, pc, acting, target, read,
                 found, answer, updates, intruded>>

(* An error is logged; nobody asks again. *)
EmbeddingFails(m) ==
  /\ m \in embedding
  /\ embedding' = embedding \ {m}
  /\ UNCHANGED <<_tenantId, row, pc, acting, target, read, found, answer, updates, intruded>>

(* Mutation: updates are merged into the memory as it was saved. *)
GetAsSaved(c, m, next, missing) ==
  /\ IF m \in LiveOf(_tenantId)
     THEN /\ Begin(c, next)
          /\ target' = [target EXCEPT ![c] = m]
          /\ read' = [read EXCEPT ![c] = [content |-> AsSaved, version |-> version[m],
                                          at |-> Len(updates[m])]]
          /\ UNCHANGED answer
     ELSE /\ Begin(c, "answered")
          /\ answer' = [answer EXCEPT ![c] = missing]
          /\ UNCHANGED <<target, read>>
  /\ Unmoved /\ UNCHANGED <<row, found>>

(* getMemory, which updateMemory and forget begin with. *)
Get(c, m, next, missing) ==
  /\ IF m \in LiveOf(_tenantId)
     THEN /\ Begin(c, next)
          /\ target' = [target EXCEPT ![c] = m]
          /\ read' = [read EXCEPT ![c] = [content |-> content[m], version |-> version[m],
                                          at |-> Len(updates[m])]]
          /\ UNCHANGED answer
     ELSE /\ Begin(c, "answered")
          /\ answer' = [answer EXCEPT ![c] = missing]
          /\ UNCHANGED <<target, read>>
  /\ Unmoved /\ UNCHANGED <<row, found>>

ReadForUpdate(c, m) == Get(c, m, "write", "null")

(* A call returns, and its locals end. *)
Answered(c, a) ==
  /\ pc' = [pc EXCEPT ![c] = "answered"]
  /\ answer' = [answer EXCEPT ![c] = a]
  /\ target' = [target EXCEPT ![c] = None]
  /\ read' = [read EXCEPT ![c] = Unread]

WriteOver(c, m, new, v, fields) ==
  /\ content' = [content EXCEPT ![m] = new]
  /\ version' = [version EXCEPT ![m] = v]
  /\ updates' = [updates EXCEPT ![m] =
        Append(@, [call |-> c, fields |-> fields, read_at |-> read[c].at])]

Merged(c, fields) == [f \in Field |-> IF f \in fields THEN c ELSE read[c].content[f]]

WriteOr(c, found_row, write) ==
  /\ pc[c] = "write"
  /\ IF found_row THEN write /\ Answered(c, "entry")
     ELSE Answered(c, "null") /\ UNCHANGED <<content, version, updates>>
  /\ UNCHANGED <<_tenantId, status, tenant_id, embedded, embedding, acting, found, intruded>>

(* Mutations: only updates of the text count; the row is written deleted   *)
(* or not.                                                                 *)
WriteUpdateUncounted(c, fields) ==
  WriteOr(c, target[c] \in LiveOf(acting[c]),
          WriteOver(c, target[c], Merged(c, fields),
                    read[c].version + (IF "text" \in fields THEN 1 ELSE 0), fields))
WriteUpdateDeleted(c, fields) ==
  WriteOr(c, tenant_id[target[c]] = acting[c],
          WriteOver(c, target[c], Merged(c, fields), read[c].version + 1, fields))

(* The second half of updateMemory: the whole row is written, as it was    *)
(* read and merged with the update.                                        *)
WriteUpdate(c, fields) ==
  WriteOr(c, target[c] \in LiveOf(acting[c]),
          WriteOver(c, target[c], Merged(c, fields), read[c].version + 1, fields))

(* forget: a memory of another agent is refused, ... *)
ReadForForget(c, m) == Get(c, m, "delete", "false")

ForgetRefused(c, m) ==
  /\ m \in LiveOf(_tenantId)
  /\ Begin(c, "answered")
  /\ answer' = [answer EXCEPT ![c] = "refused"]
  /\ Unmoved /\ UNCHANGED <<row, target, read, found>>

SetStatus(ms, s) == status' = [m \in Memory |-> IF m \in ms THEN s ELSE status[m]]

(* ... and is deleted if it is still there. *)
Delete(c) ==
  LET hit == {target[c]} \cap LiveOf(acting[c])
  IN  /\ pc[c] = "delete"
      /\ SetStatus(hit, "deleted")
      /\ Answered(c, IF hit = {} THEN "false" ELSE "true")
      /\ Unmoved /\ UNCHANGED <<tenant_id, content, version, embedded, acting, found>>

(* restoreMemory, hardDeleteMemory, cleanupExpiredMemories: one statement. *)
Sweep(c, ms, s) ==
  /\ Begin(c, "answered")
  /\ SetStatus(ms, s)
  /\ answer' = [answer EXCEPT ![c] = IF ms = {} THEN "false" ELSE "true"]
  /\ embedded' = IF s = "erased" THEN embedded \ ms ELSE embedded
  /\ Unmoved /\ UNCHANGED <<tenant_id, content, version, target, read, found>>

Restore(c, m) ==
  Sweep(c, {n \in {m} : status[n] = "deleted" /\ tenant_id[n] = _tenantId}, "live")
HardDelete(c, m) ==
  Sweep(c, {n \in {m} : status[n] \in {"live", "deleted"} /\ tenant_id[n] = _tenantId}, "erased")
CleanupExpired(c) ==   \* those whose expiresAt has passed, whichever they are
  \E expired \in SUBSET LiveOf(_tenantId) : Sweep(c, expired, "deleted")

(* LIMIT n, in an order of no account here. *)
Cut(S, n) == {T \in SUBSET S : Cardinality(T) = IF Cardinality(S) < n THEN Cardinality(S) ELSE n}

(* ILIKE the text sought. *)
Matching(t) == {m \in LiveOf(t) : content[m]["text"] = Saved}

Searched == /\ Unmoved
            /\ UNCHANGED row

(* searchMemories: the matches are counted, ... *)
Count(c) ==
  /\ Begin(c, "page")
  /\ found' = [found EXCEPT ![c] = Matching(_tenantId)]
  /\ Searched /\ UNCHANGED <<answer, target, read>>

(* Mutation: one short. *)
PageShort(c) ==
  /\ pc[c] = "page"
  /\ \E page \in Cut(Matching(acting[c]), Limit) :
       /\ found' = [found EXCEPT ![c] = page]
       /\ Answered(c, IF Cardinality(page) + 1 < Cardinality(found[c]) THEN "more pages"
                      ELSE "last page")
  /\ Searched /\ UNCHANGED acting

(* ... and the first page of them fetched; hasMore compares the two. *)
Page(c) ==
  /\ pc[c] = "page"
  /\ \E page \in Cut(Matching(acting[c]), Limit) :
       /\ found' = [found EXCEPT ![c] = page]
       /\ Answered(c, IF Cardinality(page) < Cardinality(found[c]) THEN "more pages"
                      ELSE "last page")
  /\ Searched /\ UNCHANGED acting

(* semanticSearch: the rows whose embedding is near the text sought, ... *)
VectorSearch(c) ==
  /\ Begin(c, "keywords")
  /\ \E near \in Cut(LiveOf(_tenantId) \cap embedded, Limit) :
       found' = [found EXCEPT ![c] = near]
  /\ Searched /\ UNCHANGED <<answer, target, read>>

(* Mutation: the keyword half does not ask for deleted_at IS NULL. *)
KeywordSearchDeleted(c) ==
  /\ pc[c] = "keywords"
  /\ \E texts \in Cut({m \in Memory : /\ status[m] \in {"live", "deleted"}
                                       /\ tenant_id[m] = acting[c]
                                       /\ content[m]["text"] = Saved}, Limit \div 2) :
       \E rest \in Cut(texts \ found[c], Limit - Cardinality(found[c])) :
         found' = [found EXCEPT ![c] = @ \cup rest]
  /\ Answered(c, "results")
  /\ Searched /\ UNCHANGED acting

(* Mutation: keywords are looked for when nothing else is found. *)
KeywordSearchLast(c) ==
  /\ pc[c] = "keywords"
  /\ \E texts \in Cut(Matching(acting[c]), Limit \div 2) :
       found' = [found EXCEPT ![c] = IF @ = {} THEN texts ELSE @]
  /\ Answered(c, "results")
  /\ Searched /\ UNCHANGED acting

(* ... then at most half a page of those that contain it, after them. *)
KeywordSearch(c) ==
  /\ pc[c] = "keywords"
  /\ \E texts \in Cut(Matching(acting[c]), Limit \div 2) :
       \E rest \in Cut(texts \ found[c], Limit - Cardinality(found[c])) :
         found' = [found EXCEPT ![c] = @ \cup rest]
  /\ Answered(c, "results")
  /\ Searched /\ UNCHANGED acting

(* The catch block, when there is no embedding of the text sought or       *)
(* either statement fails: a page of those that contain it.                *)
FallbackSearch(c) ==
  /\ \/ Begin(c, "answered")
     \/ pc[c] = "keywords" /\ pc' = [pc EXCEPT ![c] = "answered"] /\ UNCHANGED acting
  /\ \E texts \in Cut(Matching(acting'[c]), Limit) : found' = [found EXCEPT ![c] = texts]
  /\ answer' = [answer EXCEPT ![c] = "results"]
  /\ Searched /\ UNCHANGED <<target, read>>

Next ==
  \/ \E m \in Memory : StoreEmbedding(m) \/ EmbeddingFails(m)
  \/ \E c \in Call :
       \/ SetTenantContext(c)
       \/ \E m \in Memory :
            \/ Remember(c, m) \/ ReadForUpdate(c, m)
            \/ ReadForForget(c, m) \/ ForgetRefused(c, m)
            \/ Restore(c, m) \/ HardDelete(c, m)
       \/ \E fields \in SUBSET Field : WriteUpdate(c, fields)
       \/ Delete(c) \/ CleanupExpired(c)
       \/ Count(c) \/ Page(c)
       \/ VectorSearch(c) \/ KeywordSearch(c) \/ FallbackSearch(c)

Spec == Init /\ [][Next]_vars

-----------------------------------------------------------------------------
(* The fields update i of a memory wrote are still as it left them, or as  *)
(* a later update wrote them, unless a later update had read the memory    *)
(* before update i was written: that one puts the old values back, also of *)
(* fields it was not asked to change.                                      *)
Survives(m, i) ==
  \A f \in updates[m][i].fields :
    \E k \in i..Len(updates[m]) : f \in updates[m][k].fields /\ content[m][f] = updates[m][k].call

LostOnlyByOverlap ==
  \A m \in Memory : \A i \in 1..Len(updates[m]) :
    (\A j \in i + 1..Len(updates[m]) : updates[m][j].read_at >= i) => Survives(m, i)

(* The version counts the updates of a memory exactly as long as none of   *)
(* them overlapped another, and falls behind for good when two did: it can *)
(* then stand for two different contents.                                  *)
VersionCountsUpdates ==
  \A m \in Memory :
    LET sequential == \A i \in 1..Len(updates[m]) : updates[m][i].read_at = i - 1
    IN  IF sequential THEN version[m] = Len(updates[m]) + 1
        ELSE version[m] <= Len(updates[m])

(* A call answered for another tenant than its caller's took the tenant    *)
(* from the facade after a caller of that tenant had set it there, between *)
(* its own setting and its use.                                            *)
WrongTenantOnlyByIntrusion ==
  \A c \in Call : acting[c] # None =>
    acting[c] = own[c] \/ \E d \in intruded[c] : acting[c] = own[d]

(* Of a memory that is and stays deleted nothing changes but its           *)
(* embedding, however late an update comes, and an erased one *)
(* never comes back.                                                       *)
DeletedIsFrozen ==
  [][\A m \in Memory :
       /\ status[m] = "erased" => status'[m] = "erased"
       /\ status[m] \in {"deleted", "erased"} =>
            <<content[m], version[m]>>' = <<content[m], version[m]>>]_vars

(* The count and the page are two statements, and hasMore compares them.   *)
(* A first page that is said to be the last leaves out no more memories    *)
(* than came since the count; which it leaves out is another matter: the   *)
(* newest come first, and an older one, counted, may be pushed off.  One   *)
(* that is said to have more behind it has, unless more of the memories    *)
(* counted went than came.                                                 *)
HasMoreErrsOnlyByChange ==
  [][\A c \in Call :
       LET matching == Matching(acting[c])
           came     == Cardinality(matching \ found[c])
           gone     == Cardinality(found[c] \ matching)
           left_out == Cardinality(matching \ found'[c])
       IN  answer[c] = "none" =>
             /\ answer'[c] = "last page"  => left_out <= came
             /\ answer'[c] = "more pages" => left_out > 0 \/ gone > came]_vars

(* A semantic search finds every memory that contains the text at its last *)
(* statement, embedded or not, unless its page is full or more memories    *)
(* contain it than half a page holds.  (With Limit = 1 that is none.)      *)
(* What it returns although it does not, or not any more, contain the text *)
(* it found in its first statement, among the memories of the tenant, by   *)
(* their embedding, which is made of the text a memory is saved with and   *)
(* never again; each is gone by now, or some update has named its text.    *)
SearchGoesByText ==
  [][\A c \in Call :
       pc[c] = "keywords" /\ pc'[c] = "answered" =>
         LET matching == Matching(acting[c])
         IN  /\ \/ matching \subseteq found'[c]
                \/ Cardinality(found'[c]) = Limit
                \/ Cardinality(matching) > Limit \div 2
             /\ \A m \in found'[c] \ matching :
                  /\ m \in found[c] /\ tenant_id[m] = acting[c]
                  /\ status[m] = "live" =>
                       /\ m \in embedded
                       /\ \E i \in DOMAIN updates[m] :
                            "text" \in updates[m][i].fields]_vars
=============================================================================
