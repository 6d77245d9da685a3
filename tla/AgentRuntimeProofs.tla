------------------------- MODULE AgentRuntimeProofs -------------------------
(***************************************************************************)
(* What requests get from the runtime and what shutdown leaves running,    *)
(* for any agents and any number of requests.                              *)
(***************************************************************************)
EXTENDS AgentRuntime, TLAPS

(* The agent an instance is of. *)
AgentOf(x) == IF x \in Worker THEN x ELSE asked[x]

(* A request that has asked names its agent, one that is answered holds an *)
(* instance; one that has not asked, or for a worker, has started nothing  *)
(* of its own.                                                             *)
Stages ==
  \A q \in Request :
    /\ pc[q] = "new" <=> asked[q] = None
    /\ pc[q] = "returned" <=> handed[q] # None
    /\ pc[q] = "new" \/ asked[q] \in Worker => ~ is_connected[q]

(* Every entry holds an instance of its own agent. *)
Entries ==
  \A i \in DOMAIN agents : AgentOf(agents[i].instance) = agents[i].id

(* A start that has raced with nothing is the only one of its agent, which *)
(* is not in the Map yet and was handed to nobody; shutdown has not begun. *)
SoleStart ==
  \A q \in Request :
    pc[q] \in {"starting", "started"} /\ asked[q] \notin raced =>
      /\ stopping = "no"
      /\ ~ Holds(asked[q])
      /\ \A p \in Request : p # q => asked[p] # asked[q]

(* Whoever was handed an agent that no start has raced for holds what the  *)
(* Map holds.                                                              *)
HandedFromMap ==
  stopping # "done" =>
    \A q \in Request :
      pc[q] = "returned" /\ asked[q] \notin raced =>
        \E i \in DOMAIN agents : agents[i] = [id |-> asked[q], instance |-> handed[q]]

(* What runs of such an agent is still to be stopped or being started, and *)
(* what the loop has passed does not run.                                  *)
Running ==
  \A x \in Instance :
    is_connected[x] /\ AgentOf(x) \notin raced =>
      /\ stopping # "done"
      /\ \/ Starting(AgentOf(x)) # {}
         \/ \E i \in DOMAIN agents : i > cursor /\ agents[i].instance = x

CursorAtStart == stopping = "no" => cursor = 0

IInv ==
  /\ TypeOK /\ Stages /\ Entries /\ SoleStart /\ HandedFromMap /\ Running
  /\ CursorAtStart /\ OneInstanceUnlessRaced

LEMMA InitIInv == Init => IInv
<1> SUFFICES ASSUME Init PROVE IInv
  OBVIOUS
<1> USE RuntimeAssumption DEF Init
<1>1. TypeOK
  BY DEF TypeOK
<1>2. Stages /\ SoleStart /\ Running /\ CursorAtStart /\ OneInstanceUnlessRaced /\ HandedFromMap
  BY DEF Stages, SoleStart, Running, CursorAtStart, OneInstanceUnlessRaced, HandedFromMap, Instance, AgentOf
<1>3. Entries
  BY DEF Entries
<1> QED BY <1>1, <1>2, <1>3 DEF IInv

(* A request that has asked is about an agent, and its instance exists. *)
LEMMA Asking ==
  ASSUME TypeOK, Stages, NEW q \in Request, pc[q] # "new"
  PROVE  /\ asked[q] \in AgentId /\ asked[q] # None
         /\ InstanceFor(q, asked[q]) \in Instance
         /\ AgentOf(InstanceFor(q, asked[q])) = asked[q]
  BY RuntimeAssumption DEF TypeOK, Stages, InstanceFor, Instance, AgentOf

(* Map.set, on a Map whose keys are distinct: the entries of other keys    *)
(* stay in their places, the key's own is in the place it had or the last. *)
LEMMA SetEntries ==
  ASSUME TypeOK, NEW id \in AgentId, NEW x \in Instance
  PROVE  /\ Set(id, x) \in Seq([id : AgentId, instance : Instance])
         /\ Len(Set(id, x)) >= Len(agents)
         /\ \A i, j \in DOMAIN Set(id, x) : Set(id, x)[i].id = Set(id, x)[j].id => i = j
         /\ \A i \in DOMAIN agents : agents[i].id # id => Set(id, x)[i] = agents[i]
         /\ \A i \in DOMAIN Set(id, x) :
              \/ Set(id, x)[i] = [id |-> id, instance |-> x]
              \/ i \in DOMAIN agents /\ agents[i].id # id /\ Set(id, x)[i] = agents[i]
         /\ \E i \in DOMAIN Set(id, x) : Set(id, x)[i] = [id |-> id, instance |-> x]
         /\ ~ Holds(id) => Set(id, x)[Len(agents) + 1] = [id |-> id, instance |-> x]
                           /\ Len(agents) + 1 \in DOMAIN Set(id, x)
<1> DEFINE entry == [id |-> id, instance |-> x]
<1> DEFINE Entry == [id : AgentId, instance : Instance]
<1>a. agents \in Seq(Entry) /\ entry \in Entry
  BY DEF TypeOK
<1>b. \A i, j \in DOMAIN agents : agents[i].id = agents[j].id => i = j
  BY DEF TypeOK
<1>c. DOMAIN agents = 1..Len(agents) /\ Len(agents) \in Nat /\ \A i \in DOMAIN agents : agents[i] \in Entry
  <2> HIDE DEF Entry
  <2> QED BY <1>a
<1>0. entry.id = id
  OBVIOUS
<1>1. CASE Holds(id)
  <2> DEFINE new == [i \in DOMAIN agents |-> IF agents[i].id = id THEN entry ELSE agents[i]]
  <2>1. Set(id, x) = new
    BY <1>1 DEF Set
  <2>2. new \in Seq(Entry) /\ Len(new) = Len(agents) /\ DOMAIN new = DOMAIN agents
    <3> HIDE DEF Entry, entry
    <3> QED BY <1>a, <1>c
  <2>3. \A i \in DOMAIN agents : new[i] = (IF agents[i].id = id THEN entry ELSE agents[i])
    OBVIOUS
  <2>4. \A i \in DOMAIN agents : new[i].id = agents[i].id
    BY <2>3, <1>0
  <2>5. PICK k \in DOMAIN agents : agents[k].id = id
    BY <1>1 DEF Holds
  <2> HIDE DEF new
  <2> QED BY <1>b, <1>c, <1>1, <2>1, <2>2, <2>3, <2>4, <2>5
<1>2. CASE ~ Holds(id)
  <2> DEFINE new == Append(agents, entry)
  <2>1. Set(id, x) = new
    BY <1>2 DEF Set
  <2>2. new \in Seq(Entry) /\ Len(new) = Len(agents) + 1 /\ DOMAIN new = 1..(Len(agents) + 1)
    <3> HIDE DEF Entry, entry
    <3> QED BY <1>a, <1>c
  <2>3. (\A i \in DOMAIN agents : new[i] = agents[i]) /\ new[Len(agents) + 1] = entry
    <3> HIDE DEF Entry, entry
    <3> QED BY <1>a, <1>c
  <2>4. \A i \in DOMAIN agents : agents[i].id # id
    BY <1>2 DEF Holds
  <2> HIDE DEF new
  <2> QED BY <1>0, <1>b, <1>c, <1>2, <2>1, <2>2, <2>3, <2>4
<1> QED BY <1>1, <1>2

(* get_agent answers with the instance of an entry. *)
LEMMA GetEntry ==
  ASSUME TypeOK, NEW id, Holds(id)
  PROVE  \E i \in DOMAIN agents : agents[i] = [id |-> id, instance |-> Get(id)]
<1> DEFINE Entry == [id : AgentId, instance : Instance]
<1>1. agents \in Seq(Entry)
  BY DEF TypeOK
<1>2. \A i \in DOMAIN agents : agents[i] \in Entry
  <2> HIDE DEF Entry
  <2> QED BY <1>1
<1> DEFINE k == CHOOSE i \in DOMAIN agents : agents[i].id = id
<1>3. k \in DOMAIN agents /\ agents[k].id = id
  BY DEF Holds
<1>4. Get(id) = agents[k].instance
  BY DEF Get
<1>5. agents[k] = [id |-> agents[k].id, instance |-> agents[k].instance]
  <2> HIDE DEF k
  <2> QED BY <1>2, <1>3
<1> HIDE DEF k
<1> QED BY <1>3, <1>4, <1>5

(* The entries of the Map are of the right kind, by the type of the Map. *)
LEMMA EntryType ==
  ASSUME TypeOK
  PROVE  /\ \A i \in DOMAIN agents : agents[i].id \in AgentId /\ agents[i].instance \in Instance
         /\ DOMAIN agents = 1..Len(agents) /\ Len(agents) \in Nat
<1> DEFINE Entry == [id : AgentId, instance : Instance]
<1>1. agents \in Seq(Entry)
  BY DEF TypeOK
<1>2. DOMAIN agents = 1..Len(agents) /\ Len(agents) \in Nat /\ \A i \in DOMAIN agents : agents[i] \in Entry
  <2> HIDE DEF Entry
  <2> QED BY <1>1
<1> QED BY <1>2

LEMMA FoundStep ==
  ASSUME IInv, NEW q \in Request, NEW id \in AgentId, Found(q, id)
  PROVE  IInv'
<1> USE RuntimeAssumption DEF IInv
<1>1. PICK k \in DOMAIN agents : agents[k] = [id |-> id, instance |-> Get(id)]
  BY GetEntry DEF Found
<1>2. Get(id) \in Instance /\ None \notin Instance /\ id # None
  BY <1>1, EntryType DEF Instance, AgentId
<1>3. TypeOK'
  BY <1>2 DEF Found, TypeOK
<1>4. Stages'
  BY <1>2 DEF Found, TypeOK, Stages
<1>5. asked[q] = None /\ ~ is_connected[q] /\ q \notin Worker /\ q \in Instance
  BY DEF Found, Stages, Instance
<1>6. Entries'
  <2>1. \A i \in DOMAIN agents : agents[i].instance \in Instance /\ AgentOf(agents[i].instance) \in AgentId
    BY EntryType DEF Entries
  <2>2. \A x \in Instance : AgentOf(x) \in AgentId => AgentOf(x)' = AgentOf(x)
    BY <1>5 DEF AgentOf, Instance, AgentId, Found, TypeOK
  <2> QED BY <2>1, <2>2 DEF Entries, Found
<1>7. SoleStart'
  <2> SUFFICES ASSUME NEW p \in Request, pc'[p] \in {"starting", "started"}, asked'[p] \notin raced
               PROVE  /\ stopping = "no" /\ ~ Holds(asked'[p])
                      /\ \A r \in Request : r # p => asked'[r] # asked'[p]
    BY DEF SoleStart, Found, Holds
  <2>1. p # q /\ pc'[p] = pc[p] /\ asked'[p] = asked[p]
    BY DEF Found, TypeOK
  <2>2. asked[p] # id
    BY <2>1 DEF SoleStart, Found
  <2> QED BY <2>1, <2>2 DEF SoleStart, Found, TypeOK
<1>8. HandedFromMap'
  <2> SUFFICES ASSUME NEW p \in Request, pc'[p] = "returned", asked'[p] \notin raced
               PROVE  \E i \in DOMAIN agents : agents[i] = [id |-> asked'[p], instance |-> handed'[p]]
    BY DEF HandedFromMap, Found
  <2>1. CASE p = q
    BY <1>1, <2>1 DEF Found, TypeOK
  <2>2. CASE p # q
    BY <2>2 DEF Found, TypeOK, HandedFromMap
  <2> QED BY <2>1, <2>2
<1>9. Running'
  <2>1. \A x \in Instance : x # q => AgentOf(x)' = AgentOf(x)
    BY DEF AgentOf, Found, TypeOK, Instance
  <2>2. \A i \in AgentId : Starting(i) \subseteq Starting(i)'
    BY DEF Starting, Found, TypeOK
  <2>3. \A x \in Instance : is_connected[x] => AgentOf(x) \in AgentId
    BY Asking DEF Stages, AgentOf, AgentId, Instance, TypeOK
  <2> QED BY <1>5, <2>1, <2>2, <2>3 DEF Running, Found
<1>10. OneInstanceUnlessRaced'
  <2>1. ASSUME NEW p \in Request, handed[p] # None, asked[p] = id, id \notin raced PROVE handed[p] = Get(id)
    <3>1. PICK i \in DOMAIN agents : agents[i] = [id |-> id, instance |-> handed[p]]
      BY <2>1 DEF HandedFromMap, Stages, Found
    <3>2. agents[i].id = id /\ agents[k].id = id /\ agents[i].instance = handed[p] /\ agents[k].instance = Get(id)
      BY <1>1, <3>1
    <3>3. i = k
      BY <3>2 DEF TypeOK
    <3> QED BY <3>2, <3>3
  <2> QED BY <2>1 DEF OneInstanceUnlessRaced, Found, TypeOK
<1>11. CursorAtStart'
  BY DEF Found, CursorAtStart
<1> QED BY <1>3, <1>4, <1>6, <1>7, <1>8, <1>9, <1>10, <1>11

LEMMA CreateStep ==
  ASSUME IInv, NEW q \in Request, NEW id \in AgentId, Create(q, id)
  PROVE  IInv'
<1> USE RuntimeAssumption DEF IInv
<1>1. id # None /\ asked[q] = None /\ handed[q] = None /\ ~ is_connected[q] /\ q \notin Worker /\ pc[q] = "new"
  BY DEF Create, Stages, AgentId
<1>2. raced \subseteq raced' /\ raced' \subseteq AgentId
  BY DEF Create, TypeOK
<1>3. TypeOK'
  BY <1>2 DEF Create, TypeOK
<1>4. Stages'
  BY <1>1 DEF Create, TypeOK, Stages
<1>5. Entries'
  <2>1. \A i \in DOMAIN agents : agents[i].instance \in Instance /\ AgentOf(agents[i].instance) \in AgentId
    BY EntryType DEF Entries
  <2>2. \A x \in Instance : AgentOf(x) \in AgentId => AgentOf(x)' = AgentOf(x)
    <3>1. \A p \in Request : p # q => asked'[p] = asked[p]
      BY DEF Create, TypeOK
    <3>2. \A x \in Instance : x \in Worker \/ x \in Request
      BY DEF Instance
    <3>3. asked[q] \notin AgentId
      BY <1>1 DEF AgentId
    <3> QED BY <3>1, <3>2, <3>3 DEF AgentOf
  <2> QED BY <2>1, <2>2 DEF Entries, Create
<1>6. SoleStart'
  <2> SUFFICES ASSUME NEW p \in Request, pc'[p] \in {"starting", "started"}, asked'[p] \notin raced'
               PROVE  /\ stopping = "no" /\ ~ Holds(asked'[p])
                      /\ \A r \in Request : r # p => asked'[r] # asked'[p]
    BY DEF SoleStart, Create, Holds
  <2>1. CASE p = q
    <3>1. asked'[p] = id /\ Starting(id) = {} /\ stopping = "no" /\ ~ Holds(id)
      BY <2>1 DEF Create, TypeOK
    <3>2. ASSUME NEW r \in Request, r # q, asked[r] = id PROVE FALSE
      <4>1. pc[r] = "returned"
        BY <3>1, <3>2, <1>1 DEF Starting, Stages, TypeOK
      <4> QED BY <4>1, <3>1, <3>2, <1>2, <2>1 DEF HandedFromMap, Holds
    <3> QED BY <3>1, <3>2, <2>1 DEF Create, TypeOK
  <2>2. CASE p # q
    <3>1. pc'[p] = pc[p] /\ asked'[p] = asked[p] /\ asked[p] \notin raced /\ asked[p] \notin raced'
      BY <2>2, <1>2 DEF Create, TypeOK
    <3>2. asked[p] = id => Starting(id) # {}
      BY <3>1 DEF Starting
    <3>3. asked[p] # id
      BY <3>1, <3>2 DEF Create
    <3> QED BY <3>1, <3>3 DEF SoleStart, Create, TypeOK
  <2> QED BY <2>1, <2>2
<1>7. HandedFromMap'
  <2> SUFFICES ASSUME NEW p \in Request, pc'[p] = "returned", asked'[p] \notin raced'
               PROVE  \E i \in DOMAIN agents : agents[i] = [id |-> asked'[p], instance |-> handed[p]]
    BY DEF HandedFromMap, Create
  <2>1. p # q
    BY DEF Create, TypeOK
  <2> QED BY <2>1, <1>2 DEF Create, TypeOK, HandedFromMap
<1>8. Running'
  <2>1. \A x \in Instance : x # q => AgentOf(x)' = AgentOf(x)
    BY DEF AgentOf, Create, TypeOK, Instance
  <2>2. \A i \in AgentId : Starting(i) \subseteq Starting(i)'
    BY <1>1 DEF Starting, Create, TypeOK
  <2>3. \A x \in Instance : is_connected[x] => AgentOf(x) \in AgentId
    BY Asking DEF Stages, AgentOf, AgentId, Instance, TypeOK
  <2> QED BY <1>1, <1>2, <2>1, <2>2, <2>3 DEF Running, Create
<1>9. OneInstanceUnlessRaced'
  BY <1>1, <1>2 DEF OneInstanceUnlessRaced, Create, TypeOK
<1>10. CursorAtStart'
  BY DEF Create, CursorAtStart
<1> QED BY <1>3, <1>4, <1>5, <1>6, <1>7, <1>8, <1>9, <1>10

LEMMA StartedStep ==
  ASSUME IInv, NEW q \in Request, Started(q)
  PROVE  IInv'
<1> USE RuntimeAssumption DEF IInv
<1> DEFINE own == InstanceFor(q, asked[q])
<1>1. own \in Instance /\ AgentOf(own) = asked[q] /\ asked[q] \in AgentId /\ q \in Starting(asked[q])
  BY Asking DEF Started, Starting
<1>2. TypeOK'
  BY DEF Started, TypeOK
<1>3. Stages'
  <2>1. \A p \in Request : p # own \/ (p = q /\ asked[q] \notin Worker)
    BY <1>1 DEF InstanceFor
  <2>2. \A p \in Request : p # own => is_connected'[p] = is_connected[p]
    BY DEF Started, TypeOK, Instance
  <2> HIDE DEF own
  <2> QED BY <2>1, <2>2 DEF Started, TypeOK, Stages
<1>4. Entries' /\ CursorAtStart' /\ OneInstanceUnlessRaced'
  BY DEF Started, Entries, AgentOf, CursorAtStart, OneInstanceUnlessRaced
<1>5. SoleStart'
  BY DEF SoleStart, Started, Holds, TypeOK
<1>6. HandedFromMap'
  BY DEF HandedFromMap, Started, TypeOK
<1>7. Running'
  <2>1. \A x \in Instance : AgentOf(x)' = AgentOf(x) /\ Starting(AgentOf(x))' = Starting(AgentOf(x))
    BY DEF AgentOf, Starting, Started, TypeOK
  <2>2. asked[q] \notin raced => stopping = "no"
    BY DEF SoleStart, Started
  <2>3. \A x \in Instance : x # own => is_connected'[x] = is_connected[x]
    BY DEF Started, TypeOK
  <2> HIDE DEF own
  <2> QED BY <1>1, <2>1, <2>2, <2>3 DEF Running, Started
<1> QED BY <1>2, <1>3, <1>4, <1>5, <1>6, <1>7

LEMMA RegisterStep ==
  ASSUME IInv, NEW q \in Request, Register(q)
  PROVE  IInv'
<1> USE RuntimeAssumption DEF IInv
<1> DEFINE id  == asked[q]
           own == InstanceFor(q, id)
<1>1. own \in Instance /\ AgentOf(own) = id /\ id \in AgentId /\ own # None
  BY Asking DEF Register, Instance
<1>2. agents' = Set(id, own) /\ pc' = [pc EXCEPT ![q] = "returned"] /\ handed' = [handed EXCEPT ![q] = own]
      /\ UNCHANGED <<is_connected, asked, cursor, stopping, raced>> /\ pc[q] = "started"
  BY DEF Register
<1>3. id \notin raced =>
        stopping = "no" /\ cursor = 0 /\ ~ Holds(id) /\ \A p \in Request : p # q => asked[p] # id
  BY <1>2 DEF SoleStart, CursorAtStart
<1> HIDE DEF own
<1>4. /\ agents' \in Seq([id : AgentId, instance : Instance]) /\ Len(agents') >= Len(agents)
      /\ \A i, j \in DOMAIN agents' : agents'[i].id = agents'[j].id => i = j
      /\ \A i \in DOMAIN agents : agents[i].id # id => agents'[i] = agents[i]
      /\ \A i \in DOMAIN agents' : \/ agents'[i] = [id |-> id, instance |-> own]
                                   \/ i \in DOMAIN agents /\ agents[i].id # id /\ agents'[i] = agents[i]
      /\ \E i \in DOMAIN agents' : agents'[i] = [id |-> id, instance |-> own]
  <2>1. agents' = Set(id, own)
    BY <1>2
  <2> HIDE DEF id
  <2>2. /\ Set(id, own) \in Seq([id : AgentId, instance : Instance]) /\ Len(Set(id, own)) >= Len(agents)
        /\ \A i, j \in DOMAIN Set(id, own) : Set(id, own)[i].id = Set(id, own)[j].id => i = j
        /\ \A i \in DOMAIN agents : agents[i].id # id => Set(id, own)[i] = agents[i]
        /\ \A i \in DOMAIN Set(id, own) :
             \/ Set(id, own)[i] = [id |-> id, instance |-> own]
             \/ i \in DOMAIN agents /\ agents[i].id # id /\ Set(id, own)[i] = agents[i]
        /\ \E i \in DOMAIN Set(id, own) : Set(id, own)[i] = [id |-> id, instance |-> own]
    <3>1. TypeOK /\ id \in AgentId /\ own \in Instance
      BY <1>1
    <3> QED BY <3>1, SetEntries
  <2> QED BY <2>1, <2>2
<1>5. TypeOK'
  <2>1. cursor \in 0..Len(agents')
    <3> DEFINE Entry == [id : AgentId, instance : Instance]
    <3>1. agents' \in Seq(Entry)
      BY <1>4
    <3>2. Len(agents') \in Nat
      <4> HIDE DEF Entry
      <4> QED BY <3>1
    <3>3. cursor \in 0..Len(agents) /\ Len(agents) \in Nat /\ Len(agents') >= Len(agents)
      BY <1>4, EntryType DEF TypeOK
    <3> HIDE DEF Entry
    <3> QED BY <3>2, <3>3
  <2> QED BY <1>1, <1>2, <1>4, <2>1 DEF TypeOK
<1>6. DOMAIN agents \subseteq DOMAIN agents' /\ DOMAIN agents' = 1..Len(agents') /\ Len(agents') \in Nat
  <2>1. DOMAIN agents' = 1..Len(agents') /\ Len(agents') \in Nat
    BY <1>4
  <2> QED BY <2>1, <1>4, EntryType
<1>7. Stages'
  BY <1>1, <1>2 DEF TypeOK, Stages
<1>8. Entries'
  BY <1>1, <1>2, <1>4 DEF Entries, AgentOf
<1>9. SoleStart'
  <2> SUFFICES ASSUME NEW p \in Request, pc'[p] \in {"starting", "started"}, asked[p] \notin raced
               PROVE  /\ stopping = "no" /\ ~ Holds(asked[p])'
                      /\ \A r \in Request : r # p => asked[r] # asked[p]
    BY <1>2 DEF SoleStart, Holds
  <2>1. p # q /\ pc[p] = pc'[p] /\ asked[p] # id
    BY <1>2 DEF TypeOK, SoleStart
  <2> QED BY <2>1, <1>2, <1>4 DEF SoleStart, Holds
<1>10. HandedFromMap'
  <2> SUFFICES ASSUME stopping # "done", NEW p \in Request, pc'[p] = "returned", asked[p] \notin raced
               PROVE  \E i \in DOMAIN agents' : agents'[i] = [id |-> asked[p], instance |-> handed'[p]]
    BY <1>2 DEF HandedFromMap
  <2>1. CASE p = q
    BY <2>1, <1>2, <1>4 DEF TypeOK
  <2>2. CASE p # q
    <3>1. pc[p] = "returned" /\ handed'[p] = handed[p] /\ asked[p] # id
      BY <2>2, <1>2, <1>3 DEF TypeOK
    <3>2. PICK i \in DOMAIN agents : agents[i] = [id |-> asked[p], instance |-> handed[p]]
      BY <3>1 DEF HandedFromMap
    <3> QED BY <3>1, <3>2, <1>4, <1>6
  <2> QED BY <2>1, <2>2
<1>11. Running'
  <2> SUFFICES ASSUME NEW x \in Instance, is_connected[x], AgentOf(x) \notin raced
               PROVE  /\ stopping # "done"
                      /\ \/ Starting(AgentOf(x))' # {}
                         \/ \E i \in DOMAIN agents' : i > cursor /\ agents'[i].instance = x
    BY <1>2 DEF Running, AgentOf, Starting
  <2>1. CASE AgentOf(x) = id
    <3>1. x = own
      <4>1. CASE x \in Worker
        BY <4>1, <2>1 DEF own, AgentOf, InstanceFor
      <4>2. CASE x \notin Worker
        <5>1. x \in Request /\ asked[x] = id /\ id \notin raced /\ id \notin Worker
          BY <4>2, <2>1 DEF AgentOf, Instance, Stages
        <5>2. x = q
          BY <5>1, <1>3
        <5> QED BY <5>1, <5>2 DEF own, InstanceFor
      <4> QED BY <4>1, <4>2
    <3> QED BY <3>1, <2>1, <1>3, <1>4, <1>6
  <2>2. CASE AgentOf(x) # id
    <3>1. Starting(AgentOf(x)) \subseteq Starting(AgentOf(x))'
      <4>1. \A p \in Request : p # q => pc'[p] = pc[p] /\ asked'[p] = asked[p]
        BY <1>2 DEF TypeOK
      <4>2. AgentOf(x)' = AgentOf(x)
        BY <1>2 DEF AgentOf
      <4> QED BY <2>2, <4>1, <4>2 DEF Starting
    <3>2. CASE Starting(AgentOf(x)) # {}
      BY <3>1, <3>2 DEF Running
    <3>3. ASSUME NEW i \in DOMAIN agents, i > cursor, agents[i].instance = x PROVE agents'[i].instance = x
      BY <3>3, <2>2, <1>4 DEF Entries
    <3> QED BY <3>2, <3>3, <1>6 DEF Running
  <2> QED BY <2>1, <2>2
<1>12. OneInstanceUnlessRaced'
  BY <1>2, <1>3 DEF OneInstanceUnlessRaced, TypeOK
<1>13. CursorAtStart'
  BY <1>2 DEF CursorAtStart
<1> QED BY <1>5, <1>7, <1>8, <1>9, <1>10, <1>11, <1>12, <1>13

(* What starts when stop_all moves has raced: from then on SoleStart speaks *)
(* of nothing.                                                             *)
LEMMA StopStep ==
  ASSUME IInv, StopNext \/ StopEnd
  PROVE  IInv'
<1> USE RuntimeAssumption DEF IInv
<1>1. /\ stopping # "done" /\ stopping' # "no" /\ UNCHANGED <<pc, asked, handed>>
      /\ raced' = raced \cup {id \in AgentId : Starting(id) # {}}
  BY DEF StopNext, StopEnd
<1>2. TypeOK'
  <2>1. CASE StopNext
    <3>1. cursor' \in 0..Len(agents)
      <4>1. cursor \in 0..Len(agents) /\ Len(agents) \in Nat
        BY EntryType DEF TypeOK
      <4>2. cursor < Len(agents) /\ cursor' = cursor + 1
        BY <2>1 DEF StopNext
      <4> QED BY <4>1, <4>2
    <3>2. /\ agents' = agents /\ stopping' = "under way"
          /\ is_connected' = [is_connected EXCEPT ![agents[cursor + 1].instance] = FALSE]
      BY <2>1 DEF StopNext
    <3> QED BY <1>1, <3>1, <3>2 DEF TypeOK
  <2>2. CASE StopEnd
    <3>1. agents' = <<>> /\ cursor' = 0 /\ stopping' = "done" /\ is_connected' = is_connected
      BY <2>2 DEF StopEnd
    <3>2. agents' \in Seq([id : AgentId, instance : Instance]) /\ DOMAIN agents' = {} /\ cursor' \in 0..Len(agents')
      BY <3>1
    <3> QED BY <1>1, <3>1, <3>2 DEF TypeOK
  <2> QED BY <2>1, <2>2
<1>3. \A x \in Instance : is_connected'[x] => is_connected[x]
  BY DEF StopNext, StopEnd, TypeOK
<1>4. Stages'
  BY <1>1, <1>3 DEF Stages, Instance
<1>5. Entries'
  <2>1. CASE StopNext
    BY <2>1 DEF Entries, StopNext, AgentOf
  <2>2. CASE StopEnd
    BY <2>2 DEF Entries, StopEnd
  <2> QED BY <2>1, <2>2
<1>6. SoleStart'
  <2> SUFFICES ASSUME NEW p \in Request, pc[p] \in {"starting", "started"} PROVE asked[p] \in raced'
    BY <1>1 DEF SoleStart
  <2>1. asked[p] \in AgentId /\ p \in Starting(asked[p])
    BY Asking DEF Starting
  <2> QED BY <1>1, <2>1
<1>7. HandedFromMap'
  BY <1>1 DEF HandedFromMap, StopNext, StopEnd
<1>8. Running'
  <2> SUFFICES ASSUME NEW x \in Instance, is_connected'[x], AgentOf(x) \notin raced'
               PROVE  /\ stopping' # "done"
                      /\ \E i \in DOMAIN agents' : i > cursor' /\ agents'[i].instance = x
    BY <1>1 DEF Running, AgentOf
  <2>1. is_connected[x] /\ AgentOf(x) \in AgentId /\ Starting(AgentOf(x)) = {} /\ AgentOf(x) \notin raced
    BY <1>1, <1>3, Asking DEF Stages, AgentOf, AgentId, Instance, TypeOK
  <2>2. PICK i \in DOMAIN agents : i > cursor /\ agents[i].instance = x
    BY <2>1 DEF Running
  <2>3. CASE StopNext
    <3>0. is_connected' = [is_connected EXCEPT ![agents[cursor + 1].instance] = FALSE]
      BY <2>3 DEF StopNext
    <3>1. i # cursor + 1
      BY <2>2, <3>0 DEF TypeOK
    <3>2. i > cursor + 1
      <4>1. cursor \in 0..Len(agents) /\ Len(agents) \in Nat /\ i \in 1..Len(agents)
        BY <2>2, EntryType DEF TypeOK
      <4> QED BY <2>2, <3>1, <4>1
    <3> QED BY <2>2, <2>3, <3>2 DEF StopNext
  <2>4. CASE StopEnd
    BY <2>2, <2>4, EntryType DEF StopEnd
  <2> QED BY <2>3, <2>4
<1>9. OneInstanceUnlessRaced' /\ CursorAtStart'
  BY <1>1 DEF OneInstanceUnlessRaced, CursorAtStart
<1> QED BY <1>2, <1>4, <1>5, <1>6, <1>7, <1>8, <1>9

LEMMA StepIInv == IInv /\ [Next]_vars => IInv'
<1> SUFFICES ASSUME IInv, [Next]_vars PROVE IInv'
  OBVIOUS
<1>1. ASSUME UNCHANGED vars PROVE IInv'
  <2>1. UNCHANGED <<agents, is_connected, pc, asked, handed, cursor, stopping, raced>>
    BY <1>1 DEF vars
  <2>2. TypeOK' /\ Stages' /\ CursorAtStart' /\ OneInstanceUnlessRaced'
    BY <2>1 DEF IInv, TypeOK, Stages, CursorAtStart, OneInstanceUnlessRaced
  <2>3. Entries' /\ SoleStart' /\ HandedFromMap'
    BY <2>1 DEF IInv, Entries, SoleStart, HandedFromMap, AgentOf, Holds
  <2>4. Running'
    BY <2>1 DEF IInv, Running, AgentOf, Starting
  <2> QED BY <2>2, <2>3, <2>4 DEF IInv
<1>2. ASSUME NEW q \in Request, NEW id \in AgentId, Found(q, id) \/ Create(q, id) PROVE IInv'
  BY <1>2, FoundStep, CreateStep
<1>3. ASSUME NEW q \in Request, Started(q) \/ Register(q) PROVE IInv'
  BY <1>3, StartedStep, RegisterStep
<1>4. ASSUME StopNext \/ StopEnd PROVE IInv'
  BY <1>4, StopStep
<1> QED BY <1>1, <1>2, <1>3, <1>4 DEF Next

LEMMA Invariant == Spec => []IInv
<1> QED BY InitIInv, StepIInv, PTL DEF Spec

(* The Map, the instances and the requests are of the right types, and the *)
(* Map has one entry for an agent at most.                                 *)
THEOREM TypeCorrect == Spec => []TypeOK
<1>1. IInv => TypeOK
  BY DEF IInv
<1> QED BY <1>1, Invariant, PTL

(* get_agent hands out two instances of one agent only where starts of it  *)
(* overlapped.                                                             *)
THEOREM OneInstance == Spec => []OneInstanceUnlessRaced
<1>1. IInv => OneInstanceUnlessRaced
  BY DEF IInv
<1> QED BY <1>1, Invariant, PTL

(* After stop_all an agent runs only if a start of it overlapped another   *)
(* one, or stop_all.                                                       *)
THEOREM ShutdownStopsAll == Spec => []ShutdownStopsAllUnlessRaced
<1>1. IInv => ShutdownStopsAllUnlessRaced
  <2> SUFFICES ASSUME IInv, stopping = "done", NEW q \in Request, asked[q] # None,
                      is_connected[InstanceFor(q, asked[q])]
               PROVE  asked[q] \in raced
    BY DEF ShutdownStopsAllUnlessRaced
  <2>1. InstanceFor(q, asked[q]) \in Instance /\ AgentOf(InstanceFor(q, asked[q])) = asked[q]
    BY Asking DEF IInv, Stages
  <2> QED BY <2>1 DEF IInv, Running
<1> QED BY <1>1, Invariant, PTL
=============================================================================
