------------------------- MODULE ParserModuleProofs -------------------------
(***************************************************************************)
(* Proofs about ParserModule for every width of the token halves, every    *)
(* number of handles and every first capacity.  ModuleInv says who owns an *)
(* instance; what a token resolves to follows from it.                     *)
(***************************************************************************)
EXTENDS ParserModule, TLAPS

\* findSlotLocked() finds the slot its token names, when that slot is taken and
\* has the token's generation, and no slot otherwise.
LEMMA FindFacts ==
  ASSUME TypeOK, NEW t \in Tokens
  PROVE  /\ (/\ t.index \in 1..size /\ t.generation # 0
             /\ slots[t.index].instance # NoInstance
             /\ slots[t.index].generation = t.generation)
              => FindSlot(t) = {t.index} /\ Find(t) = slots[t.index].instance
         /\ Find(t) # NoInstance =>
              /\ t.index \in 1..size /\ t.generation # 0
              /\ slots[t.index].generation = t.generation
              /\ Find(t) = slots[t.index].instance
<1>1. FindSlot(t) \subseteq {t.index}
  BY DEF FindSlot
<1>2. CASE FindSlot(t) = {}
  BY <1>2 DEF Find, FindSlot
<1>3. CASE FindSlot(t) # {}
  <2>1. FindSlot(t) = {t.index}
    BY <1>1, <1>3
  <2>2. Find(t) = slots[t.index].instance
    BY <2>1 DEF Find
  <2> QED
    BY <2>1, <2>2 DEF FindSlot
<1> QED
  BY <1>2, <1>3

\* The token of a handle that owns an instance finds it.
LEMMA HeldFacts ==
  ASSUME ModuleInv, NEW h \in Handles, Holds(h)
  PROVE  /\ token[h].index \in SlotIds
         /\ FindSlot(token[h]) = {token[h].index}
         /\ Find(token[h]) = slots[token[h].index].instance
         /\ Find(token[h]) \in live /\ Find(token[h]) \in Ids
<1>1. token[h] \in Tokens /\ token[h].index \in SlotIds
  BY DEF ModuleInv, TypeOK, HandleType, HandlesOwn
<1>2. /\ token[h].index \in 1..size /\ token[h].generation # 0
      /\ slots[token[h].index].instance # NoInstance
      /\ slots[token[h].index].generation = token[h].generation
  BY <1>1 DEF ModuleInv, TypeOK, HandlesOwn, SlotsOwn, SlotIds
<1>3. slots[token[h].index].instance \in live /\ slots[token[h].index].instance \in Ids
  BY <1>1, <1>2 DEF ModuleInv, TypeOK, TableType, SlotsOwn, Ids
<1> QED
  BY <1>1, <1>2, <1>3, FindFacts DEF ModuleInv

\* What publishing an instance starts from: a usable slot, inside the table as it
\* is afterwards.
LEMMA PublishStep ==
  ASSUME ModuleInv, NEW h \in Handles, CreateReuses(h) \/ CreateExtends(h)
  PROVE  /\ pc[h] = "creating"
         /\ \E i \in SlotIds, m, c \in 0..(Width - 1) :
              size =< m /\ i =< m /\ m =< c /\ Usable(i) /\ Publish(h, i, m, c)
<1> USE ModuleAssumption DEF ModuleInv, TypeOK, TableType, SlotIds
<1>1. CASE CreateReuses(h)
  BY <1>1 DEF CreateReuses, FreeSlots
<1>2. CASE CreateExtends(h)
  <2>1. NextCapacity \in Nat /\ (size = capacity => size + 1 =< NextCapacity)
    BY DEF NextCapacity
  <2>2. size + 1 \in SlotIds => Usable(size + 1)
    BY DEF SlotsOwn, Usable
  <2> QED
    BY <1>2, <2>1, <2>2 DEF CreateExtends
<1> QED
  BY <1>1, <1>2

\* Publishing hands the one private reference of a creating call over to the
\* slot and its new token.
LEMMA PublishKeeps ==
  ASSUME ModuleInv, NEW h \in Handles, pc[h] = "creating",
         NEW i \in SlotIds, NEW m \in 0..(Width - 1), NEW c \in 0..(Width - 1),
         size =< m, i =< m, m =< c, Usable(i), Publish(h, i, m, c)
  PROVE  ModuleInv'
<1> DEFINE t == [index |-> i, generation |-> slots[i].generation]
<1> USE ModuleAssumption DEF ModuleInv, TypeOK
<1>1. /\ found[h] \in live /\ found[h] \in Ids /\ found[h] # NoInstance
      /\ \A j \in SlotIds : slots[j].instance # found[h]
  <2>1. found[h] \in live /\ \A j \in SlotIds : slots[j].instance # found[h]
    BY DEF CallsOwn, Private
  <2> QED
    <3>1. live \subseteq 1..born /\ born \in 0..MaxBorn
      BY DEF TableType
    <3>2. found[h] \in 1..born
      BY <2>1, <3>1
    <3>3. found[h] \in Ids /\ found[h] # NoInstance
      BY <3>1, <3>2 DEF Ids, NoInstance
    <3> QED
      BY <2>1, <3>3
<1>2. /\ slots[i].instance = NoInstance /\ slots[i].generation # 0
      /\ slots[i].generation \in Half /\ t \in Tokens
  BY DEF Usable, TableType, SlotIds, Half, Tokens
<1>3. /\ slots' = [slots EXCEPT ![i] = [instance |-> found[h], generation |-> t.generation]]
      /\ size' = m /\ capacity' = c
      /\ issued' = issued \cup {[token |-> t, instance |-> found[h]]}
      /\ token' = [token EXCEPT ![h] = t]
      /\ found' = [found EXCEPT ![h] = NoInstance]
      /\ pc' = [pc EXCEPT ![h] = "idle"]
      /\ UNCHANGED <<born, live>>
  BY DEF Publish
<1>4. slots' = [slots EXCEPT ![i] = [instance |-> found[h], generation |-> slots[i].generation]]
  BY <1>3
<1>5. TypeOK'
  <2>1. TableType'
    BY <1>1, <1>2, <1>3, <1>4 DEF TableType, SlotIds
  <2>2. InstanceType' /\ HandleType'
    BY <1>2, <1>3 DEF Publish, instance, InstanceType, HandleType, Routes, Calls
  <2> QED
    BY <2>1, <2>2
<1>6. TokensOK'
  <2> SUFFICES ASSUME NEW p \in issued'
               PROVE  LET s == slots'[p.token.index] IN
                      /\ p.token.index \in 1..size' /\ p.token.generation # 0
                      /\ s.generation # 0 => p.token.generation =< s.generation
                      /\ s.generation = p.token.generation => s.instance = p.instance
    BY DEF TokensOK
  <2>1. CASE p \in issued
    BY <2>1, <1>1, <1>2, <1>3, <1>4 DEF TokensOK, TableType, SlotIds, Ids, NoInstance, Tokens, Half
  <2>2. CASE p = [token |-> t, instance |-> found[h]]
    BY <2>2, <1>1, <1>2, <1>3, <1>4 DEF TableType, SlotIds, Half
  <2> QED
    BY <2>1, <2>2, <1>3
<1>7. SlotsOwn'
  <2>1. \A j \in SlotIds : slots'[j] = IF j = i THEN [instance |-> found[h], generation |-> slots[i].generation]
                                        ELSE slots[j]
    BY <1>4 DEF TableType
  <2>2. \A j \in SlotIds : slots'[j].instance # NoInstance =>
           slots'[j].instance \in live' /\ slots'[j].generation # 0 /\ j =< size'
    BY <2>1, <1>1, <1>2, <1>3 DEF SlotsOwn, TableType, SlotIds
  <2>3. \A j, k \in SlotIds : j # k /\ slots'[j].instance # NoInstance =>
           slots'[j].instance # slots'[k].instance
    BY <2>1, <1>1, <1>2 DEF SlotsOwn
  <2>4. \A j \in SlotIds : j > size' => slots'[j].generation # 0
    BY <2>1, <1>2, <1>3 DEF SlotsOwn, TableType, SlotIds
  <2> QED
    BY <2>2, <2>3, <2>4 DEF SlotsOwn
<1>8. HandlesOwn'
  <2>1. ASSUME NEW g \in Handles, Holds(g)', g # h
        PROVE  /\ Holds(g) /\ token'[g] = token[g] /\ found'[g] = found[g] /\ pc'[g] = pc[g]
               /\ token[g].index \in SlotIds /\ token[g].index # i
               /\ slots'[token[g].index] = slots[token[g].index]
    BY <2>1, <1>2, <1>3, <1>4 DEF Holds, HandlesOwn, HandleType, TableType
  <2>2. token'[h] = t /\ pc'[h] = "idle" /\ slots'[i].instance = found[h]
          /\ slots'[i].generation = slots[i].generation
    BY <1>3, <1>4 DEF HandleType, TableType
  <2> QED
    BY <2>1, <2>2, <1>1, <1>2 DEF HandlesOwn, Holds, Calls
<1>9. CallsOwn'
  BY <1>1, <1>2, <1>3, <1>4 DEF CallsOwn, Private, HandleType, TableType
<1> QED
  BY <1>5, <1>6, <1>7, <1>8, <1>9

\* Detaching takes the instance out of the handle's slot, and the handle's
\* token away.
LEMMA DetachEffect ==
  ASSUME ModuleInv, NEW h \in Handles, DestroyDetach(h)
  PROVE  \E i \in SlotIds, n \in Half :
           /\ i = token[h].index
           /\ slots[i].instance # NoInstance /\ slots[i].generation # 0
           /\ slots[i].instance \in live /\ slots[i].instance \in Ids
           /\ found' = [found EXCEPT ![h] = slots[i].instance]
           /\ n \in {0, slots[i].generation + 1}
           /\ slots' = [slots EXCEPT ![i] = [instance |-> NoInstance, generation |-> n]]
           /\ pc[h] = "idle" /\ pc' = [pc EXCEPT ![h] = "deleting"]
           /\ token' = [token EXCEPT ![h] = NullToken]
           /\ UNCHANGED <<size, capacity, born, live, issued>>
<1> DEFINE i == token[h].index
<1> USE ModuleAssumption DEF ModuleInv, TypeOK
<1>1. pc[h] = "idle" /\ Holds(h)
  BY DEF DestroyDetach, Holds
<1>2. /\ i \in SlotIds /\ FindSlot(token[h]) = {i} /\ Find(token[h]) = slots[i].instance
      /\ slots[i].instance \in live /\ slots[i].instance \in Ids
  BY <1>1, HeldFacts
<1>3. /\ slots[i].instance # NoInstance /\ slots[i].generation \in Half
      /\ slots[i].generation # 0
  BY <1>1, <1>2 DEF HandlesOwn, SlotsOwn, TableType
<1>4. /\ (slots[i].generation + 1) % Width \in {0, slots[i].generation + 1}
      /\ (slots[i].generation + 1) % Width \in Half
  BY <1>3 DEF Half
<1>5. slots' = [slots EXCEPT ![i] = [instance |-> NoInstance,
                                     generation |-> (slots[i].generation + 1) % Width]]
  BY <1>2 DEF DestroyDetach, TableType
<1> QED
  BY <1>1, <1>2, <1>3, <1>4, <1>5 DEF DestroyDetach


\* Every step keeps the types.
LEMMA TypeStep ==
  ASSUME ModuleInv, [Next]_vars
  PROVE  TypeOK'
<1> USE ModuleAssumption DEF ModuleInv
<1>1. CASE UNCHANGED vars
  BY <1>1 DEF TypeOK, TableType, InstanceType, HandleType, vars
<1>2. CASE Finished
  BY <1>2 DEF Finished, TypeOK, TableType, InstanceType, HandleType, vars
<1>3. ASSUME NEW h \in Handles, Step(h)
      PROVE  TypeOK'
  <2>1. CASE CreateNew(h)
    <3>1. TableType'
      BY <2>1 DEF CreateNew, TypeOK, TableType, InstanceType, HandleType, table, instance, handle, Ids
    <3>2. InstanceType'
      BY <2>1 DEF CreateNew, TypeOK, TableType, InstanceType, HandleType, table, instance, handle, Ids, Routes
    <3>3. HandleType'
      BY <2>1 DEF CreateNew, TypeOK, TableType, InstanceType, HandleType, table, instance, handle, Ids, Half, SlotIds, Tokens, NullToken, Calls, Routes, Returns
    <3> QED
      BY <3>1, <3>2, <3>3 DEF TypeOK
  <2>2. CASE CreateReuses(h)
    BY <2>2, PublishStep, PublishKeeps
  <2>3. CASE CreateExtends(h)
    BY <2>3, PublishStep, PublishKeeps
  <2>4. CASE CreateFails(h)
    <3>1. TableType'
      BY <2>4 DEF CreateFails, TypeOK, TableType, InstanceType, HandleType, table, instance, handle, Ids
    <3>2. InstanceType'
      BY <2>4 DEF CreateFails, TypeOK, TableType, InstanceType, HandleType, table, instance, handle, Ids, Routes
    <3>3. HandleType'
      BY <2>4 DEF CreateFails, TypeOK, TableType, InstanceType, HandleType, table, instance, handle, Ids, Half, SlotIds, Tokens, NullToken, Calls, Routes, Returns
    <3> QED
      BY <3>1, <3>2, <3>3 DEF TypeOK
  <2>5. CASE \E r \in Routes : Bind(h, r)
    <3>1. TableType'
      BY <2>5 DEF Bind, TypeOK, TableType, InstanceType, HandleType, table, instance, handle, Ids
    <3>2. InstanceType'
      BY <2>5 DEF Bind, TypeOK, TableType, InstanceType, HandleType, table, instance, handle, Ids, Routes
    <3>3. HandleType'
      BY <2>5, HeldFacts DEF Bind, TypeOK, TableType, InstanceType, HandleType, table, instance, handle, Ids, Half, SlotIds, Tokens, NullToken, Calls, Routes, Returns, Holds
    <3> QED
      BY <3>1, <3>2, <3>3 DEF TypeOK
  <2>6. CASE \E ok \in BOOLEAN : BindAnswers(h, ok)
    <3>1. TableType'
      BY <2>6 DEF BindAnswers, TypeOK, TableType, InstanceType, HandleType, table, instance, handle, Ids
    <3>2. InstanceType'
      BY <2>6 DEF BindAnswers, TypeOK, TableType, InstanceType, HandleType, table, instance, handle, Ids, Routes
    <3>3. HandleType'
      BY <2>6 DEF BindAnswers, TypeOK, TableType, InstanceType, HandleType, table, instance, handle, Ids, Half, SlotIds, Tokens, NullToken, Calls, Routes, Returns
    <3> QED
      BY <3>1, <3>2, <3>3 DEF TypeOK
  <2>7. CASE BindRejected(h)
    <3>1. TableType'
      BY <2>7 DEF BindRejected, TypeOK, TableType, InstanceType, HandleType, table, instance, handle, Ids
    <3>2. InstanceType'
      BY <2>7 DEF BindRejected, TypeOK, TableType, InstanceType, HandleType, table, instance, handle, Ids, Routes
    <3>3. HandleType'
      BY <2>7 DEF BindRejected, TypeOK, TableType, InstanceType, HandleType, table, instance, handle, Ids, Half, SlotIds, Tokens, NullToken, Calls, Routes, Returns
    <3> QED
      BY <3>1, <3>2, <3>3 DEF TypeOK
  <2>8. CASE Parse(h)
    <3>1. TableType'
      BY <2>8 DEF Parse, TypeOK, TableType, InstanceType, HandleType, table, instance, handle, Ids
    <3>2. InstanceType'
      BY <2>8 DEF Parse, TypeOK, TableType, InstanceType, HandleType, table, instance, handle, Ids, Routes
    <3>3. HandleType'
      BY <2>8, HeldFacts DEF Parse, TypeOK, TableType, InstanceType, HandleType, table, instance, handle, Ids, Half, SlotIds, Tokens, NullToken, Calls, Routes, Returns, Holds
    <3> QED
      BY <3>1, <3>2, <3>3 DEF TypeOK
  <2>9. CASE ParseProduces(h)
    <3>1. TableType'
      BY <2>9 DEF ParseProduces, TypeOK, TableType, InstanceType, HandleType, table, instance, handle, Ids
    <3>2. InstanceType'
      BY <2>9 DEF ParseProduces, TypeOK, TableType, InstanceType, HandleType, table, instance, handle, Ids, Routes
    <3>3. HandleType'
      BY <2>9 DEF ParseProduces, TypeOK, TableType, InstanceType, HandleType, table, instance, handle, Ids, Half, SlotIds, Tokens, NullToken, Calls, Routes, Returns
    <3> QED
      BY <3>1, <3>2, <3>3 DEF TypeOK
  <2>10. CASE ParseFails(h)
    <3>1. TableType'
      BY <2>10 DEF ParseFails, TypeOK, TableType, InstanceType, HandleType, table, instance, handle, Ids
    <3>2. InstanceType'
      BY <2>10 DEF ParseFails, TypeOK, TableType, InstanceType, HandleType, table, instance, handle, Ids, Routes
    <3>3. HandleType'
      BY <2>10 DEF ParseFails, TypeOK, TableType, InstanceType, HandleType, table, instance, handle, Ids, Half, SlotIds, Tokens, NullToken, Calls, Routes, Returns
    <3> QED
      BY <3>1, <3>2, <3>3 DEF TypeOK
  <2>11. CASE ParseCopied(h)
    <3>1. TableType'
      BY <2>11 DEF ParseCopied, TypeOK, TableType, InstanceType, HandleType, table, instance, handle, Ids
    <3>2. InstanceType'
      BY <2>11 DEF ParseCopied, TypeOK, TableType, InstanceType, HandleType, table, instance, handle, Ids, Routes
    <3>3. HandleType'
      BY <2>11 DEF ParseCopied, TypeOK, TableType, InstanceType, HandleType, table, instance, handle, Ids, Half, SlotIds, Tokens, NullToken, Calls, Routes, Returns
    <3> QED
      BY <3>1, <3>2, <3>3 DEF TypeOK
  <2>12. CASE DestroyDetach(h)
    <3>0. PICK i \in SlotIds, n \in Half :
             /\ i = token[h].index
             /\ slots[i].instance # NoInstance /\ slots[i].generation # 0
             /\ slots[i].instance \in live /\ slots[i].instance \in Ids
             /\ found' = [found EXCEPT ![h] = slots[i].instance]
             /\ n \in {0, slots[i].generation + 1}
             /\ slots' = [slots EXCEPT ![i] = [instance |-> NoInstance, generation |-> n]]
             /\ pc[h] = "idle" /\ pc' = [pc EXCEPT ![h] = "deleting"]
             /\ token' = [token EXCEPT ![h] = NullToken]
             /\ UNCHANGED <<size, capacity, born, live, issued>>
      BY <2>12, DetachEffect
    <3>1. TableType'
      BY <3>0 DEF TypeOK, TableType, SlotIds
    <3>2. InstanceType'
      BY <2>12 DEF DestroyDetach, TypeOK, TableType, InstanceType, HandleType, table, instance, handle
    <3>3. HandleType'
      BY <2>12, <3>0 DEF DestroyDetach, TypeOK, TableType, InstanceType, HandleType, Half, Tokens, NullToken
    <3> QED
      BY <3>1, <3>2, <3>3 DEF TypeOK
  <2>13. CASE DestroyDelete(h)
    <3>1. TableType'
      BY <2>13 DEF DestroyDelete, TypeOK, TableType, InstanceType, HandleType, table, instance, handle, Ids
    <3>2. InstanceType'
      BY <2>13 DEF DestroyDelete, TypeOK, TableType, InstanceType, HandleType, table, instance, handle, Ids, Routes
    <3>3. HandleType'
      BY <2>13 DEF DestroyDelete, TypeOK, TableType, InstanceType, HandleType, table, instance, handle, Ids, Half, SlotIds, Tokens, NullToken, Calls, Routes, Returns
    <3> QED
      BY <3>1, <3>2, <3>3 DEF TypeOK
  <2>14. CASE \E g \in Handles : Move(h, g)
    <3>0. PICK g \in Handles : Move(h, g)
      BY <2>14
    <3>1. TableType' /\ InstanceType'
      BY <3>0 DEF Move, TypeOK, TableType, InstanceType, HandleType, table, instance, handle
    <3>2. HandleType'
      <4>1. NullToken \in Tokens
        BY DEF NullToken, Tokens, Half
      <4> QED
        BY <3>0, <4>1 DEF Move, TypeOK, HandleType
    <3> QED
      BY <3>1, <3>2 DEF TypeOK
  <2> QED
    BY <1>3, <2>1, <2>2, <2>3, <2>4, <2>5, <2>6, <2>7, <2>8, <2>9, <2>10, <2>11, <2>12, <2>13, <2>14 DEF Step
<1> QED
  BY <1>1, <1>2, <1>3 DEF Next

\* A slot's generation only moves away from the tokens issued for it.
LEMMA TokensStep ==
  ASSUME ModuleInv, [Next]_vars
  PROVE  TokensOK'
<1> USE ModuleAssumption DEF ModuleInv
<1>1. CASE UNCHANGED vars
  BY <1>1 DEF TokensOK, vars
<1>2. CASE Finished
  BY <1>2 DEF Finished, TokensOK, vars
<1>3. ASSUME NEW h \in Handles, Step(h)
      PROVE  TokensOK'
  <2>1. CASE CreateNew(h)
    BY <2>1 DEF CreateNew, TokensOK, TypeOK, TableType, InstanceType, HandleType, table, instance, handle, SlotIds, Returns
  <2>2. CASE CreateReuses(h)
    BY <2>2, PublishStep, PublishKeeps
  <2>3. CASE CreateExtends(h)
    BY <2>3, PublishStep, PublishKeeps
  <2>4. CASE CreateFails(h)
    BY <2>4 DEF CreateFails, TokensOK, TypeOK, TableType, InstanceType, HandleType, table, instance, handle, SlotIds, Returns
  <2>5. CASE \E r \in Routes : Bind(h, r)
    BY <2>5 DEF Bind, TokensOK, TypeOK, TableType, InstanceType, HandleType, table, instance, handle, SlotIds, Returns
  <2>6. CASE \E ok \in BOOLEAN : BindAnswers(h, ok)
    BY <2>6 DEF BindAnswers, TokensOK, TypeOK, TableType, InstanceType, HandleType, table, instance, handle, SlotIds, Returns
  <2>7. CASE BindRejected(h)
    BY <2>7 DEF BindRejected, TokensOK, TypeOK, TableType, InstanceType, HandleType, table, instance, handle, SlotIds, Returns
  <2>8. CASE Parse(h)
    BY <2>8 DEF Parse, TokensOK, TypeOK, TableType, InstanceType, HandleType, table, instance, handle, SlotIds, Returns
  <2>9. CASE ParseProduces(h)
    BY <2>9 DEF ParseProduces, TokensOK, TypeOK, TableType, InstanceType, HandleType, table, instance, handle, SlotIds, Returns
  <2>10. CASE ParseFails(h)
    BY <2>10 DEF ParseFails, TokensOK, TypeOK, TableType, InstanceType, HandleType, table, instance, handle, SlotIds, Returns
  <2>11. CASE ParseCopied(h)
    BY <2>11 DEF ParseCopied, TokensOK, TypeOK, TableType, InstanceType, HandleType, table, instance, handle, SlotIds, Returns
  <2>12. CASE DestroyDetach(h)
    <3>0. PICK i \in SlotIds, n \in Half :
             /\ i = token[h].index
             /\ slots[i].instance # NoInstance /\ slots[i].generation # 0
             /\ slots[i].instance \in live /\ slots[i].instance \in Ids
             /\ found' = [found EXCEPT ![h] = slots[i].instance]
             /\ n \in {0, slots[i].generation + 1}
             /\ slots' = [slots EXCEPT ![i] = [instance |-> NoInstance, generation |-> n]]
             /\ pc[h] = "idle" /\ pc' = [pc EXCEPT ![h] = "deleting"]
             /\ token' = [token EXCEPT ![h] = NullToken]
             /\ UNCHANGED <<size, capacity, born, live, issued>>
      BY <2>12, DetachEffect
    <3> QED
      BY <3>0 DEF TokensOK, TypeOK, TableType, Half, Tokens
  <2>13. CASE DestroyDelete(h)
    BY <2>13 DEF DestroyDelete, TokensOK, TypeOK, TableType, InstanceType, HandleType, table, instance, handle, SlotIds, Returns
  <2>14. CASE \E g \in Handles : Move(h, g)
    BY <2>14 DEF Move, TokensOK, TypeOK, TableType, InstanceType, HandleType, table, instance, handle, SlotIds, Returns
  <2> QED
    BY <1>3, <2>1, <2>2, <2>3, <2>4, <2>5, <2>6, <2>7, <2>8, <2>9, <2>10, <2>11, <2>12, <2>13, <2>14 DEF Step
<1> QED
  BY <1>1, <1>2, <1>3 DEF Next

\* An instance is in at most one slot.
LEMMA SlotsStep ==
  ASSUME ModuleInv, [Next]_vars
  PROVE  SlotsOwn'
<1> USE ModuleAssumption DEF ModuleInv
<1>1. CASE UNCHANGED vars
  BY <1>1 DEF SlotsOwn, vars
<1>2. CASE Finished
  BY <1>2 DEF Finished, SlotsOwn, vars
<1>3. ASSUME NEW h \in Handles, Step(h)
      PROVE  SlotsOwn'
  <2>1. CASE CreateNew(h)
    BY <2>1 DEF CreateNew, SlotsOwn, table, TypeOK, TableType
  <2>2. CASE CreateReuses(h)
    BY <2>2, PublishStep, PublishKeeps
  <2>3. CASE CreateExtends(h)
    BY <2>3, PublishStep, PublishKeeps
  <2>4. CASE CreateFails(h)
    BY <2>4 DEF CreateFails, SlotsOwn, CallsOwn, Private, table, TypeOK, HandleType
  <2>5. CASE \E r \in Routes : Bind(h, r)
    BY <2>5 DEF Bind, SlotsOwn, TypeOK, TableType, InstanceType, HandleType, table, instance, handle, SlotIds, Returns
  <2>6. CASE \E ok \in BOOLEAN : BindAnswers(h, ok)
    BY <2>6 DEF BindAnswers, SlotsOwn, TypeOK, TableType, InstanceType, HandleType, table, instance, handle, SlotIds, Returns
  <2>7. CASE BindRejected(h)
    BY <2>7 DEF BindRejected, SlotsOwn, TypeOK, TableType, InstanceType, HandleType, table, instance, handle, SlotIds, Returns
  <2>8. CASE Parse(h)
    BY <2>8 DEF Parse, SlotsOwn, TypeOK, TableType, InstanceType, HandleType, table, instance, handle, SlotIds, Returns
  <2>9. CASE ParseProduces(h)
    BY <2>9 DEF ParseProduces, SlotsOwn, TypeOK, TableType, InstanceType, HandleType, table, instance, handle, SlotIds, Returns
  <2>10. CASE ParseFails(h)
    BY <2>10 DEF ParseFails, SlotsOwn, TypeOK, TableType, InstanceType, HandleType, table, instance, handle, SlotIds, Returns
  <2>11. CASE ParseCopied(h)
    BY <2>11 DEF ParseCopied, SlotsOwn, TypeOK, TableType, InstanceType, HandleType, table, instance, handle, SlotIds, Returns
  <2>12. CASE DestroyDetach(h)
    <3>0. PICK i \in SlotIds, n \in Half :
             /\ i = token[h].index
             /\ slots[i].instance # NoInstance /\ slots[i].generation # 0
             /\ slots[i].instance \in live /\ slots[i].instance \in Ids
             /\ found' = [found EXCEPT ![h] = slots[i].instance]
             /\ n \in {0, slots[i].generation + 1}
             /\ slots' = [slots EXCEPT ![i] = [instance |-> NoInstance, generation |-> n]]
             /\ pc[h] = "idle" /\ pc' = [pc EXCEPT ![h] = "deleting"]
             /\ token' = [token EXCEPT ![h] = NullToken]
             /\ UNCHANGED <<size, capacity, born, live, issued>>
      BY <2>12, DetachEffect
    <3> QED
      BY <3>0 DEF SlotsOwn, TypeOK, TableType, SlotIds
  <2>13. CASE DestroyDelete(h)
    BY <2>13 DEF DestroyDelete, SlotsOwn, CallsOwn, Private, table, TypeOK, HandleType
  <2>14. CASE \E g \in Handles : Move(h, g)
    BY <2>14 DEF Move, SlotsOwn, TypeOK, TableType, InstanceType, HandleType, table, instance, handle, SlotIds, Returns
  <2> QED
    BY <1>3, <2>1, <2>2, <2>3, <2>4, <2>5, <2>6, <2>7, <2>8, <2>9, <2>10, <2>11, <2>12, <2>13, <2>14 DEF Step
<1> QED
  BY <1>1, <1>2, <1>3 DEF Next

\* A slot belongs to at most one handle.
LEMMA HandlesStep ==
  ASSUME ModuleInv, [Next]_vars
  PROVE  HandlesOwn'
<1> USE ModuleAssumption DEF ModuleInv
<1>1. CASE UNCHANGED vars
  BY <1>1 DEF HandlesOwn, Holds, vars
<1>2. CASE Finished
  BY <1>2 DEF Finished, HandlesOwn, Holds, vars
<1>3. ASSUME NEW h \in Handles, Step(h)
      PROVE  HandlesOwn'
  <2>1. CASE CreateNew(h)
    BY <2>1 DEF CreateNew, HandlesOwn, Holds, Calls, TypeOK, TableType, InstanceType, HandleType, table, instance, handle, SlotIds, Returns
  <2>2. CASE CreateReuses(h)
    BY <2>2, PublishStep, PublishKeeps
  <2>3. CASE CreateExtends(h)
    BY <2>3, PublishStep, PublishKeeps
  <2>4. CASE CreateFails(h)
    BY <2>4 DEF CreateFails, HandlesOwn, Holds, Calls, TypeOK, TableType, InstanceType, HandleType, table, instance, handle, SlotIds, Returns
  <2>5. CASE \E r \in Routes : Bind(h, r)
    BY <2>5, HeldFacts DEF Bind, HandlesOwn, Holds, Calls, table, handle, TypeOK, HandleType
  <2>6. CASE \E ok \in BOOLEAN : BindAnswers(h, ok)
    BY <2>6 DEF BindAnswers, HandlesOwn, Holds, Calls, TypeOK, TableType, InstanceType, HandleType, table, instance, handle, SlotIds, Returns
  <2>7. CASE BindRejected(h)
    BY <2>7 DEF BindRejected, HandlesOwn, Holds, Calls, TypeOK, TableType, InstanceType, HandleType, table, instance, handle, SlotIds, Returns
  <2>8. CASE Parse(h)
    BY <2>8, HeldFacts DEF Parse, HandlesOwn, Holds, Calls, table, handle, TypeOK, HandleType
  <2>9. CASE ParseProduces(h)
    BY <2>9 DEF ParseProduces, HandlesOwn, Holds, Calls, TypeOK, TableType, InstanceType, HandleType, table, instance, handle, SlotIds, Returns
  <2>10. CASE ParseFails(h)
    BY <2>10 DEF ParseFails, HandlesOwn, Holds, Calls, TypeOK, TableType, InstanceType, HandleType, table, instance, handle, SlotIds, Returns
  <2>11. CASE ParseCopied(h)
    BY <2>11 DEF ParseCopied, HandlesOwn, Holds, Calls, TypeOK, TableType, InstanceType, HandleType, table, instance, handle, SlotIds, Returns
  <2>12. CASE DestroyDetach(h)
    <3>0. PICK i \in SlotIds, n \in Half :
             /\ i = token[h].index
             /\ slots[i].instance # NoInstance /\ slots[i].generation # 0
             /\ slots[i].instance \in live /\ slots[i].instance \in Ids
             /\ found' = [found EXCEPT ![h] = slots[i].instance]
             /\ n \in {0, slots[i].generation + 1}
             /\ slots' = [slots EXCEPT ![i] = [instance |-> NoInstance, generation |-> n]]
             /\ pc[h] = "idle" /\ pc' = [pc EXCEPT ![h] = "deleting"]
             /\ token' = [token EXCEPT ![h] = NullToken]
             /\ UNCHANGED <<size, capacity, born, live, issued>>
      BY <2>12, DetachEffect
    <3> QED
      BY <3>0 DEF HandlesOwn, Holds, Calls, TypeOK, HandleType, TableType
  <2>13. CASE DestroyDelete(h)
    BY <2>13 DEF DestroyDelete, HandlesOwn, Holds, Calls, TypeOK, TableType, InstanceType, HandleType, table, instance, handle, SlotIds, Returns
  <2>14. CASE \E g \in Handles : Move(h, g)
    BY <2>14 DEF Move, HandlesOwn, Holds, Calls, table, TypeOK, HandleType
  <2> QED
    BY <1>3, <2>1, <2>2, <2>3, <2>4, <2>5, <2>6, <2>7, <2>8, <2>9, <2>10, <2>11, <2>12, <2>13, <2>14 DEF Step
<1> QED
  BY <1>1, <1>2, <1>3 DEF Next

\* An instance being created or deleted belongs to one call.
LEMMA CallsStep ==
  ASSUME ModuleInv, [Next]_vars
  PROVE  CallsOwn'
<1> USE ModuleAssumption DEF ModuleInv
<1>1. CASE UNCHANGED vars
  BY <1>1 DEF CallsOwn, Private, vars
<1>2. CASE Finished
  BY <1>2 DEF Finished, CallsOwn, Private, vars
<1>3. ASSUME NEW h \in Handles, Step(h)
      PROVE  CallsOwn'
  <2>1. CASE CreateNew(h)
    <3>1. born + 1 \notin live /\ \A i \in SlotIds : slots[i].instance # born + 1
      BY DEF SlotsOwn, TypeOK, TableType, NoInstance
    <3> QED
      BY <2>1, <3>1 DEF CreateNew, CallsOwn, Private, table, TypeOK, HandleType
  <2>2. CASE CreateReuses(h)
    BY <2>2, PublishStep, PublishKeeps
  <2>3. CASE CreateExtends(h)
    BY <2>3, PublishStep, PublishKeeps
  <2>4. CASE CreateFails(h)
    BY <2>4 DEF CreateFails, CallsOwn, Private, Calls, TypeOK, TableType, InstanceType, HandleType, table, instance, handle, SlotIds, Returns
  <2>5. CASE \E r \in Routes : Bind(h, r)
    BY <2>5 DEF Bind, CallsOwn, Private, Calls, TypeOK, TableType, InstanceType, HandleType, table, instance, handle, SlotIds, Returns
  <2>6. CASE \E ok \in BOOLEAN : BindAnswers(h, ok)
    BY <2>6 DEF BindAnswers, CallsOwn, Private, Calls, TypeOK, TableType, InstanceType, HandleType, table, instance, handle, SlotIds, Returns
  <2>7. CASE BindRejected(h)
    BY <2>7 DEF BindRejected, CallsOwn, Private, Calls, TypeOK, TableType, InstanceType, HandleType, table, instance, handle, SlotIds, Returns
  <2>8. CASE Parse(h)
    BY <2>8 DEF Parse, CallsOwn, Private, Calls, TypeOK, TableType, InstanceType, HandleType, table, instance, handle, SlotIds, Returns
  <2>9. CASE ParseProduces(h)
    BY <2>9 DEF ParseProduces, CallsOwn, Private, Calls, TypeOK, TableType, InstanceType, HandleType, table, instance, handle, SlotIds, Returns
  <2>10. CASE ParseFails(h)
    BY <2>10 DEF ParseFails, CallsOwn, Private, Calls, TypeOK, TableType, InstanceType, HandleType, table, instance, handle, SlotIds, Returns
  <2>11. CASE ParseCopied(h)
    BY <2>11 DEF ParseCopied, CallsOwn, Private, Calls, TypeOK, TableType, InstanceType, HandleType, table, instance, handle, SlotIds, Returns
  <2>12. CASE DestroyDetach(h)
    <3>0. PICK i \in SlotIds, n \in Half :
             /\ i = token[h].index
             /\ slots[i].instance # NoInstance /\ slots[i].generation # 0
             /\ slots[i].instance \in live /\ slots[i].instance \in Ids
             /\ found' = [found EXCEPT ![h] = slots[i].instance]
             /\ n \in {0, slots[i].generation + 1}
             /\ slots' = [slots EXCEPT ![i] = [instance |-> NoInstance, generation |-> n]]
             /\ pc[h] = "idle" /\ pc' = [pc EXCEPT ![h] = "deleting"]
             /\ token' = [token EXCEPT ![h] = NullToken]
             /\ UNCHANGED <<size, capacity, born, live, issued>>
      BY <2>12, DetachEffect
    <3> QED
      BY <3>0 DEF CallsOwn, SlotsOwn, Private, TypeOK, HandleType, TableType, NoInstance
  <2>13. CASE DestroyDelete(h)
    BY <2>13 DEF DestroyDelete, CallsOwn, Private, Calls, TypeOK, TableType, InstanceType, HandleType, table, instance, handle, SlotIds, Returns
  <2>14. CASE \E g \in Handles : Move(h, g)
    BY <2>14 DEF Move, CallsOwn, Private, Calls, TypeOK, TableType, InstanceType, HandleType, table, instance, handle, SlotIds, Returns
  <2> QED
    BY <1>3, <2>1, <2>2, <2>3, <2>4, <2>5, <2>6, <2>7, <2>8, <2>9, <2>10, <2>11, <2>12, <2>13, <2>14 DEF Step
<1> QED
  BY <1>1, <1>2, <1>3 DEF Next

\* No token exists at the start, and no instance.
LEMMA ModuleInvInit == Init => ModuleInv
<1> SUFFICES ASSUME Init PROVE ModuleInv
  OBVIOUS
<1> USE ModuleAssumption
<1>1. TypeOK
  BY DEF Init, TypeOK, TableType, InstanceType, HandleType, Half, SlotIds, Tokens, NullToken, Ids, Routes
<1>2. TokensOK /\ SlotsOwn
  BY DEF Init, TokensOK, SlotsOwn
<1>3. HandlesOwn /\ CallsOwn
  BY DEF Init, HandlesOwn, CallsOwn, Holds, Private, Calls
<1> QED
  BY <1>1, <1>2, <1>3 DEF ModuleInv

\* Every instance of a module has one owner at all times.
THEOREM ModuleInvariance == Spec => []ModuleInv
<1>1. ModuleInv /\ [Next]_vars => ModuleInv'
  BY TypeStep, TokensStep, SlotsStep, HandlesStep, CallsStep DEF ModuleInv
<1> QED
  BY ModuleInvInit, <1>1, PTL DEF Spec

\* A stale token never resolves to a later instance, whatever the width at which
\* generations wrap (ModuleExports::destroy() and create()).
THEOREM TokensStayStale == Spec => []StaleNeverResolves
<1>1. ModuleInv => StaleNeverResolves
  <2> SUFFICES ASSUME ModuleInv, NEW p \in issued
               PROVE  Find(p.token) \in {NoInstance, p.instance}
    BY DEF StaleNeverResolves
  <2>1. p.token \in Tokens /\ TypeOK
    BY DEF ModuleInv, TypeOK, TableType
  <2> QED
    BY <2>1, FindFacts DEF ModuleInv, TokensOK
<1> QED
  BY ModuleInvariance, <1>1, PTL

\* A handle's token resolves and no call works on a deleted instance
\* (ModuleExports::find() under the locking its comment describes).
THEOREM HeldInstancesLive == Spec => [](HeldTokenResolves /\ NoUseAfterDelete)
<1>1. ModuleInv => HeldTokenResolves
  BY HeldFacts DEF HeldTokenResolves, Holds
<1>2. ModuleInv => NoUseAfterDelete
  <2> SUFFICES ASSUME ModuleInv, NEW h \in Handles, pc[h] \in Calls
               PROVE  found[h] \in live
    BY DEF NoUseAfterDelete
  <2>1. Find(token[h]) \in live /\ Find(token[h]) = slots[token[h].index].instance
    BY HeldFacts DEF Holds
  <2> QED
    BY <2>1 DEF ModuleInv, HandlesOwn
<1> QED
  BY ModuleInvariance, <1>1, <1>2, PTL

-----------------------------------------------------------------------------
(* Host and module agree.                                                  *)

\* Every instance alive is in a slot or belongs to a call.
AliveOwned ==
  \A x \in live : \/ \E i \in SlotIds : slots[i].instance = x
                  \/ \E h \in Handles : Private(h) /\ found[h] = x

\* A handle that believes it is bound is right, during its calls too.
RoutesAgree ==
  \A h \in Handles : Holds(h) /\ host_bound[h] =>
    LET x == slots[token[h].index].instance
    IN  bound[x] /\ route[x] = host_route[h]

\* Calls that leave the table, the instances alive and the owners to themselves.
QuietCall(h) ==
  \/ \E r \in Routes : Bind(h, r)
  \/ \E ok \in BOOLEAN : BindAnswers(h, ok)
  \/ BindRejected(h) \/ Parse(h) \/ ParseProduces(h) \/ ParseFails(h) \/ ParseCopied(h)

LEMMA QuietFacts ==
  ASSUME ModuleInv, NEW h \in Handles, QuietCall(h)
  PROVE  /\ slots' = slots /\ live' = live /\ token' = token
         /\ Holds(h) /\ \A g \in Handles : Holds(g)' = Holds(g) /\ Private(g)' = Private(g)
         /\ \A g \in Handles : Private(g) => found'[g] = found[g]
  BY DEF QuietCall, Bind, BindAnswers, BindRejected, Parse, ParseProduces, ParseFails, ParseCopied,
         Returns, Holds, Private, Calls, table, handle, ModuleInv, TypeOK, HandleType

LEMMA AliveStep ==
  ASSUME ModuleInv, AliveOwned, [Next]_vars
  PROVE  AliveOwned'
<1> USE ModuleAssumption DEF ModuleInv
<1>1. CASE UNCHANGED vars
  BY <1>1 DEF AliveOwned, Private, vars
<1>2. CASE Finished
  BY <1>2 DEF Finished, AliveOwned, Private, vars
<1>3. ASSUME NEW h \in Handles, Step(h)
      PROVE  AliveOwned'
  <2>1. CASE CreateNew(h)
    BY <2>1 DEF CreateNew, AliveOwned, Private, table, TypeOK, HandleType
  <2>2. CASE CreateReuses(h) \/ CreateExtends(h)
    <3>1. PICK i \in SlotIds, m \in 0..(Width - 1), c \in 0..(Width - 1) : Usable(i) /\ Publish(h, i, m, c)
      BY <2>2, PublishStep
    <3>2. /\ slots' = [slots EXCEPT ![i] = [instance |-> found[h], generation |-> slots[i].generation]]
          /\ live' = live /\ found' = [found EXCEPT ![h] = NoInstance] /\ pc' = [pc EXCEPT ![h] = "idle"]
          /\ slots[i].instance = NoInstance
      BY <3>1 DEF Publish, Usable
    <3>3. NoInstance \notin live
      BY DEF NoInstance, TypeOK, TableType
    <3> SUFFICES ASSUME NEW x \in live
                 PROVE  \/ \E j \in SlotIds : slots'[j].instance = x
                        \/ \E g \in Handles : Private(g)' /\ found'[g] = x
      BY <3>2 DEF AliveOwned
    <3>4. CASE x = found[h]
      BY <3>2, <3>4 DEF TypeOK, TableType
    <3>5. ASSUME NEW j \in SlotIds, slots[j].instance = x PROVE slots'[j].instance = x
      BY <3>2, <3>3, <3>5 DEF TypeOK, TableType
    <3>6. ASSUME x # found[h], NEW g \in Handles, Private(g), found[g] = x
          PROVE  Private(g)' /\ found'[g] = x
      BY <3>2, <3>6 DEF Private, TypeOK, HandleType
    <3> QED
      BY <3>4, <3>5, <3>6 DEF AliveOwned
  <2>3. CASE CreateFails(h) \/ DestroyDelete(h)
    <3>1. /\ slots' = slots /\ live' = live \ {found[h]} /\ found' = [found EXCEPT ![h] = NoInstance]
          /\ pc' = [pc EXCEPT ![h] = "empty"]
      BY <2>3 DEF CreateFails, DestroyDelete, table
    <3> QED
      BY <3>1 DEF AliveOwned, Private, TypeOK, HandleType
  <2>4. CASE QuietCall(h)
    BY <2>4, QuietFacts DEF AliveOwned
  <2>5. CASE DestroyDetach(h)
    <3>0. PICK i \in SlotIds, n \in Half :
             /\ i = token[h].index
             /\ slots[i].instance # NoInstance /\ slots[i].generation # 0
             /\ slots[i].instance \in live /\ slots[i].instance \in Ids
             /\ found' = [found EXCEPT ![h] = slots[i].instance]
             /\ n \in {0, slots[i].generation + 1}
             /\ slots' = [slots EXCEPT ![i] = [instance |-> NoInstance, generation |-> n]]
             /\ pc[h] = "idle" /\ pc' = [pc EXCEPT ![h] = "deleting"]
             /\ token' = [token EXCEPT ![h] = NullToken]
             /\ UNCHANGED <<size, capacity, born, live, issued>>
      BY <2>5, DetachEffect
    <3>1. \A j \in SlotIds : j # i => slots'[j] = slots[j]
      BY <3>0 DEF TypeOK, TableType
    <3>2. \A g \in Handles : Private(g) => Private(g)' /\ found'[g] = found[g]
      BY <3>0 DEF Private, TypeOK, HandleType
    <3>3. Private(h)' /\ found'[h] = slots[i].instance /\ live' = live
      BY <3>0 DEF Private, TypeOK, HandleType
    <3> QED
      BY <3>1, <3>2, <3>3 DEF AliveOwned
  <2>6. CASE \E g \in Handles : Move(h, g)
    BY <2>6 DEF Move, AliveOwned, Private, table, TypeOK, HandleType
  <2> QED
    BY <1>3, <2>1, <2>2, <2>3, <2>4, <2>5, <2>6 DEF Step, QuietCall
<1> QED
  BY <1>1, <1>2, <1>3 DEF Next

\* The instances of two handles differ, and none is one a call owns.
LEMMA OwnersDiffer ==
  ASSUME ModuleInv, NEW h \in Handles, Holds(h)
  PROVE  LET x == slots[token[h].index].instance
         IN  /\ x \in live /\ x \in Ids /\ x =< born /\ token[h].index \in SlotIds
             /\ slots[token[h].index].instance # NoInstance
             /\ \A g \in Handles : Private(g) => found[g] # x
             /\ \A g \in Handles : Holds(g) /\ g # h => slots[token[g].index].instance # x
<1> DEFINE x == slots[token[h].index].instance
<1>1. token[h].index \in SlotIds /\ x \in live /\ x \in Ids /\ x # NoInstance
  BY HeldFacts DEF ModuleInv, HandlesOwn
<1>2. x =< born
  BY <1>1, ModuleAssumption DEF ModuleInv, TypeOK, TableType, Ids
<1>3. ASSUME NEW g \in Handles, Private(g) PROVE found[g] # x
  BY <1>1, <1>3 DEF ModuleInv, CallsOwn
<1>4. ASSUME NEW g \in Handles, Holds(g), g # h PROVE slots[token[g].index].instance # x
  BY <1>1, <1>4 DEF ModuleInv, HandlesOwn, SlotsOwn
<1> QED
  BY <1>1, <1>2, <1>3, <1>4

LEMMA RoutesStep ==
  ASSUME ModuleInv, RoutesAgree, [Next]_vars
  PROVE  RoutesAgree'
<1> USE ModuleAssumption DEF ModuleInv
<1>1. CASE UNCHANGED vars
  BY <1>1 DEF RoutesAgree, Holds, vars
<1>2. CASE Finished
  BY <1>2 DEF Finished, RoutesAgree, Holds, vars
<1>3. ASSUME NEW h \in Handles, Step(h)
      PROVE  RoutesAgree'
  <2> SUFFICES ASSUME NEW g \in Handles, Holds(g)', host_bound'[g]
               PROVE  /\ bound'[slots'[token'[g].index].instance]
                      /\ route'[slots'[token'[g].index].instance] = host_route'[g]
    BY DEF RoutesAgree
  <2>1. CASE CreateNew(h)
    <3>1. /\ g # h /\ Holds(g) /\ slots' = slots /\ token' = token
          /\ host_bound' = host_bound /\ host_route' = host_route
      BY <2>1 DEF CreateNew, Holds, Calls, table, handle, TypeOK, HandleType
    <3>2. slots[token[g].index].instance # born + 1 /\ slots[token[g].index].instance \in Ids
      BY <3>1, OwnersDiffer DEF TypeOK, TableType, Ids
    <3>3. /\ bound'[slots[token[g].index].instance] = bound[slots[token[g].index].instance]
          /\ route'[slots[token[g].index].instance] = route[slots[token[g].index].instance]
      BY <2>1, <3>2 DEF CreateNew, TypeOK, InstanceType
    <3> QED
      BY <3>1, <3>3 DEF RoutesAgree
  <2>2. CASE CreateReuses(h) \/ CreateExtends(h)
    <3>1. PICK i \in SlotIds, m \in 0..(Width - 1), c \in 0..(Width - 1) : Usable(i) /\ Publish(h, i, m, c)
      BY <2>2, PublishStep
    <3>2. g # h
      BY <3>1 DEF Publish, TypeOK, HandleType
    <3>3. /\ Holds(g) /\ token'[g] = token[g] /\ host_bound[g] /\ host_route'[g] = host_route[g]
          /\ bound' = bound /\ route' = route
      BY <3>1, <3>2 DEF Publish, Holds, instance, TypeOK, HandleType
    <3>4. token[g].index # i /\ token[g].index \in SlotIds
      BY <3>1, <3>3, OwnersDiffer DEF Usable
    <3>5. slots'[token[g].index] = slots[token[g].index]
      BY <3>1, <3>4 DEF Publish, TypeOK, TableType
    <3> QED
      BY <3>3, <3>5 DEF RoutesAgree
  <2>3. CASE CreateFails(h)
    BY <2>3 DEF CreateFails, RoutesAgree, Holds, Calls, table, instance, handle, TypeOK, HandleType
  <2>4. CASE QuietCall(h)
    <3> DEFINE x == slots[token[g].index].instance
    <3>1. slots' = slots /\ token' = token /\ Holds(g) /\ Holds(h)
      BY <2>4, QuietFacts
    <3>2. ASSUME NEW ok \in BOOLEAN, BindAnswers(h, ok)
          PROVE  bound'[x] /\ route'[x] = host_route'[g]
      <4>1. found[h] = slots[token[h].index].instance
        BY <3>2 DEF BindAnswers, Calls, HandlesOwn
      <4>2. CASE g = h
        <5>1. ok /\ host_route'[g] = asked[h]
          BY <3>2, <4>2 DEF BindAnswers, TypeOK, HandleType
        <5>2. x \in Ids
          BY <3>1, OwnersDiffer
        <5> QED
          BY <3>2, <4>1, <4>2, <5>1, <5>2 DEF BindAnswers, TypeOK, InstanceType
      <4>3. CASE g # h
        <5>1. host_bound[g] /\ host_route'[g] = host_route[g]
          BY <3>2, <4>3 DEF BindAnswers, TypeOK, HandleType
        <5>2. x # found[h] /\ x \in Ids
          BY <3>1, <4>1, <4>3, OwnersDiffer
        <5>3. bound'[x] = bound[x] /\ route'[x] = route[x]
          BY <3>2, <5>2 DEF BindAnswers, TypeOK, InstanceType
        <5> QED
          BY <3>1, <5>1, <5>3 DEF RoutesAgree
      <4> QED
        BY <4>2, <4>3
    <3>3. CASE \/ \E r \in Routes : Bind(h, r)
               \/ BindRejected(h) \/ Parse(h) \/ ParseProduces(h) \/ ParseFails(h) \/ ParseCopied(h)
      <4>1. /\ bound' = bound /\ route' = route /\ host_route' = host_route
            /\ host_bound'[g] => host_bound[g]
        BY <3>3 DEF Bind, BindRejected, Parse, ParseProduces, ParseFails, ParseCopied,
                    instance, handle, TypeOK, HandleType
      <4> QED
        BY <3>1, <4>1 DEF RoutesAgree
    <3> QED
      BY <2>4, <3>1, <3>2, <3>3 DEF QuietCall
  <2>5. CASE DestroyDetach(h)
    <3>0. PICK i \in SlotIds, n \in Half :
             /\ i = token[h].index
             /\ slots[i].instance # NoInstance /\ slots[i].generation # 0
             /\ slots[i].instance \in live /\ slots[i].instance \in Ids
             /\ found' = [found EXCEPT ![h] = slots[i].instance]
             /\ n \in {0, slots[i].generation + 1}
             /\ slots' = [slots EXCEPT ![i] = [instance |-> NoInstance, generation |-> n]]
             /\ pc[h] = "idle" /\ pc' = [pc EXCEPT ![h] = "deleting"]
             /\ token' = [token EXCEPT ![h] = NullToken]
             /\ UNCHANGED <<size, capacity, born, live, issued>>
      BY <2>5, DetachEffect
    <3>1. g # h
      BY <2>5 DEF DestroyDetach, TypeOK, HandleType
    <3>2. /\ Holds(g) /\ Holds(h) /\ token'[g] = token[g] /\ host_bound[g] /\ host_route' = host_route
          /\ bound' = bound /\ route' = route
      BY <2>5, <3>0, <3>1 DEF DestroyDetach, Holds, instance, TypeOK, HandleType
    <3>3. token[g].index # i /\ token[g].index \in SlotIds
      BY <3>0, <3>1, <3>2 DEF HandlesOwn
    <3>4. slots'[token[g].index] = slots[token[g].index]
      BY <3>0, <3>3 DEF TypeOK, TableType
    <3> QED
      BY <3>2, <3>4 DEF RoutesAgree
  <2>6. CASE DestroyDelete(h)
    <3> DEFINE x == slots[token[g].index].instance
    <3>1. /\ Holds(g) /\ slots' = slots /\ token' = token /\ Private(h)
          /\ host_bound' = host_bound /\ host_route' = host_route
      BY <2>6 DEF DestroyDelete, Holds, Calls, Private, table, handle, TypeOK, HandleType
    <3>2. x # found[h] /\ x \in Ids
      BY <3>1, OwnersDiffer
    <3>3. bound'[x] = bound[x] /\ route'[x] = route[x]
      BY <2>6, <3>2 DEF DestroyDelete
    <3> QED
      BY <3>1, <3>3 DEF RoutesAgree
  <2>7. ASSUME NEW k \in Handles, Move(h, k)
        PROVE  /\ bound'[slots'[token'[g].index].instance]
               /\ route'[slots'[token'[g].index].instance] = host_route'[g]
    <3>1. slots' = slots /\ bound' = bound /\ route' = route
      BY <2>7 DEF Move, table, instance
    <3>2. CASE g = k
      <4>1. Holds(h) /\ token'[g] = token[h] /\ host_bound[h] /\ host_route'[g] = host_route[h]
        BY <2>7, <3>2 DEF Move, Holds, TypeOK, HandleType
      <4> QED
        BY <3>1, <4>1 DEF RoutesAgree
    <3>3. CASE g # k
      <4>1. g # h
        BY <2>7, <3>3 DEF Move, Holds, Calls, TypeOK, HandleType
      <4>2. Holds(g) /\ token'[g] = token[g] /\ host_bound[g] /\ host_route'[g] = host_route[g]
        BY <2>7, <3>3, <4>1 DEF Move, Holds, TypeOK, HandleType
      <4> QED
        BY <3>1, <4>2 DEF RoutesAgree
    <3> QED
      BY <3>2, <3>3
  <2> QED
    BY <1>3, <2>1, <2>2, <2>3, <2>4, <2>5, <2>6, <2>7 DEF Step, QuietCall
<1> QED
  BY <1>1, <1>2, <1>3 DEF Next

\* The instances alive are those in the table and those a call is creating or
\* deleting, and a handle that believes it is bound agrees with its instance on
\* the route (NativeParserModuleInstance::bind() and ModuleExports).
THEOREM HostModuleAgreement == Spec => []HostAndModuleAgree
<1>1. Init => AliveOwned /\ RoutesAgree
  BY DEF Init, AliveOwned, RoutesAgree, Holds, Calls
<1>2. ModuleInv /\ AliveOwned /\ RoutesAgree /\ [Next]_vars => AliveOwned' /\ RoutesAgree'
  BY AliveStep, RoutesStep
<1>3. ModuleInv /\ AliveOwned => NoInstanceLeaks
  <2> SUFFICES ASSUME ModuleInv, AliveOwned PROVE NoInstanceLeaks
    OBVIOUS
  <2> USE ModuleAssumption DEF ModuleInv
  <2> DEFINE shown == {slots[i].instance : i \in 1..size} \ {NoInstance}
             owned == {found[h] : h \in {g \in Handles : pc[g] \in {"creating", "deleting"}}}
  <2>1. 1..size \subseteq SlotIds /\ NoInstance \notin live
    BY DEF TypeOK, TableType, SlotIds, NoInstance
  <2>2. shown \subseteq live
    BY <2>1 DEF SlotsOwn
  <2>3. owned \subseteq live
    BY DEF CallsOwn, Private
  <2>4. ASSUME NEW x \in live PROVE x \in shown \cup owned
    <3>1. ASSUME NEW i \in SlotIds, slots[i].instance = x PROVE x \in shown
      <4>1. i =< size /\ x # NoInstance
        BY <2>1, <3>1 DEF SlotsOwn
      <4>2. i \in 1..size
        BY <4>1 DEF TypeOK, TableType, SlotIds
      <4> QED
        BY <3>1, <4>1, <4>2
    <3>2. ASSUME NEW h \in Handles, Private(h), found[h] = x PROVE x \in owned
      BY <3>2 DEF Private
    <3> QED
      BY <3>1, <3>2 DEF AliveOwned
  <2> QED
    BY <2>2, <2>3, <2>4 DEF NoInstanceLeaks
<1>4. ModuleInv /\ RoutesAgree => HostAgreesOnRoute
  BY HeldFacts DEF RoutesAgree, HostAgreesOnRoute, Holds
<1>5. ModuleInv /\ AliveOwned /\ RoutesAgree => HostAndModuleAgree
  BY <1>3, <1>4 DEF HostAndModuleAgree
<1> QED
  BY ModuleInvariance, <1>1, <1>2, <1>5, PTL DEF Spec
=============================================================================
