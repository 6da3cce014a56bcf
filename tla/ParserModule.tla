---------------------------- MODULE ParserModule ----------------------------
(***************************************************************************)
(* Instances of a parser module.  The module side is ModuleExports of      *)
(* parser_module/module.hpp: a table of slots with generations, a spin     *)
(* lock around the table and tokens that name a slot and a generation.     *)
(* The host side is NativeParserModuleInstance of                          *)
(* parser_module_runtime.cpp, the move-only owner of one token.            *)
(*                                                                         *)
(* Every handle is driven by a thread of its own, so calls on different    *)
(* instances interleave at the granularity of the table lock.  A token is  *)
(* the pair of 32-bit halves the code packs into 64 bits; Width stands for *)
(* 2^32, and arithmetic on a half wraps.  Error texts are left out.        *)
(***************************************************************************)
EXTENDS Naturals

CONSTANTS
  Handles,         \* the host's NativeParserModuleInstance objects
  Width,           \* number of values of half a token, 2^32 in the code
  FirstCapacity,   \* slots of the first allocation of the table, 8 in the code
  MaxBorn          \* bound: instances ever constructed

ASSUME ModuleAssumption ==
  /\ Width \in Nat /\ Width > 1
  /\ FirstCapacity \in Nat /\ FirstCapacity > 0
  /\ MaxBorn \in Nat

Routes  == {"scalar", "object"}
Half    == 0..(Width - 1)
SlotIds == 1..(Width - 1)    \* the low half of a token: slot index plus one
Ids     == 1..MaxBorn        \* instance objects, in the order they were built
Tokens  == [index : Half, generation : Half]

NullToken == [index |-> 0, generation |-> 0]   \* kCreationErrorToken
NoInstance == 0

VARIABLES
  slots,           \* the slots: an instance or NoInstance, and a generation
  size, capacity,  \* of the table
  born,            \* instances built so far
  live,            \* instances built and not yet deleted
  bound, route,    \* of an instance
  token, host_bound, host_route,   \* of a handle
  pc,              \* what a handle's thread is doing
  found,           \* the instance a call of the handle is working on
  asked,           \* the route a bind of the handle asks for
  issued           \* every token handed out, with its instance

vars == <<slots, size, capacity, born, live, bound, route, token, host_bound,
          host_route, pc, found, asked, issued>>

table    == <<slots, size, capacity>>
instance == <<bound, route>>
handle   == <<token, host_bound, host_route>>

Calls == {"binding", "parsing", "copying"}

TableType ==
  /\ slots \in [SlotIds -> [instance : {NoInstance} \cup Ids, generation : Half]]
  /\ size \in 0..(Width - 1) /\ capacity \in 0..(Width - 1) /\ size =< capacity
  /\ born \in 0..MaxBorn
  /\ live \subseteq 1..born
  /\ issued \subseteq [token : Tokens, instance : Ids]

InstanceType ==
  bound \in [Ids -> BOOLEAN] /\ route \in [Ids -> Routes]

HandleType ==
  /\ token \in [Handles -> Tokens]
  /\ host_bound \in [Handles -> BOOLEAN] /\ host_route \in [Handles -> Routes]
  /\ pc \in [Handles -> {"empty", "creating", "idle", "deleting"} \cup Calls]
  /\ found \in [Handles -> {NoInstance} \cup Ids]
  /\ asked \in [Handles -> Routes]

TypeOK == TableType /\ InstanceType /\ HandleType

Init ==
  /\ slots = [i \in SlotIds |-> [instance |-> NoInstance, generation |-> 1]]
  /\ size = 0 /\ capacity = 0
  /\ born = 0 /\ live = {}
  /\ bound = [x \in Ids |-> FALSE] /\ route = [x \in Ids |-> "scalar"]
  /\ token = [h \in Handles |-> NullToken]
  /\ host_bound = [h \in Handles |-> FALSE] /\ host_route = [h \in Handles |-> "scalar"]
  /\ pc = [h \in Handles |-> "empty"]
  /\ found = [h \in Handles |-> NoInstance]
  /\ asked = [h \in Handles |-> "scalar"]
  /\ issued = {}

-----------------------------------------------------------------------------
(* The table.                                                              *)

\* Mutant: a slot whose generation has wrapped is used again.
UsableWrapped(i) == slots[i].instance = NoInstance

Usable(i) == slots[i].instance = NoInstance /\ slots[i].generation # 0

FreeSlots == {i \in 1..size : Usable(i)}

\* Mutant: the generation is not compared.
FindSlotAnyGeneration(t) ==
  {i \in 1..size : i = t.index /\ t.generation # 0 /\ slots[i].instance # NoInstance}

\* findSlotLocked() and find().
FindSlot(t) ==
  {i \in 1..size : i = t.index /\ t.generation # 0
                     /\ slots[i].instance # NoInstance /\ slots[i].generation = t.generation}

Find(t) ==
  IF FindSlot(t) = {} THEN NoInstance
  ELSE slots[CHOOSE i \in FindSlot(t) : TRUE].instance

NextCapacity == IF capacity = 0 THEN FirstCapacity ELSE 2 * capacity

-----------------------------------------------------------------------------
(* create().                                                               *)

\* The instance is built before the lock is taken.
CreateNew(h) ==
  /\ pc[h] = "empty" /\ born < MaxBorn
  /\ born' = born + 1
  /\ live' = live \cup {born + 1}
  /\ bound' = [bound EXCEPT ![born + 1] = FALSE]
  /\ route' = [route EXCEPT ![born + 1] = "scalar"]
  /\ found' = [found EXCEPT ![h] = born + 1]
  /\ pc' = [pc EXCEPT ![h] = "creating"]
  /\ UNCHANGED <<table, handle, asked, issued>>

\* What publishing in slot i of a table of m slots does, and the handle that
\* the host builds around the token.
Publish(h, i, m, c) ==
  LET t == [index |-> i, generation |-> slots[i].generation] IN
  /\ slots' = [slots EXCEPT ![i] = [instance |-> found[h], generation |-> t.generation]]
  /\ size' = m /\ capacity' = c
  /\ issued' = issued \cup {[token |-> t, instance |-> found[h]]}
  /\ token' = [token EXCEPT ![h] = t]
  /\ host_bound' = [host_bound EXCEPT ![h] = FALSE]
  /\ host_route' = [host_route EXCEPT ![h] = "scalar"]
  /\ found' = [found EXCEPT ![h] = NoInstance]
  /\ pc' = [pc EXCEPT ![h] = "idle"]
  /\ UNCHANGED <<born, live, instance, asked>>

\* The first usable slot of the table.
CreateReuses(h) ==
  /\ pc[h] = "creating"
  /\ \E i \in FreeSlots : (\A j \in FreeSlots : i =< j) /\ Publish(h, i, size, capacity)

\* No usable slot: one more, after growing the table when it is full.
CreateExtends(h) ==
  /\ pc[h] = "creating" /\ FreeSlots = {}
  /\ \/ size < capacity /\ Publish(h, size + 1, size + 1, capacity)
     \/ /\ size = capacity /\ NextCapacity < Width
        /\ Publish(h, size + 1, size + 1, NextCapacity)

\* Mutant: the instance is forgotten.
CreateFailsLeaks(h) ==
  /\ pc[h] = "creating" /\ FreeSlots = {} /\ size = capacity
  /\ found' = [found EXCEPT ![h] = NoInstance]
  /\ pc' = [pc EXCEPT ![h] = "empty"]
  /\ UNCHANGED <<table, born, live, instance, handle, asked, issued>>

\* grow() fails, for lack of memory or of slot numbers; the instance is deleted.
CreateFails(h) ==
  /\ pc[h] = "creating" /\ FreeSlots = {} /\ size = capacity
  /\ live' = live \ {found[h]}
  /\ found' = [found EXCEPT ![h] = NoInstance]
  /\ pc' = [pc EXCEPT ![h] = "empty"]
  /\ UNCHANGED <<table, born, instance, handle, asked, issued>>

-----------------------------------------------------------------------------
(* bind() and parse().  The lock covers the look-up only.                  *)

Bind(h, r) ==
  /\ pc[h] = "idle"
  /\ found' = [found EXCEPT ![h] = Find(token[h])]
  /\ asked' = [asked EXCEPT ![h] = r]
  /\ pc' = [pc EXCEPT ![h] = "binding"]
  /\ UNCHANGED <<table, born, live, instance, handle, issued>>

\* The end of a call: the handle is back in the host's hands, the argument gone.
Returns(h) ==
  /\ pc' = [pc EXCEPT ![h] = "idle"]
  /\ found' = [found EXCEPT ![h] = NoInstance]
  /\ asked' = [asked EXCEPT ![h] = "scalar"]

\* Mutant: a bind that is declined leaves the handle bound.
BindAnswersKept(h, ok) ==
  /\ pc[h] = "binding" /\ found[h] # NoInstance
  /\ bound' = [bound EXCEPT ![found[h]] = ok]
  /\ route' = [route EXCEPT ![found[h]] = asked[h]]
  /\ host_bound' = [host_bound EXCEPT ![h] = @ \/ ok]
  /\ host_route' = [host_route EXCEPT ![h] = IF ok THEN asked[h] ELSE @]
  /\ Returns(h)
  /\ UNCHANGED <<table, born, live, token, issued>>

\* The parser answers: ok accepts the binding, otherwise it declines or fails.
BindAnswers(h, ok) ==
  /\ pc[h] = "binding" /\ found[h] # NoInstance
  /\ bound' = [bound EXCEPT ![found[h]] = ok]
  /\ route' = [route EXCEPT ![found[h]] = asked[h]]
  /\ host_bound' = [host_bound EXCEPT ![h] = ok]
  /\ host_route' = [host_route EXCEPT ![h] = IF ok THEN asked[h] ELSE @]
  /\ Returns(h)
  /\ UNCHANGED <<table, born, live, token, issued>>

\* The call fails before the parser answers (unreadable block, an exception):
\* the instance keeps its binding, the handle gives its own up.
BindRejected(h) ==
  /\ pc[h] = "binding"
  /\ host_bound' = [host_bound EXCEPT ![h] = FALSE]
  /\ Returns(h)
  /\ UNCHANGED <<table, born, live, instance, token, host_route, issued>>

Parse(h) ==
  /\ pc[h] = "idle" /\ host_bound[h]
  /\ found' = [found EXCEPT ![h] = Find(token[h])]
  /\ pc' = [pc EXCEPT ![h] = "parsing"]
  /\ UNCHANGED <<table, born, live, instance, handle, asked, issued>>

\* The parser ran and its output is in the instance.
ParseProduces(h) ==
  /\ pc[h] = "parsing" /\ found[h] # NoInstance /\ bound[found[h]]
  /\ pc' = [pc EXCEPT ![h] = "copying"]
  /\ UNCHANGED <<table, born, live, instance, handle, found, asked, issued>>

\* Unbound, malformed input, an error or an exception: nothing to copy.
ParseFails(h) ==
  /\ pc[h] = "parsing"
  /\ Returns(h)
  /\ UNCHANGED <<table, born, live, instance, handle, issued>>

\* The host has decoded and copied what the descriptor points to.
ParseCopied(h) ==
  /\ pc[h] = "copying"
  /\ Returns(h)
  /\ UNCHANGED <<table, born, live, instance, handle, issued>>

-----------------------------------------------------------------------------
(* reset() and moves.                                                      *)

\* destroy() empties the slot and moves its generation on, under the lock ...
DestroyDetach(h) ==
  /\ pc[h] = "idle"
  /\ found' = [found EXCEPT ![h] = Find(token[h])]
  /\ slots' = [i \in SlotIds |->
       IF i \in FindSlot(token[h])
       THEN [instance |-> NoInstance, generation |-> (slots[i].generation + 1) % Width]
       ELSE slots[i]]
  /\ token' = [token EXCEPT ![h] = NullToken]
  /\ host_bound' = [host_bound EXCEPT ![h] = FALSE]
  /\ pc' = [pc EXCEPT ![h] = "deleting"]
  /\ UNCHANGED <<size, capacity, born, live, instance, host_route, asked, issued>>

\* ... and deletes the instance outside it.
DestroyDelete(h) ==
  /\ pc[h] = "deleting"
  /\ live' = live \ {found[h]}
  /\ bound' = [x \in Ids |-> IF x = found[h] THEN FALSE ELSE bound[x]]
  /\ route' = [x \in Ids |-> IF x = found[h] THEN "scalar" ELSE route[x]]
  /\ found' = [found EXCEPT ![h] = NoInstance]
  /\ pc' = [pc EXCEPT ![h] = "empty"]
  /\ UNCHANGED <<table, born, handle, asked, issued>>

\* Mutant: the source of a move keeps its token.
MoveCopies(h, g) ==
  /\ pc[h] = "idle" /\ pc[g] = "empty"
  /\ token' = [token EXCEPT ![g] = token[h]]
  /\ host_bound' = [host_bound EXCEPT ![g] = host_bound[h], ![h] = FALSE]
  /\ host_route' = [host_route EXCEPT ![g] = host_route[h]]
  /\ pc' = [pc EXCEPT ![g] = "idle"]
  /\ UNCHANGED <<table, born, live, instance, found, asked, issued>>

\* A move into an empty handle; a move into another one is a reset of it first.
Move(h, g) ==
  /\ pc[h] = "idle" /\ pc[g] = "empty"
  /\ token' = [token EXCEPT ![g] = token[h], ![h] = NullToken]
  /\ host_bound' = [host_bound EXCEPT ![g] = host_bound[h], ![h] = FALSE]
  /\ host_route' = [host_route EXCEPT ![g] = host_route[h]]
  /\ pc' = [pc EXCEPT ![g] = "idle", ![h] = "empty"]
  /\ UNCHANGED <<table, born, live, instance, found, asked, issued>>

-----------------------------------------------------------------------------
Step(h) ==
  \/ CreateNew(h) \/ CreateReuses(h) \/ CreateExtends(h) \/ CreateFails(h)
  \/ \E r \in Routes : Bind(h, r)
  \/ \E ok \in BOOLEAN : BindAnswers(h, ok)
  \/ BindRejected(h)
  \/ Parse(h) \/ ParseProduces(h) \/ ParseFails(h) \/ ParseCopied(h)
  \/ DestroyDetach(h) \/ DestroyDelete(h)
  \/ \E g \in Handles : Move(h, g)

\* Every handle is gone and the bound on instances is reached.
Finished == born = MaxBorn /\ (\A h \in Handles : pc[h] = "empty") /\ UNCHANGED vars

Next == (\E h \in Handles : Step(h)) \/ Finished

Spec == Init /\ [][Next]_vars

-----------------------------------------------------------------------------
(* Properties.                                                             *)

\* A token names the instance it was issued for or nothing, also when the
\* generations of its slot have wrapped around (the comment in destroy()).
StaleNeverResolves ==
  \A p \in issued : Find(p.token) \in {NoInstance, p.instance}

\* A handle's own token always resolves, so a host that serializes the calls on
\* an instance is never answered kModuleBadToken.
HeldTokenResolves ==
  \A h \in Handles : pc[h] = "idle" => Find(token[h]) \in live

\* No call works on an instance that another thread has deleted meanwhile.
NoUseAfterDelete ==
  \A h \in Handles : pc[h] \in Calls => found[h] \in live

(* What makes these inductive.                                             *)

\* A generation that a slot has moved past never comes back, and the current one
\* was issued, if at all, for the instance that is in the slot.
TokensOK ==
  \A p \in issued :
    LET s == slots[p.token.index] IN
    /\ p.token.index \in 1..size /\ p.token.generation # 0
    /\ s.generation # 0 => p.token.generation =< s.generation
    /\ s.generation = p.token.generation => s.instance = p.instance

\* The handles that own an instance, and the calls that own one the table does
\* not show.
Holds(h)   == pc[h] = "idle" \/ pc[h] \in Calls
Private(h) == pc[h] \in {"creating", "deleting"}

\* An instance has one owner: a slot and the one handle with its token, or a call
\* that has not published it yet or has taken it out.
SlotsOwn ==
  /\ \A i \in SlotIds : slots[i].instance # NoInstance =>
        slots[i].instance \in live /\ slots[i].generation # 0 /\ i =< size
  /\ \A i, j \in SlotIds : i # j /\ slots[i].instance # NoInstance =>
        slots[i].instance # slots[j].instance
  /\ \A i \in SlotIds : i > size => slots[i].generation # 0

HandlesOwn ==
  /\ \A h \in Handles : Holds(h) =>
        /\ token[h].index \in SlotIds
        /\ slots[token[h].index].instance # NoInstance
        /\ slots[token[h].index].generation = token[h].generation
  /\ \A h, g \in Handles : Holds(h) /\ Holds(g) /\ h # g => token[h].index # token[g].index
  /\ \A h \in Handles : pc[h] \in Calls => found[h] = slots[token[h].index].instance

CallsOwn ==
  /\ \A h \in Handles : Private(h) =>
        found[h] \in live /\ \A i \in SlotIds : slots[i].instance # found[h]
  /\ \A h, g \in Handles : Private(h) /\ Private(g) /\ h # g => found[h] # found[g]

\* Tokens, slots, handles and calls agree on who owns which instance, however
\* create, destroy, the growth of the table and the calls interleave.
ModuleInv == TypeOK /\ TokensOK /\ SlotsOwn /\ HandlesOwn /\ CallsOwn

\* Instances neither leak nor dangle: those alive are the ones in the table, and
\* the ones being created or deleted.
NoInstanceLeaks ==
  live = ({slots[i].instance : i \in 1..size} \ {NoInstance})
           \cup {found[h] : h \in {g \in Handles : pc[g] \in {"creating", "deleting"}}}

\* A handle that believes it is bound agrees with the module on the route, so a
\* correct module is never charged with a contract violation.
HostAgreesOnRoute ==
  \A h \in Handles : pc[h] = "idle" /\ host_bound[h] =>
    bound[Find(token[h])] /\ route[Find(token[h])] = host_route[h]

\* Host and module agree on which instances there are and on what they are bound to.
HostAndModuleAgree == NoInstanceLeaks /\ HostAgreesOnRoute
=============================================================================
