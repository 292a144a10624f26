-------------------------- MODULE ResourceManager --------------------------
(***************************************************************************)
(* common/resource_manager/resource_manager.c: pointers under a name, and  *)
(* a default pointer for the names that are not there.  A node keeps the   *)
(* pointer to the caller's string, so the name is what the string says     *)
(* when it is looked up.                                                   *)
(***************************************************************************)
EXTENDS Naturals, FiniteSets, SequencesExt

CONSTANTS
  Names, Pointers, NoPointer,
  Strings,      \* the callers' buffers that hold a name
  MaxResources, \* how many nodes there is memory for
  AddedTwice,   \* environment: a name is added while it is registered
  Rewritten     \* environment: a string changes while a node has it

ResourceAssumption == /\ NoPointer \notin Pointers /\ MaxResources \in Nat
                      /\ AddedTwice \in BOOLEAN /\ Rewritten \in BOOLEAN

VARIABLES
  rm,         \* struct resource_manager: the list and default_ptr,
  rmNodes,    \* how many nodes are allocated,
  rmStrings,  \* [Strings -> Names]
  rmExpected, \* history: what each name was added with, in a manager that is there,
  rmGot       \* history: what the last get was asked and gave

rmVars == <<rm, rmNodes, rmStrings, rmExpected, rmGot>>

NoManager == [there |-> FALSE, list |-> <<>>, default |-> NoPointer]
NewManager == [NoManager EXCEPT !.there = TRUE]
Unknown == [n \in Names |-> NoPointer]

RmInit == /\ rm = NoManager /\ rmNodes = 0 /\ rmExpected = Unknown
          /\ rmStrings \in [Strings -> Names]
          /\ rmGot = [asked |-> NoPointer, gave |-> NoPointer]

\* _search_node: the places a name is found at; the last one counts.
Found(name) == {i \in DOMAIN rm.list : rmStrings[rm.list[i].name] = name}
Latest(name) == CHOOSE i \in Found(name) : \A j \in Found(name) : j <= i

Create == /\ ~rm.there /\ rm' = NewManager
          /\ UNCHANGED <<rmNodes, rmStrings, rmExpected, rmGot>>

\* The list goes node by node, and then the manager.
Destroy == /\ rm.there /\ rm' = NoManager
           /\ rmNodes' = rmNodes - Len(rm.list) /\ rmExpected' = Unknown
           /\ UNCHANGED <<rmStrings, rmGot>>

\* add_resource: the node is allocated before the name is looked up, and stays allocated.
Add(s, ptr) ==
  /\ rm.there /\ rmNodes < MaxResources
  /\ Found(rmStrings[s]) = {} \/ AddedTwice
  /\ rmNodes' = rmNodes + 1
  /\ IF Found(rmStrings[s]) = {}
     THEN /\ rm' = [rm EXCEPT !.list = Append(@, [name |-> s, ptr |-> ptr])]
          /\ rmExpected' = [rmExpected EXCEPT ![rmStrings[s]] = ptr]
     ELSE UNCHANGED <<rm, rmExpected>>
  /\ UNCHANGED <<rmStrings, rmGot>>

\* Mutant: the first node, whatever its name.
FirstNode(name) == 1
Removed(name) == Latest(name)

\* remove_resource: the node of the list is the one before the next of the copy.
RemoveResource(name) ==
  /\ rm.there /\ Found(name) # {}
  /\ rm' = [rm EXCEPT !.list = RemoveAt(@, Removed(name))]
  /\ rmNodes' = rmNodes - 1
  /\ rmExpected' = [rmExpected EXCEPT ![name] = NoPointer]
  /\ UNCHANGED <<rmStrings, rmGot>>

\* get_resource and get_resource_careful
Get(name) == IF Found(name) = {} THEN rm.default ELSE rm.list[Latest(name)].ptr
GetResource(name) ==
  /\ rm.there
  /\ rmGot' = [asked |-> IF rmExpected[name] = NoPointer THEN rm.default ELSE rmExpected[name],
               gave |-> Get(name)]
  /\ UNCHANGED <<rm, rmNodes, rmStrings, rmExpected>>

SetDefault(ptr) == /\ rm.there /\ rm' = [rm EXCEPT !.default = ptr]
                   /\ UNCHANGED <<rmNodes, rmStrings, rmExpected, rmGot>>

Rewrite(s, name) ==
  /\ Rewritten \/ \A i \in DOMAIN rm.list : rm.list[i].name # s
  /\ rmStrings' = [rmStrings EXCEPT ![s] = name]
  /\ UNCHANGED <<rm, rmNodes, rmExpected, rmGot>>

RmNext == \/ Create \/ Destroy
          \/ \E s \in Strings, ptr \in Pointers : Add(s, ptr)
          \/ \E ptr \in Pointers : SetDefault(ptr)
          \/ \E name \in Names : RemoveResource(name) \/ GetResource(name)
                                 \/ \E s \in Strings : Rewrite(s, name)
RmSpec == RmInit /\ [][RmNext]_rmVars

-----------------------------------------------------------------------------
(* Over any order of add, remove and destroy a name gives the pointer it   *)
(* was added with and any other name the default one, and every node that  *)
(* is allocated can still be found, so that destroy leaves none behind.    *)
ResourcesAreFound == rmGot.gave = rmGot.asked /\ rmNodes = Len(rm.list)
=============================================================================
