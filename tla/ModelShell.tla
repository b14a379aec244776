----------------------------- MODULE ModelShell -----------------------------
(***************************************************************************)
(* model_shell.hpp: a fixed buffer in which a wrapper of a model is        *)
(* constructed in place, and m_Concept, which says that there is one; and  *)
(* the call through it, which routes by a token memoised per model type.   *)
(* The code is that of a plugin, whose anchors are redirected to the       *)
(* host's when it is bootstrapped.                                         *)
(*                                                                         *)
(* live is what the C++ object model knows and the code does not: the      *)
(* wrapper whose lifetime goes on in a shell's buffer.  Once a destructor  *)
(* has run on a dead wrapper, or a dead one was read, nothing is modelled  *)
(* any more.                                                               *)
(***************************************************************************)
EXTENDS Naturals, SequencesExt

CONSTANTS
  Shell,      \* storage for ModelShell objects
  Type,       \* model types
  Value,      \* what an instance of a type holds
  Throwing,   \* the types whose copy constructor may throw
  SelfSet,    \* whether a shell is ever Set from the model it holds
  EarlyUse,   \* whether the plugin invokes through shells before its Bootstrap
  LocalIndex, \* the plugin's own directory: its model types by slot
  HostIndex,  \* the host's, after the plugin's models joined it
  Routed,     \* the types with a capability for the contract
  Null

Held == [type : Type, value : Value]

ASSUME ShellAssumption ==
  /\ Throwing \subseteq Type /\ Routed \subseteq Type
  /\ SelfSet \in BOOLEAN /\ EarlyUse \in BOOLEAN
  /\ Null \notin Held
  /\ \A index \in {LocalIndex, HostIndex} :
       index \in Seq(Type) /\ IsInjective(index) /\ Type = Range(index)

VARIABLES
  up,         \* the shells that are constructed
  concept,    \* the shells with m_Concept set
  live,       \* the wrapper alive in a shell's buffer, or Null
  remains,    \* the shells whose live wrapper has been moved from
  unsafe,     \* the shells a failed or aliased assignment has hit
  stray,      \* a wrapper lost its storage undestroyed
  undefined,  \* a dead wrapper was destroyed or read
  remote,     \* the plugin's anchors are redirected
  memo,       \* the function-local static of GetToken: a slot, 0 invalid, or Null
  last        \* the last call: the type it was for, and whose capability ran

objects == <<up, concept, live, remains, unsafe, stray, undefined>>
vars == <<objects, remote, memo, last>>

-----------------------------------------------------------------------------
(* m_Concept->~Concept(), where it is set.                                 *)
Doomed(s) == s \in concept /\ live[s] = Null
AfterDestroy(s) == IF s \in concept THEN Null ELSE live[s]

(* Placement new over a wrapper that is alive and was not moved from.      *)
Lost(s) == AfterDestroy(s) # Null /\ s \notin remains

Init ==
  /\ up = {} /\ concept = {} /\ remains = {} /\ unsafe = {}
  /\ live = [s \in Shell |-> Null]
  /\ stray = FALSE /\ undefined = FALSE
  /\ remote = FALSE /\ memo = [T \in Type |-> Null] /\ last = Null

OfObjects == ~undefined /\ UNCHANGED <<remote, memo, last>>
OfCalls == ~undefined /\ UNCHANGED objects

Default(s) ==
  /\ OfObjects
  /\ s \notin up
  /\ up' = up \cup {s}
  /\ UNCHANGED <<concept, live, remains, unsafe, stray, undefined>>

(* What is in s is destroyed and h constructed there.                      *)
Replace(s, h) ==
  /\ undefined' = (undefined \/ Doomed(s))
  /\ stray' = (stray \/ Lost(s))
  /\ up' = up \cup {s} /\ concept' = concept \cup {s}
  /\ live' = [live EXCEPT ![s] = h]
  /\ remains' = remains \ {s}
  /\ UNCHANGED unsafe

(* The same, but the constructor throws: m_Concept is left as it was, a    *)
(* shell under construction never comes up.                                *)
ReplaceThrows(s) ==
  /\ undefined' = (undefined \/ Doomed(s))
  /\ stray' = (stray \/ Lost(s))
  /\ live' = [live EXCEPT ![s] = Null]
  /\ remains' = remains \ {s}
  /\ unsafe' = IF s \in concept THEN unsafe \cup {s} ELSE unsafe
  /\ UNCHANGED <<up, concept>>

(* ModelShell(TModel&&) where s is not up, Set where it is.                *)
Set(s, h) ==
  /\ OfObjects
  /\ \/ Replace(s, h)
     \/ h.type \in Throwing /\ ReplaceThrows(s)

(* s.Set(s.Cast<T>()): the argument is gone when it is copied.             *)
SetAliased(s) ==
  /\ OfObjects
  /\ SelfSet /\ s \in up /\ live[s] # Null /\ s \in concept
  /\ undefined' = TRUE
  /\ unsafe' = unsafe \cup {s}
  /\ UNCHANGED <<up, concept, live, remains, stray>>

(* Mutant: copy assignment from an empty shell leaves m_Concept set. *)
CopyKeepsConcept(s, t) ==
  /\ OfObjects
  /\ s # t /\ t \in up
  /\ IF t \notin concept
     THEN /\ undefined' = (undefined \/ Doomed(s))
          /\ up' = up \cup {s}
          /\ live' = [live EXCEPT ![s] = AfterDestroy(s)]
          /\ UNCHANGED <<concept, remains, unsafe, stray>>
     ELSE Replace(s, live[t])

(* s becomes empty.                                                        *)
Vacate(s) ==
  /\ undefined' = (undefined \/ Doomed(s))
  /\ up' = up \cup {s} /\ concept' = concept \ {s}
  /\ live' = [live EXCEPT ![s] = AfterDestroy(s)]
  /\ UNCHANGED <<remains, unsafe, stray>>

(* A shell whose wrapper is dead is read.                                  *)
ReadDead(t) ==
  /\ Doomed(t)
  /\ undefined' = TRUE
  /\ UNCHANGED <<up, concept, live, remains, unsafe, stray>>

(* Copy construction where s is not up, copy assignment where it is.       *)
Copy(s, t) ==
  /\ OfObjects
  /\ s # t /\ t \in up
  /\ \/ t \notin concept /\ Vacate(s)
     \/ ReadDead(t)
     \/ /\ t \in concept /\ live[t] # Null
        /\ \/ Replace(s, live[t])
           \/ live[t].type \in Throwing /\ ReplaceThrows(s)

(* Mutant: the source of a move keeps its m_Concept. *)
MoveKeepsSource(s, t) ==
  /\ OfObjects
  /\ s # t /\ t \in up
  /\ \/ t \notin concept /\ Vacate(s)
     \/ /\ t \in concept /\ live[t] # Null
        /\ undefined' = (undefined \/ Doomed(s))
        /\ up' = up \cup {s} /\ concept' = concept \cup {s}
        /\ live' = [live EXCEPT ![s] = live[t]]
        /\ remains' = (remains \ {s}) \cup {t}
        /\ UNCHANGED <<unsafe, stray>>

(* Mutant: assigning a shell to itself is not excepted. *)
MoveToItself(s, t) ==
  /\ OfObjects
  /\ t \in up
  /\ \/ t \notin concept /\ Vacate(s)
     \/ /\ t \in concept /\ live[t] # Null
        /\ up' = up \cup {s} /\ concept' = (concept \cup {s}) \ {t}
        /\ live' = [live EXCEPT ![s] = live[t]]
        /\ remains' = (remains \ {s}) \cup {t}
        /\ UNCHANGED <<unsafe, stray, undefined>>

(* Move construction and assignment.  Relocate moves the wrapper and does  *)
(* not destroy the one it moved from.                                      *)
Move(s, t) ==
  /\ OfObjects
  /\ s # t /\ t \in up
  /\ \/ t \notin concept /\ Vacate(s)
     \/ ReadDead(t)
     \/ /\ t \in concept /\ live[t] # Null
        /\ undefined' = (undefined \/ Doomed(s))
        /\ stray' = (stray \/ Lost(s))
        /\ up' = up \cup {s}
        /\ concept' = (concept \cup {s}) \ {t}
        /\ live' = [live EXCEPT ![s] = live[t]]
        /\ remains' = (remains \ {s}) \cup {t}
        /\ UNCHANGED unsafe

(* m_Concept is asked for a type or a token, and its wrapper is dead.      *)
OnDead(s) ==
  /\ OfObjects
  /\ s \in up /\ ReadDead(s)

(* Mutate and TryMutate, where the type is the one asked for.              *)
Mutate(s, v) ==
  \/ OnDead(s)
  \/ /\ OfObjects
     /\ s \in up \cap concept /\ live[s] # Null
     /\ live' = [live EXCEPT ![s].value = v]
     /\ UNCHANGED <<up, concept, remains, unsafe, stray, undefined>>

(* ~ModelShell, and the buffer is gone.                                    *)
Destruct(s) ==
  /\ OfObjects
  /\ s \in up
  /\ undefined' = (undefined \/ Doomed(s))
  /\ stray' = (stray \/ Lost(s))
  /\ up' = up \ {s} /\ concept' = concept \ {s}
  /\ live' = [live EXCEPT ![s] = Null]
  /\ remains' = remains \ {s}
  /\ UNCHANGED unsafe

-----------------------------------------------------------------------------
(* Routing.                                                                *)

Index == IF remote THEN HostIndex ELSE LocalIndex

(* ModelToken::FromType: 0 is the invalid slot.                            *)
FromType(T) == SelectInSeq(Index, LAMBDA x : x = T)

(* Mutant: the memo is one for all model types. *)
TokenShared(T) ==
  IF \E U \in Type : memo[U] # Null
  THEN memo[CHOOSE U \in Type : memo[U] # Null] ELSE FromType(T)

(* ModelWrapper<T>::GetToken.                                              *)
Token(T) == IF memo[T] = Null THEN FromType(T) ELSE memo[T]

(* Router::Find: whose capability the row of a token holds.                *)
Find(token) ==
  IF token \in DOMAIN Index /\ Index[token] \in Routed THEN Index[token] ELSE Null

Bootstrap ==
  /\ OfCalls
  /\ ~remote /\ remote' = TRUE
  /\ UNCHANGED <<memo, last>>

(* Invoke asserts that there is a capability.                              *)
Invoke(s) ==
  \/ OnDead(s)
  \/ /\ OfCalls
     /\ s \in up \cap concept /\ live[s] # Null
     /\ remote \/ EarlyUse
     /\ LET T == live[s].type IN
        /\ memo' = [memo EXCEPT ![T] = Token(T)]
        /\ Find(Token(T)) # Null
        /\ last' = [of |-> T, by |-> Find(Token(T))]
     /\ UNCHANGED remote

(* TryInvoke: an empty optional where there is no model or no capability.  *)
TryInvoke(s) ==
  \/ OnDead(s)
  \/ /\ OfCalls
     /\ s \in up /\ ~Doomed(s)
     /\ remote \/ EarlyUse
     /\ IF s \notin concept
        THEN last' = [of |-> Null, by |-> Null] /\ UNCHANGED memo
        ELSE LET T == live[s].type IN
             /\ memo' = [memo EXCEPT ![T] = Token(T)]
             /\ last' = [of |-> T, by |-> Find(Token(T))]
     /\ UNCHANGED remote

-----------------------------------------------------------------------------
Next ==
  \/ Bootstrap
  \/ \E s \in Shell :
       \/ Default(s) \/ Destruct(s) \/ SetAliased(s) \/ Invoke(s) \/ TryInvoke(s)
       \/ \E h \in Held : Set(s, h)
       \/ \E v \in Value : Mutate(s, v)
       \/ \E t \in Shell : Copy(s, t) \/ Move(s, t)

Spec == Init /\ [][Next]_vars

-----------------------------------------------------------------------------
(***************************************************************************)
(* m_Concept says exactly whether a wrapper lives in the buffer that a     *)
(* destructor has still to be run for, except in a shell whose assignment  *)
(* threw or aliased its own model.  A moved-from shell is empty though the *)
(* wrapper moved from is still alive in it.                                *)
(***************************************************************************)
Whole ==
  \A s \in up \ unsafe : s \in concept <=> (live[s] # Null /\ s \notin remains)

(***************************************************************************)
(* Every wrapper is destroyed once before its buffer is reused or gone,    *)
(* but for what a move leaves behind; and none is destroyed twice or read  *)
(* when dead unless an assignment to a full shell threw or aliased it.     *)
(***************************************************************************)
DestroyedOnce == ~stray /\ (undefined => unsafe # {})

(***************************************************************************)
(* Shells are variables, see ShellValues: copies and moves are by value,   *)
(* and a constructor that throws breaks no shell but the one assigned to,  *)
(* and that one only if it had a model.                                    *)
(***************************************************************************)
Content(s) == IF s \notin up THEN << >>
              ELSE IF s \notin concept THEN <<Null, Null>>
              ELSE <<live[s]>>

Contents == [s \in Shell |-> Content(s)]

Values == INSTANCE ShellValues WITH
  Held <- {<<h>> : h \in Held},
  Absent <- << >>, Empty <- <<Null, Null>>, Broken <- <<Null>>,
  content <- Contents

ShellsAreVariables == Values!Spec

(***************************************************************************)
(* A call through a shell reaches the capability bound for the model the   *)
(* shell holds, and none where none is bound: the capability casts the     *)
(* shell back to its own model (stage_06_shell_invoke.md).                 *)
(***************************************************************************)
CallsOwnCapability ==
  last # Null => last.by = IF last.of \in Routed THEN last.of ELSE Null

(***************************************************************************)
(* "FromType<TModel>() depends only on the type TModel" (model_shell.hpp:  *)
(* 86): the token that was memoised is the one there is now.               *)
(***************************************************************************)
MemoCurrent == \A T \in Type : memo[T] # Null => memo[T] = FromType(T)
=============================================================================
