-------------------------- MODULE ModelShellProofs --------------------------
(***************************************************************************)
(* Proofs about ModelShell, for any shells, model types and values: the    *)
(* lifetimes of the wrappers, the refinement of ShellValues, and the calls *)
(* through a shell.                                                        *)
(***************************************************************************)
EXTENDS ModelShell, TLAPS

TypeOK ==
  /\ up \subseteq Shell /\ concept \subseteq up
  /\ remains \subseteq Shell /\ unsafe \subseteq Shell
  /\ live \in [Shell -> Held \cup {Null}]
  /\ stray \in BOOLEAN /\ undefined \in BOOLEAN

(* A wrapper that m_Concept does not own has been moved from, and a shell  *)
(* that has not come up, or has gone, has no wrapper at all.               *)
NothingLeft == \A s \in Shell \ concept : live[s] = Null \/ s \in remains
NothingBefore == \A s \in Shell \ up : live[s] = Null

ShellInv == TypeOK /\ Whole /\ DestroyedOnce /\ NothingLeft /\ NothingBefore

USE ShellAssumption

LEMMA HeldValue ==
  ASSUME NEW h \in Held, NEW v \in Value
  PROVE  [h EXCEPT !.value = v] \in Held
BY DEF Held

LEMMA InitShells == Init => ShellInv
BY DEF Init, ShellInv, TypeOK, Whole, DestroyedOnce, NothingLeft, NothingBefore

(* Where an assignment never failed, what is destroyed is alive; and no    *)
(* wrapper is built over one whose destructor has not run.                 *)
LEMMA Lifetimes ==
  ASSUME ShellInv, NEW s \in Shell
  PROVE  /\ Doomed(s) => s \in unsafe
         /\ ~Lost(s)
         /\ AfterDestroy(s) \in Held \cup {Null}
BY DEF ShellInv, TypeOK, Whole, NothingLeft, Doomed, Lost, AfterDestroy

LEMMA ReplaceShells ==
  ASSUME ShellInv, NEW s \in Shell, NEW h \in Held, Replace(s, h)
  PROVE  ShellInv'
BY Lifetimes DEF ShellInv, TypeOK, Whole, DestroyedOnce, NothingLeft, NothingBefore,
   Replace

LEMMA ThrowShells ==
  ASSUME ShellInv, NEW s \in Shell, ReplaceThrows(s)
  PROVE  ShellInv'
BY Lifetimes DEF ShellInv, TypeOK, Whole, DestroyedOnce, NothingLeft, NothingBefore,
   ReplaceThrows

LEMMA VacateShells ==
  ASSUME ShellInv, NEW s \in Shell, Vacate(s)
  PROVE  ShellInv'
BY Lifetimes DEF ShellInv, TypeOK, Whole, DestroyedOnce, NothingLeft, NothingBefore,
   Vacate, AfterDestroy

LEMMA ReadDeadShells ==
  ASSUME ShellInv, NEW t \in Shell, ReadDead(t)
  PROVE  ShellInv'
BY Lifetimes DEF ShellInv, TypeOK, Whole, DestroyedOnce, NothingLeft, NothingBefore,
   ReadDead

LEMMA OnDeadShells ==
  ASSUME ShellInv, NEW s \in Shell, OnDead(s)
  PROVE  ShellInv'
BY ReadDeadShells DEF OnDead

LEMMA StepShells == ShellInv /\ [Next]_vars => ShellInv'
<1> SUFFICES ASSUME ShellInv, [Next]_vars PROVE ShellInv'
  OBVIOUS
<1> USE DEF ShellInv, TypeOK, Whole, DestroyedOnce, NothingLeft, NothingBefore
<1>1. CASE UNCHANGED objects
  BY <1>1 DEF objects
<1>2. CASE Bootstrap
  BY <1>1, <1>2 DEF Bootstrap, OfCalls
<1>3. ASSUME NEW s \in Shell, Default(s)
      PROVE  ShellInv'
  BY <1>3 DEF Default
<1>4. ASSUME NEW s \in Shell, Destruct(s)
      PROVE  ShellInv'
  BY <1>4, Lifetimes DEF Destruct
<1>5. ASSUME NEW s \in Shell, SetAliased(s)
      PROVE  ShellInv'
  BY <1>5 DEF SetAliased
<1>6. ASSUME NEW s \in Shell, Invoke(s) \/ TryInvoke(s)
      PROVE  ShellInv'
  BY <1>1, <1>6, OnDeadShells DEF Invoke, TryInvoke, OfCalls
<1>7. ASSUME NEW s \in Shell, NEW h \in Held, Set(s, h)
      PROVE  ShellInv'
  BY <1>7, ReplaceShells, ThrowShells DEF Set
<1>8. ASSUME NEW s \in Shell, NEW v \in Value, Mutate(s, v), ~OnDead(s)
      PROVE  ShellInv'
  <2>1. live[s] \in Held
    BY <1>8 DEF Mutate
  <2>2. live' = [live EXCEPT ![s] = [live[s] EXCEPT !.value = v]]
    BY <1>8 DEF Mutate
  <2>3. [live[s] EXCEPT !.value = v] \in Held
    BY <2>1, HeldValue
  <2> QED BY <1>8, <2>2, <2>3 DEF Mutate
<1>9. ASSUME NEW s \in Shell, NEW t \in Shell, Copy(s, t)
      PROVE  ShellInv'
  BY <1>9, VacateShells, ReadDeadShells, ReplaceShells, ThrowShells DEF Copy
<1>10. ASSUME NEW s \in Shell, NEW t \in Shell, Move(s, t)
       PROVE  ShellInv'
  <2>1. CASE t \notin concept /\ Vacate(s)
    BY <2>1, VacateShells
  <2>2. CASE ReadDead(t)
    BY <2>2, ReadDeadShells
  <2>3. CASE t \in concept /\ live[t] # Null
    BY <1>10, <2>3, Lifetimes, VacateShells, ReadDeadShells, ZenonT(30) DEF Move
  <2> QED BY <1>10, <2>1, <2>2, <2>3 DEF Move
<1> QED
  BY <1>1, <1>2, <1>3, <1>4, <1>5, <1>6, <1>7, <1>8, <1>9, <1>10, OnDeadShells
  DEF Next, vars

THEOREM ShellInvariant == Spec => []ShellInv
BY InitShells, StepShells, PTL DEF Spec

(* m_Concept says exactly whether there is a wrapper to destroy, outside   *)
(* the shells that a failed or aliased assignment has hit.                 *)
THEOREM AlwaysWhole == Spec => []Whole
BY ShellInvariant, PTL DEF ShellInv

(* No wrapper loses its storage undestroyed, and none is destroyed or read *)
(* when dead unless an assignment to a full shell threw or aliased it.     *)
THEOREM AlwaysDestroyedOnce == Spec => []DestroyedOnce
BY ShellInvariant, PTL DEF ShellInv

-----------------------------------------------------------------------------
(***************************************************************************)
(* ShellValues is implemented.                                             *)
(***************************************************************************)

Full == {<<h>> : h \in Held}

(* The four kinds of content differ.                                       *)
LEMMA Kinds ==
  /\ << >> # <<Null, Null>> /\ << >> # <<Null>> /\ <<Null, Null>> # <<Null>>
  /\ \A h \in Held : <<h>> \notin {<< >>, <<Null>>, <<Null, Null>>}
OBVIOUS

(* A step that changes one shell alone.                                    *)
OnlyOf(s) == \A t \in Shell \ {s} : Content(t)' = Content(t)

LEMMA OneChange ==
  ASSUME NEW s \in Shell, OnlyOf(s)
  PROVE  Contents' = [Contents EXCEPT ![s] = Content(s)']
BY DEF Contents, OnlyOf

LEMMA ReplaceContent ==
  ASSUME ShellInv, NEW s \in Shell, NEW h \in Held, Replace(s, h)
  PROVE  Contents' = [Contents EXCEPT ![s] = <<h>>]
<1>1. OnlyOf(s) /\ Content(s)' = <<h>>
  BY DEF Replace, OnlyOf, Content, ShellInv, TypeOK
<1> QED BY <1>1, OneChange

LEMMA VacateContent ==
  ASSUME ShellInv, NEW s \in Shell, Vacate(s)
  PROVE  Contents' = [Contents EXCEPT ![s] = <<Null, Null>>]
<1>1. OnlyOf(s) /\ Content(s)' = <<Null, Null>>
  BY DEF Vacate, OnlyOf, Content, ShellInv, TypeOK
<1> QED BY <1>1, OneChange

(* A constructor that throws fails the shell, or leaves things as they are.*)
LEMMA ThrowContent ==
  ASSUME ShellInv, NEW s \in Shell, ReplaceThrows(s)
  PROVE  Values!Fail(s) \/ UNCHANGED Contents
<1>1. CASE s \in concept /\ live[s] # Null
  <2>1. OnlyOf(s) /\ Content(s)' = <<Null>> /\ Content(s) = <<live[s]>>
    BY <1>1 DEF ReplaceThrows, OnlyOf, Content, ShellInv, TypeOK
  <2>2. Contents' = [Contents EXCEPT ![s] = <<Null>>]
    BY <2>1, OneChange
  <2>3. Contents[s] \in Full
    BY <1>1, <2>1 DEF Contents, Full, ShellInv, TypeOK
  <2> QED BY <2>2, <2>3 DEF Values!Fail, Contents, Content, Full
<1>2. CASE ~(s \in concept /\ live[s] # Null)
  <2>1. OnlyOf(s) /\ Content(s)' = Content(s)
    BY <1>2 DEF ReplaceThrows, OnlyOf, Content, ShellInv, TypeOK
  <2>2. Contents' = Contents
    BY <2>1 DEF OnlyOf, Contents
  <2> QED BY <2>2
<1> QED BY <1>1, <1>2

LEMMA MoveContent ==
  ASSUME ShellInv, NEW s \in Shell, NEW t \in Shell, Move(s, t),
         t \in concept, live[t] # Null, ~ReadDead(t)
  PROVE  Contents' = [Contents EXCEPT ![s] = <<live[t]>>, ![t] = <<Null, Null>>]
<1>1. /\ Content(s)' = <<live[t]>>
      /\ Content(t)' = <<Null, Null>>
      /\ \A u \in Shell \ {s, t} : Content(u)' = Content(u)
  BY DEF Move, Content, ShellInv, TypeOK
<1> QED BY <1>1 DEF Move, Contents

LEMMA OnDeadContent ==
  ASSUME NEW s \in Shell, OnDead(s)
  PROVE  UNCHANGED Contents
BY DEF OnDead, ReadDead, Contents, Content

(* Every step is a step of ShellValues, or leaves all values as they are.  *)
LEMMA StepValues ==
  ASSUME ShellInv, [Next]_vars
  PROVE  Values!Next \/ UNCHANGED Contents
<1> USE DEF ShellInv, TypeOK
<1>1. ASSUME UNCHANGED objects
      PROVE  UNCHANGED Contents
  BY <1>1 DEF objects, Contents, Content
<1>2. CASE Bootstrap
  BY <1>1, <1>2 DEF Bootstrap, OfCalls
<1>3. ASSUME NEW s \in Shell, Default(s)
      PROVE  Values!Begin(s)
  <2>1. OnlyOf(s) /\ Content(s)' = <<Null, Null>> /\ Contents[s] = << >>
    BY <1>3 DEF Default, OnlyOf, Content, Contents
  <2> QED BY <2>1, OneChange DEF Values!Begin, Contents, Content
<1>4. ASSUME NEW s \in Shell, Destruct(s)
      PROVE  Values!End(s)
  <2>1. OnlyOf(s) /\ Content(s)' = << >> /\ Contents[s] # << >>
    BY <1>4 DEF Destruct, OnlyOf, Content, Contents
  <2> QED BY <2>1, OneChange DEF Values!End, Contents, Content
<1>5. ASSUME NEW s \in Shell, SetAliased(s)
      PROVE  UNCHANGED Contents
  BY <1>5 DEF SetAliased, Contents, Content
<1>6. ASSUME NEW s \in Shell, Invoke(s) \/ TryInvoke(s)
      PROVE  UNCHANGED Contents
  BY <1>1, <1>6, OnDeadContent DEF Invoke, TryInvoke, OfCalls
<1>7. ASSUME NEW s \in Shell, NEW h \in Held, Set(s, h)
      PROVE  Values!Put(s, <<h>>) \/ Values!Fail(s) \/ UNCHANGED Contents
  BY <1>7, ReplaceContent, ThrowContent DEF Set, Values!Put, Contents, Content
<1>8. ASSUME NEW s \in Shell, NEW v \in Value, Mutate(s, v), ~OnDead(s)
      PROVE  \E h \in Held : Values!Put(s, <<h>>)
  <2> DEFINE h == [live[s] EXCEPT !.value = v]
  <2>1. h \in Held
    BY <1>8, HeldValue DEF Mutate
  <2>2. live' = [live EXCEPT ![s] = h]
    BY <1>8 DEF Mutate
  <2> HIDE DEF h
  <2>3. OnlyOf(s) /\ Content(s)' = <<h>>
    BY <1>8, <2>2 DEF Mutate, OnlyOf, Content
  <2> QED BY <2>1, <2>3, OneChange DEF Values!Put, Contents, Content
<1>9. ASSUME NEW s \in Shell, NEW t \in Shell, Copy(s, t)
      PROVE  Values!Copy(s, t) \/ Values!Fail(s) \/ UNCHANGED Contents
  <2>1. CASE t \notin concept /\ Vacate(s)
    <3>1. Contents[t] = <<Null, Null>>
      BY <1>9, <2>1 DEF Copy, Contents, Content
    <3> QED
      BY <2>1, <3>1, VacateContent, Kinds
      DEF Values!Copy, Values!Usable, Contents, Content
  <2>2. CASE ReadDead(t)
    BY <2>2 DEF ReadDead, Contents, Content
  <2>3. CASE t \in concept /\ live[t] # Null /\ Replace(s, live[t])
    <3>1. Contents[t] = <<live[t]>> /\ live[t] \in Held
      BY <1>9, <2>3 DEF Copy, Contents, Content
    <3> QED
      BY <2>3, <3>1, ReplaceContent, Kinds
      DEF Values!Copy, Values!Usable, Contents, Content
  <2>4. CASE t \in concept /\ live[t] # Null /\ ReplaceThrows(s)
    BY <2>4, ThrowContent
  <2> QED BY <1>9, <2>1, <2>2, <2>3, <2>4 DEF Copy
<1>10. ASSUME NEW s \in Shell, NEW t \in Shell, Move(s, t)
       PROVE  Values!Move(s, t) \/ Values!Copy(s, t) \/ UNCHANGED Contents
  <2>1. CASE t \notin concept /\ Vacate(s)
    <3>1. Contents[t] = <<Null, Null>>
      BY <1>10, <2>1 DEF Move, Contents, Content
    <3> QED
      BY <2>1, <3>1, VacateContent, Kinds
      DEF Values!Copy, Values!Usable, Contents, Content
  <2>2. CASE ReadDead(t)
    BY <2>2 DEF ReadDead, Contents, Content
  <2>3. CASE t \in concept /\ live[t] # Null /\ ~ReadDead(t)
    <3>1. Contents[t] = <<live[t]>> /\ live[t] \in Held /\ s # t
      BY <1>10, <2>3 DEF Move, Contents, Content
    <3> QED
      BY <1>10, <2>3, <3>1, MoveContent, Kinds
      DEF Values!Move, Values!Usable, Contents, Content
  <2> QED BY <1>10, <2>1, <2>2, <2>3 DEF Move
<1>11. \A s \in Shell, h \in Held : Values!Put(s, <<h>>) => Values!Next
  BY DEF Values!Next
<1> QED
  BY <1>1, <1>2, <1>3, <1>4, <1>5, <1>6, <1>7, <1>8, <1>9, <1>10, <1>11,
     OnDeadContent
  DEF Next, vars, Values!Next

(***************************************************************************)
(* A shell is a variable: copies and moves are by value, and a constructor *)
(* that throws breaks no shell but a full one it was assigned to.          *)
(***************************************************************************)
THEOREM ImplementsValues == Spec => ShellsAreVariables
<1>1. Init => Values!Init
  BY DEF Init, Values!Init, Contents, Content
<1>2. ShellInv /\ [Next]_vars => [Values!Next]_Contents
  BY StepValues
<1> QED
  BY ShellInvariant, <1>1, <1>2, PTL DEF Spec, ShellsAreVariables, Values!Spec

-----------------------------------------------------------------------------
(***************************************************************************)
(* The calls through a shell.                                              *)
(***************************************************************************)

(* A type's token is its slot in the directory.                            *)
LEMMA Slots ==
  ASSUME NEW T \in Type
  PROVE  /\ FromType(T) \in DOMAIN Index
         /\ Index[FromType(T)] = T
<1> DEFINE I == {i \in 1 .. Len(Index) : Index[i] = T}
<1>1. Index \in Seq(Type) /\ Type = Range(Index) /\ IsInjective(Index)
  BY DEF Index
<1>2. PICK i \in 1 .. Len(Index) : Index[i] = T
  BY <1>1 DEF Range
<1>3. I = {i}
  BY <1>1, <1>2 DEF IsInjective
<1>4. FromType(T) = i
  BY <1>2, <1>3 DEF FromType, SelectInSeq, Min
<1> QED BY <1>1, <1>2, <1>4

(* Nothing is memoised before the directory is the host's, if the plugin   *)
(* makes no call before its Bootstrap; and last is the outcome of a call.  *)
MemoInv ==
  /\ memo \in [Type -> Nat \cup {Null}]
  /\ ~remote => memo = [T \in Type |-> Null]
  /\ MemoCurrent
  /\ CallsOwnCapability

LEMMA SlotsStay ==
  ASSUME UNCHANGED remote
  PROVE  \A T \in Type : FromType(T)' = FromType(T)
<1>1. Index' = Index
  BY DEF Index
<1> QED BY <1>1 DEF FromType, SelectInSeq, Min

LEMMA InitMemo == Init => MemoInv
BY DEF Init, MemoInv, MemoCurrent, CallsOwnCapability

LEMMA TokenIsSlot ==
  ASSUME MemoInv, NEW T \in Type
  PROVE  /\ Token(T) = FromType(T) /\ Token(T) \in Nat
         /\ Find(Token(T)) = IF T \in Routed THEN T ELSE Null
<1>1. Token(T) = FromType(T)
  BY DEF Token, MemoInv, MemoCurrent
<1>2. DOMAIN Index = 1 .. Len(Index)
  BY DEF Index
<1> QED BY <1>1, <1>2, Slots DEF Find

LEMMA StepMemo ==
  ASSUME TypeOK, MemoInv, EarlyUse = FALSE, [Next]_vars
  PROVE  MemoInv'
<1>1. CASE UNCHANGED <<remote, memo, last>>
  BY <1>1, SlotsStay DEF MemoInv, MemoCurrent, CallsOwnCapability
<1>2. CASE Bootstrap
  BY <1>2 DEF Bootstrap, MemoInv, MemoCurrent, CallsOwnCapability
<1>3. ASSUME NEW T \in Type, remote, UNCHANGED remote,
             memo' = [memo EXCEPT ![T] = Token(T)],
             last' = [of |-> T, by |-> Find(Token(T))]
      PROVE  MemoInv'
  <2>1. MemoCurrent'
    BY <1>3, SlotsStay, TokenIsSlot DEF MemoCurrent, MemoInv
  <2>2. CallsOwnCapability'
    BY <1>3, TokenIsSlot DEF CallsOwnCapability
  <2> QED BY <1>3, <2>1, <2>2, TokenIsSlot DEF MemoInv
<1>4. ASSUME NEW s \in Shell, Invoke(s), ~OnDead(s)
      PROVE  MemoInv'
  <2>1. live[s].type \in Type
    BY <1>4 DEF Invoke, TypeOK, Held
  <2> QED BY <1>3, <1>4, <2>1 DEF Invoke
<1>5. ASSUME NEW s \in Shell, TryInvoke(s), ~OnDead(s)
      PROVE  MemoInv'
  <2>1. CASE s \notin concept
    <3>1. UNCHANGED <<remote, memo>> /\ last' = [of |-> Null, by |-> Null]
      BY <1>5, <2>1 DEF TryInvoke
    <3>2. CallsOwnCapability'
      BY <3>1 DEF CallsOwnCapability
    <3> QED BY <3>1, <3>2, SlotsStay DEF MemoInv, MemoCurrent
  <2>2. CASE s \in concept
    <3>1. live[s].type \in Type
      BY <1>5, <2>2 DEF TryInvoke, Doomed, TypeOK, Held
    <3> QED BY <1>3, <1>5, <2>2, <3>1 DEF TryInvoke
  <2> QED BY <2>1, <2>2
<1>6. ASSUME NEW s \in Shell,
             \/ Default(s) \/ Destruct(s) \/ SetAliased(s) \/ OnDead(s)
             \/ \E h \in Held : Set(s, h)
             \/ \E v \in Value : Mutate(s, v)
             \/ \E t \in Shell : Copy(s, t) \/ Move(s, t)
      PROVE  UNCHANGED <<remote, memo, last>>
  BY <1>6
  DEF Default, Destruct, SetAliased, Set, Mutate, OnDead, Copy, Move, OfObjects
<1> QED BY <1>1, <1>2, <1>4, <1>5, <1>6 DEF Next, vars

LEMMA CallInvariant ==
  ASSUME EarlyUse = FALSE
  PROVE  Spec => []MemoInv
<1>1. Spec => []TypeOK
  BY ShellInvariant, PTL DEF ShellInv
<1>2. TypeOK /\ MemoInv /\ [Next]_vars => MemoInv'
  BY StepMemo
<1> QED BY <1>1, <1>2, InitMemo, PTL DEF Spec

(***************************************************************************)
(* A plugin that makes no call through a shell before its Bootstrap always *)
(* reaches the capability of the model in the shell, whatever slots its    *)
(* models had in its own directory.  With a call before, it may not: the   *)
(* token memoised then is one of the plugin's own directory.               *)
(***************************************************************************)
THEOREM AlwaysOwnCapability ==
  ASSUME EarlyUse = FALSE
  PROVE  Spec => []CallsOwnCapability
BY CallInvariant, PTL DEF MemoInv
=============================================================================
