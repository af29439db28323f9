-------------------------- MODULE EnvironmentProofs --------------------------
(***************************************************************************)
(* Proofs about Environment: commands get the environment the variables    *)
(* define, as long as none of the Risks is taken.                          *)
(***************************************************************************)
EXTENDS Environment, SequenceTheorems, TLAPS

\* The flag of a variable, and the one kept for it, tells whether its value is a
\* closure over the lexical variable.
FlagsRight == \A n \in Names : vars[n].bindings = hasbindings(vars[n].defn)
SavedRight == \A i \in 1..Len(pushlist) :
                 pushlist[i].bindings = hasbindings(pushlist[i].defn)

\* No string is made of a variable that mkenv leaves out for good.
InternalPlain == \A n \in Names : vars[n].internal => vars[n].env = NoString

\* The dynamic bindings below a running settor are there until it returns, the
\* one it restores among them.
BasesRight ==
    /\ \A i \in 1..Len(calls) : calls[i].base <= Len(pushlist)
    /\ \A i, j \in 1..Len(calls) :
          i < j => /\ calls[i].base <= calls[j].base
                   /\ calls[j].op = "pop" => calls[i].base # calls[j].base
    /\ \A i \in 1..Len(calls) :
          calls[i].op = "pop" => /\ calls[i].base # 0
                                 /\ pushlist[calls[i].base].name = calls[i].name

\* isdirty stays set while the settor of an exported dynamic binding runs.
Announced ==
    \A i \in 1..Len(calls) :
       calls[i].op \in {"push", "pop"} /\ calls[i].name \notin noexport => isdirty

\* A clean environment is the one the variables define.
Clean == ~isdirty /\ ~rebound => env = Fresh

Shape  == TypeOK /\ BasesRight
Flags == FlagsRight /\ SavedRight /\ InternalPlain
IInv   == Shape /\ Flags /\ Announced /\ StringsCurrent /\ Clean
-----------------------------------------------------------------------------
(***************************************************************************)
(* Sequences                                                               *)
(***************************************************************************)

\* A sequence without its last element.
LEMMA FrontProperties ==
    ASSUME NEW S, NEW s \in Seq(S), s # <<>>
    PROVE  /\ Len(s) \in Nat \ {0} /\ DOMAIN s = 1..Len(s)
           /\ Last(s) \in S
           /\ Front(s) \in Seq(S) /\ Len(Front(s)) = Len(s) - 1
           /\ DOMAIN Front(s) = 1..(Len(s) - 1)
           /\ \A i \in 1..(Len(s) - 1) : Front(s)[i] = s[i]
<1>1. Len(s) \in Nat \ {0} /\ DOMAIN s = 1..Len(s)
  BY EmptySeq, LenProperties
<1>2. \A i \in 1..(Len(s) - 1) : s[i] \in S
  BY <1>1, ElementOfSeq
<1>3. /\ SubSeq(s, 1, Len(s) - 1) \in Seq(S)
      /\ Len(SubSeq(s, 1, Len(s) - 1)) = Len(s) - 1
      /\ \A i \in 1..(Len(s) - 1) : SubSeq(s, 1, Len(s) - 1)[i] = s[i]
  BY <1>1, <1>2, SubSeqProperties
<1>4. DOMAIN Front(s) = 1..(Len(s) - 1)
  BY <1>3, LenProperties DEF Front
<1> QED BY <1>1, <1>3, <1>4, ElementOfSeq DEF Front, Last

\* A sequence with one more element.
LEMMA AppendDomain ==
    ASSUME NEW S, NEW s \in Seq(S), NEW e \in S
    PROVE  /\ Append(s, e) \in Seq(S) /\ Len(s) \in Nat
           /\ DOMAIN s = 1..Len(s) /\ DOMAIN Append(s, e) = 1..(Len(s) + 1)
           /\ Len(Append(s, e)) = Len(s) + 1
           /\ \A i \in 1..Len(s) : Append(s, e)[i] = s[i]
           /\ Append(s, e)[Len(s) + 1] = e
BY AppendProperties, LenProperties
-----------------------------------------------------------------------------
(***************************************************************************)
(* Types and flags                                                         *)
(***************************************************************************)

\* The values an operation gives to a variable.
LEMMA NoVarTypes ==
    /\ NoVar \in Var /\ NoVar.env = NoString /\ NoVar.defn = Nil
    /\ NoVar.bindings = hasbindings(Nil) /\ NoVar.internal = FALSE
<1>1. NoVar \in Var BY DEF NoVar, Var, Values
<1>2. hasbindings(Nil) = FALSE BY ValuesAssumption DEF hasbindings
<1> QED BY <1>1, <1>2 DEF NoVar

\* A value that an assignment gives, with its flags.
LEMMA ValueTypes ==
    ASSUME NEW n \in Names, NEW d \in Values
    PROVE  /\ Value(n, d) \in Var /\ Value(n, d).env = NoString
           /\ Value(n, d).bindings = hasbindings(d) /\ Value(n, d).defn = d
           /\ d = Nil => Value(n, d) = NoVar
<1>1. hasbindings(d) \in BOOLEAN BY DEF hasbindings
<1>2. d = Nil => hasbindings(d) = FALSE BY ValuesAssumption DEF hasbindings
<1> QED BY <1>1, <1>2 DEF NoVar, Var, Value

\* A value that varpop gives back, with its flags.
LEMMA RestoredTypes ==
    ASSUME NEW p \in Push, NEW d \in Values
    PROVE  /\ Restored(p, d) \in Var /\ Restored(p, d).env = NoString
           /\ Restored(p, d).defn = d
           /\ hasbindings(d) = p.bindings => Restored(p, d).bindings = hasbindings(d)
           /\ d = Nil => Restored(p, d) = NoVar
<1>1. CASE d = Nil BY <1>1, NoVarTypes DEF Restored
<1>2. CASE d # Nil BY <1>2 DEF Restored, Push, Var
<1> QED BY <1>1, <1>2

\* What str makes of a value.
LEMMA StringType ==
    ASSUME bound \in Words
    PROVE  \A d \in Values : String(d) \in Strings
BY DEF String, Strings

\* A variable that gets a value.
LEMMA AssignTypes ==
    ASSUME TypeOK, NEW n \in Names, NEW v \in Var, v.defn = Nil => v = NoVar,
           vars' = [vars EXCEPT ![n] = v]
    PROVE  /\ vars' \in [Names -> Var]
           /\ \A m \in Names : vars'[m].defn = Nil => vars'[m] = NoVar
BY DEF TypeOK

\* The settors that run, with one more.
LEMMA CallTypes ==
    ASSUME TypeOK, NEW op \in Ops, NEW n \in Names, CallSettor(op, n)
    PROVE  calls' \in Seq(Call)
<1>1. Len(pushlist) \in Nat BY LenProperties DEF TypeOK
<1>2. [op |-> op, name |-> n, base |-> Len(pushlist)] \in Call BY <1>1 DEF Call
<1> QED BY <1>2, AppendProperties DEF CallSettor, TypeOK

\* The settors that run, with one less.
LEMMA ReturnTypes ==
    ASSUME TypeOK, Running, Return
    PROVE  calls' \in Seq(Call) /\ Last(calls) \in Call /\ Last(calls).name \in Names
<1>1. calls' \in Seq(Call) /\ Last(calls) \in Call
  BY FrontProperties DEF TypeOK, Running, Return
<1> QED BY <1>1 DEF Call

\* The variables and the bindings, with a new binding.
LEMMA BindTypes ==
    ASSUME TypeOK, NEW n \in Names, NEW d \in Values, Bind(n, d)
    PROVE  /\ vars' \in [Names -> Var] /\ pushlist' \in Seq(Push)
           /\ \A m \in Names : vars'[m].defn = Nil => vars'[m] = NoVar
<1>1. vars[n] \in Var BY DEF TypeOK
<1>2. [name |-> n, defn |-> vars[n].defn, bindings |-> vars[n].bindings,
       internal |-> vars[n].internal] \in Push
  BY <1>1 DEF Var, Push
<1>3. pushlist' \in Seq(Push)
  BY <1>2, AppendProperties DEF Bind, TypeOK
<1>4. Value(n, d) \in Var /\ (Value(n, d).defn = Nil => Value(n, d) = NoVar)
  BY ValueTypes
<1> QED BY <1>3, <1>4, AssignTypes DEF Bind

\* The variables and the bindings, without the innermost binding.
LEMMA RestoreTypes ==
    ASSUME TypeOK, pushlist # <<>>, NEW d \in Values, Restore(d)
    PROVE  /\ vars' \in [Names -> Var] /\ pushlist' \in Seq(Push)
           /\ \A m \in Names : vars'[m].defn = Nil => vars'[m] = NoVar
<1>1. Last(pushlist) \in Push /\ Front(pushlist) \in Seq(Push)
  BY FrontProperties DEF TypeOK
<1>2. Last(pushlist).name \in Names BY <1>1 DEF Push
<1>3. /\ Restored(Last(pushlist), d) \in Var
      /\ Restored(Last(pushlist), d).defn = Nil => Restored(Last(pushlist), d) = NoVar
  BY <1>1, RestoredTypes
<1> QED BY <1>1, <1>2, <1>3, AssignTypes DEF Restore

\* The innermost binding is one of those a settor, or the program, may pop.
LEMMA BaseBelow ==
    ASSUME TypeOK
    PROVE  /\ Len(pushlist) \in Nat /\ Base \in Nat
           /\ Len(pushlist) > Base => pushlist # <<>>
<1>1. Len(pushlist) \in Nat BY LenProperties DEF TypeOK
<1>2. Base \in Nat
  <2>1. CASE Running
    <3>1. Last(calls) \in Call BY <2>1, FrontProperties DEF TypeOK, Running
    <3> QED BY <2>1, <3>1 DEF Base, Call
  <2>2. CASE ~Running BY <2>2 DEF Base
  <2> QED BY <2>1, <2>2
<1> QED BY <1>1, <1>2, EmptySeq

\* The initial types.
LEMMA InitType == Init => TypeOK
<1> SUFFICES ASSUME Init PROVE TypeOK
  OBVIOUS
<1>1. PICK hidden \in SUBSET Names, d \in [Names -> Values] :
         vars = [n \in Names |->
                   IF d[n] = Nil THEN NoVar
                   ELSE [defn |-> d[n], bindings |-> hasbindings(d[n]),
                         internal |-> n \in hidden, env |-> NoString]]
  BY DEF Init
<1>2. vars \in [Names -> Var] /\ \A n \in Names : vars[n].defn = Nil => vars[n] = NoVar
  BY <1>1, NoVarTypes DEF Var, hasbindings
<1> QED BY <1>2, EmptySeq DEF Init, TypeOK

\* The initial flags and strings.
LEMMA InitInvariant == Init => IInv
<1> SUFFICES ASSUME Init PROVE IInv
  OBVIOUS
<1>1. TypeOK BY InitType
<1>2. calls = <<>> /\ pushlist = <<>> /\ isdirty = TRUE BY DEF Init
<1>3. Len(calls) = 0 /\ Len(pushlist) = 0 BY <1>2, EmptySeq
<1>4. PICK hidden \in SUBSET Names, d \in [Names -> Values] :
         vars = [n \in Names |->
                   IF d[n] = Nil THEN NoVar
                   ELSE [defn |-> d[n], bindings |-> hasbindings(d[n]),
                         internal |-> n \in hidden, env |-> NoString]]
  BY DEF Init
<1>5. \A n \in Names : /\ vars[n].env = NoString
                       /\ vars[n].bindings = hasbindings(vars[n].defn)
  BY <1>4, NoVarTypes
<1>6. Shape /\ Flags
  BY <1>1, <1>3, <1>5
     DEF Shape, BasesRight, Flags, FlagsRight, SavedRight, InternalPlain
<1>7. Announced /\ StringsCurrent /\ Clean
  BY <1>2, <1>5 DEF Announced, StringsCurrent, Clean
<1> QED BY <1>6, <1>7 DEF IInv
-----------------------------------------------------------------------------
(***************************************************************************)
(* Types and bases: whatever the Risks                                     *)
(***************************************************************************)

\* A settor that restores a binding restores one that is there.
LEMMA PopReturnBinding ==
    ASSUME Shape, Calling("pop")
    PROVE  /\ pushlist # <<>> /\ Len(pushlist) \in Nat \ {0}
           /\ Len(calls) \in Nat \ {0} /\ Last(calls) = calls[Len(calls)]
           /\ Last(calls).base = Len(pushlist)
           /\ Last(pushlist).name = Last(calls).name
<1>1. Len(calls) \in Nat \ {0} /\ Last(calls) = calls[Len(calls)]
  BY FrontProperties DEF Shape, TypeOK, Calling, Running, Last
<1>2. Last(calls).base = Len(pushlist) /\ Last(calls).op = "pop"
  BY DEF Calling, Base, Running
<1>3. Last(calls).base # 0 /\ pushlist[Last(calls).base].name = Last(calls).name
  BY <1>1, <1>2 DEF Shape, BasesRight
<1>4. Len(pushlist) \in Nat BY BaseBelow DEF Shape
<1> QED BY <1>1, <1>2, <1>3, <1>4, EmptySeq DEF Last

\* mkenv makes strings.
LEMMA MkenvTypes ==
    ASSUME TypeOK, mkenv
    PROVE  /\ vars' \in [Names -> Var]
           /\ \A n \in Names : /\ vars'[n].defn = vars[n].defn
                                /\ vars'[n].bindings = vars[n].bindings
                                /\ vars'[n].internal = vars[n].internal
<1>1. \A n \in Names : /\ vars[n] \in Var
                       /\ Render(n) \in Strings \cup {NoString}
  <2> SUFFICES ASSUME NEW n \in Names
               PROVE  vars[n] \in Var /\ Render(n) \in Strings \cup {NoString}
    OBVIOUS
  <2>1. vars[n] \in Var BY DEF TypeOK
  <2>2. vars[n].defn \in Values /\ vars[n].env \in Strings \cup {NoString}
    BY <2>1 DEF Var
  <2>3. String(vars[n].defn) \in Strings BY <2>2, StringType DEF TypeOK
  <2> QED BY <2>1, <2>2, <2>3 DEF Render
<1>2. \A n \in Names : [vars[n] EXCEPT !.env = Render(n)] \in Var
  BY <1>1 DEF Var
<1>3. vars' = [n \in Names |-> IF (isdirty \/ rebound) /\ n \in Exported
                                THEN [vars[n] EXCEPT !.env = Render(n)]
                                ELSE vars[n]]
  BY DEF mkenv
<1>4. vars' \in [Names -> Var] BY <1>1, <1>2, <1>3
<1>5. \A n \in Names : /\ vars'[n].defn = vars[n].defn
                       /\ vars'[n].bindings = vars[n].bindings
                       /\ vars'[n].internal = vars[n].internal
  BY <1>1, <1>3 DEF Var
<1> QED BY <1>4, <1>5

\* mkenv changes only variables that have a value.
LEMMA MkenvChanges ==
    ASSUME TypeOK, mkenv, NEW n \in Names
    PROVE  /\ vars'[n].defn = vars[n].defn
           /\ vars'[n] = vars[n] \/ vars[n].defn # Nil
<1>1. vars' = [m \in Names |-> IF (isdirty \/ rebound) /\ m \in Exported
                                THEN [vars[m] EXCEPT !.env = Render(m)]
                                ELSE vars[m]]
  BY DEF mkenv
<1>2. CASE n \notin Exported BY <1>1, <1>2
<1>3. CASE n \in Exported BY <1>3, MkenvTypes DEF Exported
<1> QED BY <1>2, <1>3

\* A collection drops strings.
LEMMA GcTypes ==
    ASSUME TypeOK, gc
    PROVE  /\ vars' \in [Names -> Var]
           /\ \A n \in Names : /\ vars'[n].defn = vars[n].defn
                                /\ vars'[n].bindings = vars[n].bindings
                                /\ vars'[n].internal = vars[n].internal
                                /\ \/ vars'[n] = vars[n]
                                   \/ /\ vars[n].bindings /\ rebound
                                      /\ vars'[n].env = NoString
           /\ \A n \in Names : vars'[n].defn = Nil => vars'[n] = NoVar
<1>1. \A n \in Names : vars[n] \in Var BY DEF TypeOK
<1>2. vars' = [n \in Names |-> IF vars[n].bindings /\ rebound
                                THEN [vars[n] EXCEPT !.env = NoString]
                                ELSE vars[n]]
  BY DEF gc
<1>3. \A n \in Names : [vars[n] EXCEPT !.env = NoString] \in Var
  BY <1>1 DEF Var
<1>4. vars' \in [Names -> Var] BY <1>1, <1>2, <1>3
<1>5. \A n \in Names : /\ vars'[n].defn = vars[n].defn
                       /\ vars'[n].bindings = vars[n].bindings
                       /\ vars'[n].internal = vars[n].internal
                       /\ \/ vars'[n] = vars[n]
                          \/ /\ vars[n].bindings /\ rebound
                             /\ vars'[n].env = NoString
  BY <1>1, <1>2 DEF Var
<1>6. \A n \in Names : vars[n].defn = Nil => vars[n].bindings = FALSE
  BY NoVarTypes DEF TypeOK, NoVar
<1>7. \A n \in Names : vars'[n].defn = Nil => vars'[n] = NoVar
  BY <1>5, <1>6 DEF TypeOK
<1> QED BY <1>4, <1>5, <1>7

\* Every step keeps the types.
LEMMA TypeStep == Shape /\ [Next]_allvars => TypeOK'
<1> SUFFICES ASSUME Shape, [Next]_allvars PROVE TypeOK'
  OBVIOUS
<1>0. TypeOK BY DEF Shape
<1>1. ASSUME NEW w \in Words, DefineLexical(w) PROVE TypeOK'
  BY <1>0, <1>1 DEF DefineLexical, TypeOK
<1>2. ASSUME NEW n \in Names, DefineCall(n) PROVE TypeOK'
  <2>1. calls' \in Seq(Call) BY <1>0, <1>2, CallTypes DEF DefineCall, Ops
  <2> QED BY <1>0, <1>2, <2>1 DEF DefineCall, TypeOK, caches
<1>3. ASSUME NEW n \in Names, NEW d \in Values, Define(n, d) PROVE TypeOK'
  <2>1. Value(n, d) \in Var /\ (Value(n, d).defn = Nil => Value(n, d) = NoVar)
    BY ValueTypes
  <2>2. vars' \in [Names -> Var] /\ \A m \in Names : vars'[m].defn = Nil => vars'[m] = NoVar
    BY <1>0, <1>3, <2>1, AssignTypes DEF Define, Assign
  <2> QED BY <1>0, <1>3, <2>2 DEF Define, Assign, TypeOK, isexported
<1>4. ASSUME NEW d \in Values, DefineReturn(d) PROVE TypeOK'
  <2>1. calls' \in Seq(Call) /\ Last(calls).name \in Names
    BY <1>0, <1>4, ReturnTypes DEF DefineReturn, Calling
  <2>2. /\ Value(Last(calls).name, d) \in Var
        /\ Value(Last(calls).name, d).defn = Nil => Value(Last(calls).name, d) = NoVar
    BY <2>1, ValueTypes
  <2>3. vars' \in [Names -> Var] /\ \A m \in Names : vars'[m].defn = Nil => vars'[m] = NoVar
    BY <1>0, <1>4, <2>1, <2>2, AssignTypes DEF DefineReturn, Assign
  <2> QED BY <1>0, <1>4, <2>1, <2>3 DEF DefineReturn, Assign, TypeOK, isexported
<1>5. ASSUME NEW n \in Names, PushCall(n) PROVE TypeOK'
  <2>1. calls' \in Seq(Call) BY <1>0, <1>5, CallTypes DEF PushCall, Ops
  <2> QED BY <1>0, <1>5, <2>1 DEF PushCall, TypeOK, isexported
<1>6. ASSUME NEW n \in Names, NEW d \in Values, varpush(n, d) PROVE TypeOK'
  BY <1>0, <1>6, BindTypes DEF varpush, TypeOK, isexported
<1>7. ASSUME NEW d \in Values, PushReturn(d) PROVE TypeOK'
  <2>1. calls' \in Seq(Call) /\ Last(calls).name \in Names
    BY <1>0, <1>7, ReturnTypes DEF PushReturn, Calling
  <2> QED BY <1>0, <1>7, <2>1, BindTypes DEF PushReturn, TypeOK, caches
<1>8. ASSUME NEW d \in Values, PopReturn(d) PROVE TypeOK'
  <2>1. calls' \in Seq(Call)
    BY <1>0, <1>8, ReturnTypes DEF PopReturn, Calling
  <2>2. pushlist # <<>> BY <1>8, PopReturnBinding DEF PopReturn
  <2> QED BY <1>0, <1>8, <2>1, <2>2, RestoreTypes DEF PopReturn, TypeOK, caches
<1>9. ASSUME varpop PROVE TypeOK'
  <2>1. pushlist # <<>> BY <1>0, <1>9, BaseBelow DEF varpop
  <2>2. Last(pushlist) \in Push BY <1>0, <2>1, FrontProperties DEF TypeOK
  <2>3. Last(pushlist).defn \in Values BY <2>2 DEF Push
  <2> QED BY <1>0, <1>9, <2>1, <2>3, RestoreTypes DEF varpop, PopDirty, TypeOK, isexported
<1>10. ASSUME PopCall PROVE TypeOK'
  <2>1. pushlist # <<>> BY <1>0, <1>10, BaseBelow DEF PopCall
  <2>2. Last(pushlist) \in Push BY <1>0, <2>1, FrontProperties DEF TypeOK
  <2>4. Last(pushlist).name \in Names BY <2>2 DEF Push
  <2>3. calls' \in Seq(Call) BY <1>0, <1>10, <2>4, CallTypes DEF PopCall, Ops
  <2> QED BY <1>0, <1>10, <2>3 DEF PopCall, PopDirty, TypeOK, isexported
<1>11. ASSUME SettorThrows PROVE TypeOK'
  <2>1. calls' \in Seq(Call) BY <1>0, <1>11, ReturnTypes DEF SettorThrows, Calling
  <2> QED BY <1>0, <1>11, <2>1 DEF SettorThrows, TypeOK, caches
<1>12. ASSUME NEW S \in SUBSET Names, setnoexport(S) PROVE TypeOK'
  BY <1>0, <1>12 DEF setnoexport, TypeOK
<1>13. ASSUME mkenv PROVE TypeOK'
  <2>1. \A n \in Names : vars'[n].defn = Nil => vars'[n] = NoVar
    BY <1>0, <1>13, MkenvChanges DEF TypeOK
  <2> QED BY <1>0, <1>13, <2>1, MkenvTypes DEF mkenv, TypeOK
<1>14. ASSUME gc PROVE TypeOK'
  BY <1>0, <1>14, GcTypes DEF gc, TypeOK, caches
<1>15. CASE UNCHANGED allvars
  BY <1>0, <1>15 DEF TypeOK, allvars, caches
<1> QED
  BY <1>1, <1>2, <1>3, <1>4, <1>5, <1>6, <1>7, <1>8, <1>9, <1>10, <1>11, <1>12,
     <1>13, <1>14, <1>15 DEF Next, Definition, Local

\* The bases of the running settors, in order.
LEMMA Bases ==
    ASSUME Shape
    PROVE  /\ Len(pushlist) \in Nat /\ Len(calls) \in Nat
           /\ Base \in Nat /\ Base <= Len(pushlist)
           /\ \A i \in 1..Len(calls) : calls[i] \in Call /\ calls[i].base \in Nat
           /\ \A i \in 1..Len(calls) : calls[i].base <= Base
           /\ Running => /\ calls # <<>> /\ Len(calls) # 0
                         /\ Last(calls) = calls[Len(calls)] /\ Base = calls[Len(calls)].base
<1>1. Len(pushlist) \in Nat /\ Base \in Nat BY BaseBelow DEF Shape
<1>2. Len(calls) \in Nat BY LenProperties DEF Shape, TypeOK
<1>3. \A i \in 1..Len(calls) : calls[i] \in Call
  BY <1>2, ElementOfSeq DEF Shape, TypeOK
<1>4. \A i \in 1..Len(calls) : calls[i].base \in Nat BY <1>3 DEF Call
<1>5. Running => /\ calls # <<>> /\ Len(calls) # 0
                 /\ Last(calls) = calls[Len(calls)] /\ Base = calls[Len(calls)].base
  BY EmptySeq DEF Running, Base, Last, Shape, TypeOK
<1>6. ~Running => Len(calls) = 0 /\ Base = 0
  BY EmptySeq DEF Running, Base, Shape, TypeOK
<1>7. \A i \in 1..Len(calls) : calls[i].base <= Base
  <2> SUFFICES ASSUME NEW i \in 1..Len(calls) PROVE calls[i].base <= Base
    OBVIOUS
  <2>1. Running BY <1>2, <1>6
  <2>2. CASE i = Len(calls) BY <1>1, <1>4, <1>5, <2>1, <2>2
  <2>3. CASE i < Len(calls)
    BY <1>2, <1>5, <2>1, <2>3 DEF Shape, BasesRight
  <2> QED BY <1>2, <2>2, <2>3
<1>8. Base <= Len(pushlist)
  BY <1>1, <1>2, <1>5, <1>6 DEF Shape, BasesRight
<1> QED BY <1>1, <1>2, <1>3, <1>4, <1>5, <1>7, <1>8

\* A settor is called.
LEMMA CallBases ==
    ASSUME Shape, NEW op \in Ops, NEW n \in Names, CallSettor(op, n), UNCHANGED pushlist,
           op = "pop" => Len(pushlist) > Base /\ pushlist[Len(pushlist)].name = n
    PROVE  BasesRight'
<1> DEFINE c == [op |-> op, name |-> n, base |-> Len(pushlist)]
<1>1. c \in Call BY Bases DEF Call
<1>2. /\ Len(calls') = Len(calls) + 1 /\ calls'[Len(calls) + 1] = c
      /\ \A i \in 1..Len(calls) : calls'[i] = calls[i]
  BY <1>1, AppendDomain DEF CallSettor, Shape, TypeOK
<1>3. c.op = op /\ c.name = n /\ c.base = Len(pushlist)
  OBVIOUS
<1> HIDE DEF c
<1>4. \A i \in 1..Len(calls') : i \in 1..Len(calls) \/ i = Len(calls) + 1
  BY <1>2, Bases
<1>5. \A i \in 1..Len(calls') : calls'[i].base <= Len(pushlist')
  BY <1>2, <1>3, <1>4, Bases DEF Shape, BasesRight
<1>6. \A i, j \in 1..Len(calls') :
          i < j => /\ calls'[i].base <= calls'[j].base
                   /\ calls'[j].op = "pop" => calls'[i].base # calls'[j].base
  <2> SUFFICES ASSUME NEW i \in 1..Len(calls'), NEW j \in 1..Len(calls'), i < j
               PROVE  /\ calls'[i].base <= calls'[j].base
                      /\ calls'[j].op = "pop" => calls'[i].base # calls'[j].base
    OBVIOUS
  <2>1. i \in 1..Len(calls) BY <1>2, Bases
  <2>2. CASE j \in 1..Len(calls) BY <1>2, <2>1, <2>2 DEF Shape, BasesRight
  <2>3. CASE j = Len(calls) + 1 BY <1>2, <1>3, <2>1, <2>3, Bases
  <2> QED BY <1>4, <2>2, <2>3
<1>7. \A i \in 1..Len(calls') :
          calls'[i].op = "pop" => /\ calls'[i].base # 0
                                  /\ pushlist'[calls'[i].base].name = calls'[i].name
  BY <1>2, <1>3, <1>4, Bases DEF Shape, BasesRight
<1> QED BY <1>5, <1>6, <1>7 DEF BasesRight

\* The bindings below the bases of the settors that still run stay.
KeptBelow(k) ==
    \A i \in 1..k : /\ calls[i].base <= Len(pushlist')
                    /\ calls[i].op = "pop" =>
                          pushlist'[calls[i].base].name = pushlist[calls[i].base].name

\* A settor returns.
LEMMA ReturnBases ==
    ASSUME Shape, Running, Return, KeptBelow(Len(calls) - 1)
    PROVE  BasesRight'
<1>1. /\ Len(calls') = Len(calls) - 1
      /\ \A i \in 1..(Len(calls) - 1) : calls'[i] = calls[i]
  BY FrontProperties DEF Return, Running, Shape, TypeOK
<1>2. \A i \in 1..Len(calls') : i \in 1..Len(calls) /\ calls'[i] = calls[i]
  BY <1>1, Bases
<1>3. \A i \in 1..Len(calls') : calls'[i].base <= Len(pushlist')
  BY <1>1, <1>2 DEF KeptBelow
<1>4. \A i, j \in 1..Len(calls') :
          i < j => /\ calls'[i].base <= calls'[j].base
                   /\ calls'[j].op = "pop" => calls'[i].base # calls'[j].base
  BY <1>2 DEF Shape, BasesRight
<1>5. \A i \in 1..Len(calls') :
          calls'[i].op = "pop" => /\ calls'[i].base # 0
                                  /\ pushlist'[calls'[i].base].name = calls'[i].name
  BY <1>1, <1>2 DEF Shape, BasesRight, KeptBelow
<1> QED BY <1>3, <1>4, <1>5 DEF BasesRight

\* An operation without a settor.
LEMMA KeepBases ==
    ASSUME Shape, UNCHANGED calls, KeptBelow(Len(calls))
    PROVE  BasesRight'
BY DEF BasesRight, Shape, KeptBelow

\* One binding more, or the innermost one less.
LEMMA BindKeeps ==
    ASSUME Shape, NEW n \in Names, NEW d \in Values, Bind(n, d)
    PROVE  KeptBelow(Len(calls)) /\ KeptBelow(Len(calls) - 1)
<1>1. vars[n] \in Var BY DEF Shape, TypeOK
<1>2. [name |-> n, defn |-> vars[n].defn, bindings |-> vars[n].bindings,
       internal |-> vars[n].internal] \in Push
  BY <1>1 DEF Var, Push
<1>3. /\ Len(pushlist') = Len(pushlist) + 1
      /\ \A i \in 1..Len(pushlist) : pushlist'[i] = pushlist[i]
  BY <1>2, AppendDomain DEF Bind, Shape, TypeOK
<1>4. \A i \in 1..Len(calls) : /\ calls[i].base <= Len(pushlist')
                               /\ calls[i].op = "pop" => calls[i].base \in 1..Len(pushlist)
  BY <1>3, Bases DEF Shape, BasesRight
<1>5. 1..(Len(calls) - 1) \subseteq 1..Len(calls) BY Bases
<1> QED BY <1>3, <1>4, <1>5 DEF KeptBelow

\* The innermost binding goes, and the settors that still run had not got it.
LEMMA RestoreKeeps ==
    ASSUME Shape, pushlist # <<>>, NEW d, Restore(d), NEW k \in Nat, k <= Len(calls),
           \A i \in 1..k : calls[i].base < Len(pushlist)
    PROVE  KeptBelow(k)
<1>1. /\ Len(pushlist') = Len(pushlist) - 1
      /\ \A i \in 1..(Len(pushlist) - 1) : pushlist'[i] = pushlist[i]
  BY FrontProperties DEF Restore, Shape, TypeOK
<1>2. \A i \in 1..k : /\ i \in 1..Len(calls) /\ calls[i].base \in Nat
                      /\ calls[i].op = "pop" => calls[i].base # 0
  BY Bases DEF Shape, BasesRight
<1> QED BY <1>1, <1>2, Bases DEF KeptBelow

\* Every step keeps the bindings the settors rely on.
LEMMA BasesStep == Shape /\ [Next]_allvars => BasesRight'
<1> SUFFICES ASSUME Shape, [Next]_allvars PROVE BasesRight'
  OBVIOUS
<1>1. /\ UNCHANGED pushlist => KeptBelow(Len(calls))
      /\ UNCHANGED pushlist => KeptBelow(Len(calls) - 1)
  BY Bases DEF KeptBelow, Shape, BasesRight
<1>2. UNCHANGED <<pushlist, calls>> => BasesRight'
  BY <1>1, KeepBases
<1>3. ASSUME NEW n \in Names, DefineCall(n) PROVE BasesRight'
  BY <1>3, CallBases DEF DefineCall, Ops
<1>4. ASSUME NEW d \in Values, DefineReturn(d) PROVE BasesRight'
  BY <1>1, <1>4, ReturnBases DEF DefineReturn, Calling
<1>5. ASSUME NEW n \in Names, PushCall(n) PROVE BasesRight'
  BY <1>5, CallBases DEF PushCall, Ops
<1>6. ASSUME NEW n \in Names, NEW d \in Values, varpush(n, d) PROVE BasesRight'
  BY <1>6, BindKeeps, KeepBases DEF varpush
<1>7. ASSUME NEW d \in Values, PushReturn(d) PROVE BasesRight'
  <2>1. Last(calls).name \in Names
    BY <1>7, ReturnTypes DEF PushReturn, Calling, Shape
  <2> QED BY <1>7, <2>1, BindKeeps, ReturnBases DEF PushReturn, Calling
<1>8. ASSUME NEW d \in Values, PopReturn(d) PROVE BasesRight'
  <2>1. /\ Running /\ pushlist # <<>> /\ Last(calls).op = "pop"
        /\ calls[Len(calls)] = Last(calls) /\ Last(calls).base = Len(pushlist)
    BY <1>8, PopReturnBinding DEF PopReturn, Calling
  <2>2. \A i \in 1..(Len(calls) - 1) : calls[i].base < Len(pushlist)
    BY <2>1, Bases DEF Shape, BasesRight
  <2>3. KeptBelow(Len(calls) - 1)
    BY <1>8, <2>1, <2>2, Bases, RestoreKeeps DEF PopReturn
  <2> QED BY <1>8, <2>1, <2>3, ReturnBases DEF PopReturn
<1>9. ASSUME varpop PROVE BasesRight'
  <2>1. pushlist # <<>> BY <1>9, BaseBelow DEF varpop, Shape
  <2>2. \A i \in 1..Len(calls) : calls[i].base < Len(pushlist)
    BY <1>9, Bases DEF varpop
  <2>3. KeptBelow(Len(calls))
    BY <1>9, <2>1, <2>2, Bases, RestoreKeeps DEF varpop
  <2> QED BY <1>9, <2>3, KeepBases DEF varpop
<1>10. ASSUME PopCall PROVE BasesRight'
  <2>1. pushlist # <<>> BY <1>10, BaseBelow DEF PopCall, Shape
  <2>2. Last(pushlist) \in Push BY <2>1, FrontProperties DEF TypeOK, Shape
  <2>3. Last(pushlist).name \in Names BY <2>2 DEF Push
  <2>4. pushlist[Len(pushlist)].name = Last(pushlist).name BY DEF Last
  <2> QED BY <1>10, <2>3, <2>4, CallBases DEF PopCall, Ops
<1>11. ASSUME SettorThrows PROVE BasesRight'
  BY <1>1, <1>11, ReturnBases DEF SettorThrows, Calling
<1>12. ASSUME NEW w \in Words, DefineLexical(w) PROVE BasesRight'
  BY <1>2, <1>12 DEF DefineLexical
<1>13. ASSUME NEW n \in Names, NEW d \in Values, Define(n, d) PROVE BasesRight'
  BY <1>2, <1>13 DEF Define
<1>14. ASSUME (\E S \in SUBSET Names : setnoexport(S)) \/ mkenv \/ gc PROVE BasesRight'
  BY <1>2, <1>14 DEF setnoexport, mkenv, gc
<1>15. CASE UNCHANGED allvars
  BY <1>2, <1>15 DEF allvars
<1> QED
  BY <1>3, <1>4, <1>5, <1>6, <1>7, <1>8, <1>9, <1>10, <1>11, <1>12, <1>13, <1>14, <1>15
     DEF Next, Definition, Local

\* The state has its types, whatever a settor does.
THEOREM EnvironmentTypes == Spec => []TypeOK
<1>1. Init => Shape BY InitInvariant DEF IInv
<1>2. Shape /\ [Next]_allvars => Shape' BY TypeStep, BasesStep DEF Shape
<1>3. Shape => TypeOK BY DEF Shape
<1> QED BY <1>1, <1>2, <1>3, PTL DEF Spec
-----------------------------------------------------------------------------
(***************************************************************************)
(* The caches: without Risks                                               *)
(***************************************************************************)
Caches == FlagsRight /\ InternalPlain /\ StringsCurrent /\ Clean

\* A variable gets a value of which no string is made yet.
LEMMA NewValue ==
    ASSUME IInv, NEW n \in Names, NEW v \in Var, v.env = NoString,
           v.bindings = hasbindings(v.defn), vars' = [vars EXCEPT ![n] = v],
           isdirty' \/ n \in noexport, isdirty => isdirty',
           UNCHANGED <<bound, noexport, rebound, env>>
    PROVE  Caches'
<1>1. /\ vars \in [Names -> Var] /\ vars'[n] = v
      /\ \A m \in Names \ {n} : vars'[m] = vars[m]
  BY DEF IInv, Shape, TypeOK
<1>2. FlagsRight' /\ InternalPlain'
  BY <1>1 DEF IInv, Flags, FlagsRight, InternalPlain
<1>3. StringsCurrent'
  BY <1>1 DEF IInv, StringsCurrent, String
<1>4. ASSUME ~isdirty', ~rebound' PROVE env' = Fresh'
  <2>1. n \in noexport /\ env = Fresh BY <1>4 DEF IInv, Clean
  <2>2. Exported' = Exported BY <1>1, <2>1 DEF Exported, isexported
  <2>3. \A m \in Exported : vars'[m] = vars[m] BY <1>1, <2>1 DEF Exported, isexported
  <2>4. Fresh' = Fresh BY <2>2, <2>3 DEF Fresh, String
  <2> QED BY <2>1, <2>4
<1> QED BY <1>2, <1>3, <1>4 DEF Caches, Clean

\* Nothing but isdirty changes.
LEMMA SameValues ==
    ASSUME IInv, UNCHANGED <<vars, bound, noexport, rebound, env>>, isdirty => isdirty'
    PROVE  Caches'
<1>1. Fresh' = Fresh BY DEF Fresh, Exported, String, isexported
<1>2. StringsCurrent' BY DEF IInv, StringsCurrent, String
<1>3. Clean' BY <1>1 DEF IInv, Clean
<1> QED BY <1>2, <1>3 DEF IInv, Flags, FlagsRight, InternalPlain, Caches

\* The environment mkenv makes is the one the variables define.
LEMMA VectorIsFresh == IInv => Vector = Fresh
<1> SUFFICES ASSUME IInv PROVE Vector = Fresh
  OBVIOUS
<1>1. CASE ~(isdirty \/ rebound)
  BY <1>1 DEF Vector, IInv, Clean
<1>2. CASE isdirty \/ rebound
  <2>1. \A n \in Exported : Render(n) = String(vars[n].defn)
    BY DEF Exported, isexported, Render, IInv, StringsCurrent
  <2> QED BY <1>2, <2>1 DEF Vector, Fresh
<1> QED BY <1>1, <1>2

\* mkenv makes every string that is out of date.
LEMMA MkenvCaches ==
    ASSUME IInv, mkenv
    PROVE  Caches'
<1>0. TypeOK BY DEF IInv, Shape
<1>1. \A n \in Names : /\ vars[n] \in Var
                       /\ vars'[n].defn = vars[n].defn
                       /\ vars'[n].bindings = vars[n].bindings
                       /\ vars'[n].internal = vars[n].internal
  BY <1>0, MkenvTypes DEF TypeOK
<1>2. Exported' = Exported BY <1>1 DEF Exported, isexported, mkenv
<1>3. \A n \in Names : String(vars[n].defn)' = String(vars[n].defn)
  BY <1>1 DEF String, mkenv
<1>4. Exported \subseteq Names BY DEF Exported
<1>5. Fresh' = Fresh BY <1>2, <1>3, <1>4 DEF Fresh
<1>6. env' = Fresh BY VectorIsFresh DEF mkenv
<1>7. Clean' BY <1>5, <1>6 DEF Clean
<1>8. FlagsRight' BY <1>1 DEF IInv, Flags, FlagsRight
<1>9. \A n \in Names : vars'[n] = IF (isdirty \/ rebound) /\ n \in Exported
                                  THEN [vars[n] EXCEPT !.env = Render(n)]
                                  ELSE vars[n]
  BY DEF mkenv
<1>10. InternalPlain'
  BY <1>1, <1>9 DEF IInv, Flags, InternalPlain, Exported
<1>11. ASSUME NEW n \in Names, n \notin noexport, vars'[n].env # NoString
       PROVE  vars'[n].env = String(vars[n].defn)
  <2>1. CASE ~(isdirty \/ rebound)
    BY <1>9, <1>11, <2>1 DEF IInv, StringsCurrent
  <2>2. CASE (isdirty \/ rebound) /\ n \in Exported
    <3>1. vars'[n].env = Render(n) BY <1>1, <1>9, <2>2 DEF Var
    <3>2. Render(n) = String(vars[n].defn)
      BY <1>11 DEF Render, IInv, StringsCurrent
    <3> QED BY <3>1, <3>2
  <2>3. CASE (isdirty \/ rebound) /\ n \notin Exported
    <3>1. vars[n].env # NoString BY <1>9, <1>11, <2>3
    <3>2. vars[n].defn # Nil BY <1>0, <3>1, NoVarTypes DEF TypeOK
    <3>3. ~vars[n].internal BY <3>1 DEF IInv, Flags, InternalPlain
    <3> QED BY <1>11, <2>3, <3>2, <3>3 DEF Exported, isexported
  <2> QED BY <2>1, <2>2, <2>3
<1>12. StringsCurrent'
  BY <1>3, <1>11 DEF StringsCurrent, mkenv
<1> QED BY <1>7, <1>8, <1>10, <1>12 DEF Caches

\* A collection drops only strings that mkenv would not take.
LEMMA GcCaches ==
    ASSUME IInv, gc
    PROVE  Caches'
<1>0. TypeOK BY DEF IInv, Shape
<1>1. \A n \in Names : /\ vars'[n].defn = vars[n].defn
                       /\ vars'[n].bindings = vars[n].bindings
                       /\ vars'[n].internal = vars[n].internal
                       /\ vars'[n] = vars[n] \/ vars'[n].env = NoString
  BY <1>0, GcTypes
<1>2. Exported' = Exported BY <1>1 DEF Exported, isexported, gc
<1>3. \A n \in Names : String(vars[n].defn)' = String(vars[n].defn)
  BY <1>1 DEF String, gc
<1>4. Exported \subseteq Names BY DEF Exported
<1>5. Fresh' = Fresh BY <1>2, <1>3, <1>4 DEF Fresh
<1>6. Clean' BY <1>5 DEF Clean, IInv, gc, caches
<1>7. FlagsRight' /\ InternalPlain'
  BY <1>1 DEF IInv, Flags, FlagsRight, InternalPlain
<1>8. StringsCurrent'
  BY <1>1, <1>3 DEF IInv, StringsCurrent, gc, caches
<1> QED BY <1>6, <1>7, <1>8 DEF Caches

\* Every step keeps the caches current.
LEMMA CachesStep == Risks = {} /\ IInv /\ [Next]_allvars => Caches'
<1> SUFFICES ASSUME Risks = {}, IInv, [Next]_allvars PROVE Caches'
  OBVIOUS
<1>0. TypeOK /\ Shape BY DEF IInv, Shape
<1>1. ASSUME NEW w \in Words, DefineLexical(w) PROVE Caches'
  <2>1. \A n \in Names : ~vars[n].bindings => String(vars[n].defn)' = String(vars[n].defn)
    BY <1>1 DEF DefineLexical, String, IInv, Flags, FlagsRight
  <2>2. \A n \in Names : vars[n].bindings \in BOOLEAN BY <1>0 DEF TypeOK, Var
  <2>3. StringsCurrent' BY <1>1, <2>1, <2>2 DEF DefineLexical, IInv, StringsCurrent
  <2> QED BY <1>1, <2>3
          DEF DefineLexical, IInv, Flags, FlagsRight, InternalPlain, Clean, Caches
<1>2. ASSUME NEW n \in Names, DefineCall(n) PROVE Caches'
  BY <1>2, SameValues DEF DefineCall, caches
<1>3. ASSUME NEW n \in Names, NEW d \in Values, Define(n, d) PROVE Caches'
  <2>1. /\ Value(n, d) \in Var /\ Value(n, d).env = NoString
        /\ Value(n, d).bindings = hasbindings(Value(n, d).defn)
    BY ValueTypes
  <2> QED BY <1>3, <2>1, NewValue DEF Define, Assign, isexported
<1>4. ASSUME NEW d \in Values, DefineReturn(d) PROVE Caches'
  <2> DEFINE n == Last(calls).name
  <2>1. n \in Names BY <1>0, <1>4, ReturnTypes DEF DefineReturn, Calling
  <2>2. /\ Value(n, d) \in Var /\ Value(n, d).env = NoString
        /\ Value(n, d).bindings = hasbindings(Value(n, d).defn)
    BY <2>1, ValueTypes
  <2> QED BY <1>4, <2>1, <2>2, NewValue DEF DefineReturn, Assign, isexported
<1>5. ASSUME NEW n \in Names, PushCall(n) PROVE Caches'
  BY <1>5, SameValues DEF PushCall
<1>6. ASSUME NEW n \in Names, NEW d \in Values, varpush(n, d) PROVE Caches'
  <2>1. /\ Value(n, d) \in Var /\ Value(n, d).env = NoString
        /\ Value(n, d).bindings = hasbindings(Value(n, d).defn)
    BY ValueTypes
  <2> QED BY <1>6, <2>1, NewValue DEF varpush, Bind, isexported
<1>7. ASSUME NEW d \in Values, PushReturn(d) PROVE Caches'
  <2> DEFINE n == Last(calls).name
  <2>1. n \in Names BY <1>0, <1>7, ReturnTypes DEF PushReturn, Calling
  <2>2. /\ Value(n, d) \in Var /\ Value(n, d).env = NoString
        /\ Value(n, d).bindings = hasbindings(Value(n, d).defn)
    BY <2>1, ValueTypes
  <2>3. isdirty \/ n \in noexport
    BY <1>0, <1>7, Bases DEF PushReturn, Calling, IInv, Announced
  <2> QED BY <1>7, <2>1, <2>2, <2>3, NewValue DEF PushReturn, Bind, caches
<1>8. ASSUME NEW d \in Values, PopReturn(d) PROVE Caches'
  <2> DEFINE p == Last(pushlist)
  <2>1. pushlist # <<>> /\ p.name = Last(calls).name /\ Running
        /\ Last(calls) = calls[Len(calls)] /\ Len(calls) \in Nat \ {0}
        /\ Last(calls).op = "pop"
    BY <1>0, <1>8, PopReturnBinding DEF PopReturn, Calling
  <2>2. p \in Push BY <1>0, <2>1, FrontProperties DEF TypeOK
  <2>3. p.name \in Names BY <2>2 DEF Push
  <2>4. hasbindings(d) = p.bindings BY <1>8 DEF PopReturn, Answers
  <2>5. /\ Restored(p, d) \in Var /\ Restored(p, d).env = NoString
        /\ Restored(p, d).bindings = hasbindings(Restored(p, d).defn)
    BY <2>2, <2>4, RestoredTypes
  <2>6. isdirty \/ p.name \in noexport
    BY <2>1 DEF IInv, Announced
  <2>7. vars' = [vars EXCEPT ![p.name] = Restored(p, d)]
    BY <1>8 DEF PopReturn, Restore
  <2> HIDE DEF p
  <2> QED BY <1>8, <2>3, <2>5, <2>6, <2>7, NewValue DEF PopReturn, caches
<1>9. ASSUME varpop PROVE Caches'
  <2> DEFINE p == Last(pushlist)
  <2>1. pushlist # <<>> BY <1>0, <1>9, BaseBelow DEF varpop
  <2>2. p \in Push BY <1>0, <2>1, FrontProperties DEF TypeOK
  <2>3. p.name \in Names /\ p.defn \in Values BY <2>2 DEF Push
  <2>4. Len(pushlist) \in Nat /\ Len(pushlist) # 0 BY <2>1, <1>0, Bases, EmptySeq DEF TypeOK
  <2>5. p.bindings = hasbindings(p.defn)
    BY <2>4 DEF Last, IInv, Flags, SavedRight
  <2>6. /\ Restored(p, p.defn) \in Var /\ Restored(p, p.defn).env = NoString
        /\ Restored(p, p.defn).bindings = hasbindings(Restored(p, p.defn).defn)
    BY <2>2, <2>3, <2>5, RestoredTypes
  <2>7. /\ vars' = [vars EXCEPT ![p.name] = Restored(p, p.defn)]
        /\ isdirty' = (isdirty \/ p.name \notin noexport)
    BY <1>9 DEF varpop, Restore, PopDirty, isexported
  <2> HIDE DEF p
  <2> QED BY <1>9, <2>3, <2>6, <2>7, NewValue DEF varpop
<1>10. ASSUME PopCall PROVE Caches'
  BY <1>10, SameValues DEF PopCall, PopDirty
<1>11. ASSUME SettorThrows PROVE Caches'
  BY <1>11, SameValues DEF SettorThrows, caches
<1>12. ASSUME NEW S \in SUBSET Names, setnoexport(S) PROVE Caches'
  <2>1. noexport \subseteq S BY <1>12 DEF setnoexport, Exporting
  <2>2. StringsCurrent' BY <1>12, <2>1 DEF setnoexport, IInv, StringsCurrent, String
  <2> QED BY <1>12, <2>2
          DEF setnoexport, IInv, Flags, FlagsRight, InternalPlain, Clean, Caches
<1>13. ASSUME mkenv PROVE Caches' BY <1>13, MkenvCaches
<1>14. ASSUME gc PROVE Caches' BY <1>14, GcCaches
<1>15. CASE UNCHANGED allvars
  BY <1>15, SameValues DEF allvars, caches
<1> QED
  BY <1>1, <1>2, <1>3, <1>4, <1>5, <1>6, <1>7, <1>8, <1>9, <1>10, <1>11, <1>12,
     <1>13, <1>14, <1>15 DEF Next, Definition, Local

\* The flags kept for the bindings.
LEMMA SavedStep == IInv /\ [Next]_allvars => SavedRight'
<1> SUFFICES ASSUME IInv, [Next]_allvars PROVE SavedRight'
  OBVIOUS
<1>0. TypeOK /\ Shape BY DEF IInv, Shape
<1>1. ASSUME NEW n \in Names, NEW d \in Values, Bind(n, d) PROVE SavedRight'
  <2> DEFINE p == [name |-> n, defn |-> vars[n].defn, bindings |-> vars[n].bindings,
                   internal |-> vars[n].internal]
  <2>1. vars[n] \in Var BY <1>0 DEF TypeOK
  <2>2. p \in Push BY <2>1 DEF Var, Push
  <2>3. p.bindings = hasbindings(p.defn) BY DEF IInv, Flags, FlagsRight
  <2>4. pushlist' = Append(pushlist, p) BY <1>1 DEF Bind
  <2> HIDE DEF p
  <2>5. /\ Len(pushlist) \in Nat /\ Len(pushlist') = Len(pushlist) + 1
        /\ \A i \in 1..Len(pushlist) : pushlist'[i] = pushlist[i]
        /\ pushlist'[Len(pushlist) + 1] = p
    BY <1>0, <2>2, <2>4, AppendDomain DEF TypeOK
  <2>6. \A i \in 1..Len(pushlist') : i \in 1..Len(pushlist) \/ i = Len(pushlist) + 1
    BY <2>5
  <2> QED BY <2>3, <2>5, <2>6 DEF SavedRight, IInv, Flags
<1>2. ASSUME NEW d, pushlist # <<>>, Restore(d) PROVE SavedRight'
  <2>1. /\ Len(pushlist) \in Nat /\ Len(pushlist') = Len(pushlist) - 1
        /\ \A i \in 1..(Len(pushlist) - 1) : pushlist'[i] = pushlist[i]
    BY <1>0, <1>2, FrontProperties DEF Restore, TypeOK
  <2>2. \A i \in 1..Len(pushlist') : i \in 1..Len(pushlist) /\ pushlist'[i] = pushlist[i]
    BY <2>1
  <2> QED BY <2>2 DEF SavedRight, IInv, Flags
<1>3. UNCHANGED pushlist => SavedRight'
  BY DEF SavedRight, IInv, Flags
<1>4. ASSUME Definition PROVE SavedRight'
  BY <1>3, <1>4 DEF Definition, DefineLexical, DefineCall, Define, DefineReturn
<1>5. ASSUME Local PROVE SavedRight'
  <2>1. ASSUME NEW n \in Names, PushCall(n) PROVE SavedRight'
    BY <1>3, <2>1 DEF PushCall
  <2>2. ASSUME NEW n \in Names, NEW d \in Values, varpush(n, d) PROVE SavedRight'
    BY <1>1, <2>2 DEF varpush
  <2>3. ASSUME NEW d \in Values, PushReturn(d) PROVE SavedRight'
    <3>1. Last(calls).name \in Names BY <1>0, <2>3, ReturnTypes DEF PushReturn, Calling
    <3> QED BY <1>1, <2>3, <3>1 DEF PushReturn
  <2>4. ASSUME NEW d \in Values, PopReturn(d) PROVE SavedRight'
    <3>1. pushlist # <<>> BY <1>0, <2>4, PopReturnBinding DEF PopReturn
    <3> QED BY <1>2, <2>4, <3>1 DEF PopReturn
  <2>5. ASSUME varpop PROVE SavedRight'
    <3>1. pushlist # <<>> BY <1>0, <2>5, BaseBelow DEF varpop
    <3> QED BY <1>2, <2>5, <3>1 DEF varpop
  <2>6. ASSUME PopCall PROVE SavedRight'
    BY <1>3, <2>6 DEF PopCall
  <2> QED BY <1>5, <2>1, <2>2, <2>3, <2>4, <2>5, <2>6 DEF Local
<1>6. ASSUME SettorThrows \/ (\E S \in SUBSET Names : setnoexport(S)) \/ mkenv \/ gc
      PROVE  SavedRight'
  BY <1>3, <1>6 DEF SettorThrows, setnoexport, mkenv, gc
<1>7. CASE UNCHANGED allvars
  BY <1>3, <1>7 DEF allvars
<1> QED BY <1>4, <1>5, <1>6, <1>7 DEF Next

\* isdirty, while settors of dynamic bindings run.
LEMMA AnnouncedStep == Risks = {} /\ IInv /\ [Next]_allvars => Announced'
<1> SUFFICES ASSUME Risks = {}, IInv, [Next]_allvars PROVE Announced'
  OBVIOUS
<1>0. TypeOK /\ Shape BY DEF IInv, Shape
<1>1. UNCHANGED <<calls, noexport>> /\ (isdirty => isdirty') => Announced'
  BY DEF Announced, IInv
<1>2. ASSUME Running, Return, UNCHANGED noexport, isdirty => isdirty' PROVE Announced'
  <2>1. /\ Len(calls) \in Nat /\ Len(calls') = Len(calls) - 1
        /\ \A i \in 1..(Len(calls) - 1) : calls'[i] = calls[i]
    BY <1>0, <1>2, FrontProperties DEF Return, Running, TypeOK
  <2>2. \A i \in 1..Len(calls') : i \in 1..Len(calls) /\ calls'[i] = calls[i]
    BY <2>1
  <2> QED BY <1>2, <2>2 DEF Announced, IInv
<1>3. ASSUME NEW op \in Ops, NEW n \in Names, CallSettor(op, n), UNCHANGED noexport,
             isdirty => isdirty', op = "def" \/ n \in noexport \/ isdirty'
      PROVE  Announced'
  <2> DEFINE c == [op |-> op, name |-> n, base |-> Len(pushlist)]
  <2>1. c \in Call BY <1>0, Bases DEF Call
  <2>2. calls' = Append(calls, c) /\ c.op = op /\ c.name = n BY <1>3 DEF CallSettor
  <2> HIDE DEF c
  <2>3. /\ Len(calls) \in Nat /\ Len(calls') = Len(calls) + 1
        /\ \A i \in 1..Len(calls) : calls'[i] = calls[i]
        /\ calls'[Len(calls) + 1] = c
    BY <1>0, <2>1, <2>2, AppendDomain DEF TypeOK
  <2>4. \A i \in 1..Len(calls') : i \in 1..Len(calls) \/ i = Len(calls) + 1
    BY <2>3
  <2> QED BY <1>3, <2>2, <2>3, <2>4 DEF Announced, IInv
<1>4. ASSUME Definition PROVE Announced'
  <2>1. ASSUME NEW w \in Words, DefineLexical(w) PROVE Announced'
    BY <1>1, <2>1 DEF DefineLexical
  <2>2. ASSUME NEW n \in Names, DefineCall(n) PROVE Announced'
    BY <1>3, <2>2 DEF DefineCall, Ops, caches
  <2>3. ASSUME NEW n \in Names, NEW d \in Values, Define(n, d) PROVE Announced'
    BY <1>1, <2>3 DEF Define, Assign
  <2>4. ASSUME NEW d \in Values, DefineReturn(d) PROVE Announced'
    BY <1>2, <2>4 DEF DefineReturn, Assign, Calling
  <2> QED BY <1>4, <2>1, <2>2, <2>3, <2>4 DEF Definition
<1>5. ASSUME Local PROVE Announced'
  <2>1. ASSUME NEW n \in Names, PushCall(n) PROVE Announced'
    BY <1>3, <2>1 DEF PushCall, Ops, isexported
  <2>2. ASSUME NEW n \in Names, NEW d \in Values, varpush(n, d) PROVE Announced'
    BY <1>1, <2>2 DEF varpush
  <2>3. ASSUME NEW d \in Values, PushReturn(d) PROVE Announced'
    BY <1>2, <2>3 DEF PushReturn, Calling, caches
  <2>4. ASSUME NEW d \in Values, PopReturn(d) PROVE Announced'
    BY <1>2, <2>4 DEF PopReturn, Calling, caches
  <2>5. ASSUME varpop PROVE Announced'
    BY <1>1, <2>5 DEF varpop, PopDirty
  <2>6. ASSUME PopCall PROVE Announced'
    <3>1. pushlist # <<>> BY <1>0, <2>6, BaseBelow DEF PopCall
    <3>2. Last(pushlist) \in Push BY <1>0, <3>1, FrontProperties DEF TypeOK
    <3>3. Last(pushlist).name \in Names BY <3>2 DEF Push
    <3> QED BY <1>3, <2>6, <3>3 DEF PopCall, PopDirty, Ops, isexported
  <2> QED BY <1>5, <2>1, <2>2, <2>3, <2>4, <2>5, <2>6 DEF Local
<1>6. ASSUME SettorThrows PROVE Announced'
  BY <1>2, <1>6 DEF SettorThrows, Calling, caches
<1>7. ASSUME NEW S \in SUBSET Names, setnoexport(S) PROVE Announced'
  BY <1>7 DEF setnoexport, Announced
<1>8. ASSUME mkenv PROVE Announced'
  <2>1. DOMAIN calls = 1..Len(calls) BY <1>0, LenProperties DEF TypeOK
  <2>2. \A i \in 1..Len(calls) : calls[i].op \notin {"push", "pop"}
    BY <1>8, <2>1 DEF mkenv, ExecAllowed, Binding
  <2> QED BY <1>8, <2>2 DEF mkenv, Announced
<1>9. ASSUME gc PROVE Announced'
  BY <1>1, <1>9 DEF gc, caches
<1>10. CASE UNCHANGED allvars
  BY <1>1, <1>10 DEF allvars, caches
<1> QED BY <1>4, <1>5, <1>6, <1>7, <1>8, <1>9, <1>10 DEF Next
-----------------------------------------------------------------------------
(***************************************************************************)
(* Theorems                                                                *)
(***************************************************************************)
\* The inductive invariant.
LEMMA Invariance == Risks = {} /\ Spec => []IInv
<1>1. Init => IInv BY InitInvariant
<1>2. Risks = {} /\ IInv /\ [Next]_allvars => IInv'
  <2> SUFFICES ASSUME Risks = {}, IInv, [Next]_allvars PROVE IInv'
    OBVIOUS
  <2>1. Shape' BY TypeStep, BasesStep DEF Shape, IInv
  <2>2. Caches' BY CachesStep
  <2>3. SavedRight' /\ Announced' BY SavedStep, AnnouncedStep
  <2> QED BY <2>1, <2>2, <2>3 DEF IInv, Flags, Caches
<1>3. Risks = {} => [](Risks = {})
  OBVIOUS
<1> QED BY <1>1, <1>2, <1>3, PTL DEF Spec

\* However assignments, bindings, settors, commands and collections follow one
\* another, a command gets the environment the variables define.
THEOREM CommandsGetTheVariables == Risks = {} /\ Spec => []CommandsGetVariables
<1>1. IInv => CommandsGetVariables BY VectorIsFresh DEF CommandsGetVariables
<1> QED BY <1>1, Invariance, PTL

\* The string of a variable is that of its value.
THEOREM StringsStayCurrent == Risks = {} /\ Spec => []StringsCurrent
<1>1. IInv => StringsCurrent BY DEF IInv
<1> QED BY <1>1, Invariance, PTL
=============================================================================
