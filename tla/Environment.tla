---------------------------- MODULE Environment -----------------------------
(***************************************************************************)
(* Variables, their dynamic bindings and the environment of commands:      *)
(* var.c. mkenv keeps the environment it has made, and every variable the  *)
(* string made from it; isdirty and rebound say what of it is out of date. *)
(*                                                                         *)
(* A settor is a function of the user's: while it runs, any operation may  *)
(* be called. calls holds the operations that wait for their settor, the   *)
(* innermost last. A variable without a value is the same as no variable: *)
(* no operation leaves flags or a string with an empty value. Special      *)
(* variables (0 and the positional list) are never exported: left out.     *)
(*                                                                         *)
(* ValueKeepsString, RestoredEmpty and PopClean are slips in the           *)
(* definitions they precede that the properties exclude; no specification  *)
(* uses them.                                                              *)
(***************************************************************************)
EXTENDS Naturals, Sequences, SequencesExt

CONSTANTS
    Names,       \* names of variables
    Settors,     \* the ones that have a settor
    Words,       \* values that are words
    Closures,    \* values that are closures over the lexical variable
    Nil,         \* the empty list
    NoString,    \* no string has been made
    Risks,       \* what the cache does not stand: see ExecAllowed,
                 \* Exporting and Answers
    MaxPush,     \* bound: dynamic bindings at a time
    MaxCalls     \* bound: settors running at a time

VARIABLES
    vars,        \* the dictionary of variables
    bound,       \* value of the lexical variable the closures share
    noexport,    \* the names on the noexport list
    isdirty, rebound,
    env,         \* the environment mkenv has made
    pushlist,    \* the dynamic bindings, the innermost last
    calls        \* the operations whose settor runs

caches  == <<isdirty, rebound, env>>
allvars == <<vars, bound, noexport, caches, pushlist, calls>>

Values  == Words \cup Closures \cup {Nil}
Strings == Values \X (Words \cup {Nil})
Ops     == {"def", "push", "pop"}

Var  == [defn : Values, bindings : BOOLEAN, internal : BOOLEAN, env : Strings \cup {NoString}]
Push == [name : Names, defn : Values, bindings : BOOLEAN, internal : BOOLEAN]
Call == [op : Ops, name : Names, base : Nat]

ASSUME NamesAssumption == Settors \subseteq Names
ASSUME ValuesAssumption == Words \cap Closures = {} /\ Nil \notin Words \cup Closures
ASSUME StringAssumption == NoString \notin Strings
ASSUME RisksAssumption == Risks \subseteq {"exec", "export", "kind"}
ASSUME BoundsAssumption == MaxPush \in Nat /\ MaxCalls \in Nat

hasbindings(d) == d \in Closures

\* What str makes of a value: of a closure, with the value of its binding.
String(d) == <<d, IF hasbindings(d) THEN bound ELSE Nil>>

NoVar == [defn |-> Nil, bindings |-> FALSE, internal |-> FALSE, env |-> NoString]

\* mkvar, and a variable that gets a value.
ValueKeepsString(n, d) == [defn |-> d, bindings |-> hasbindings(d), internal |-> FALSE,
                           env |-> vars[n].env]
Value(n, d) == [defn |-> d, bindings |-> hasbindings(d), internal |-> FALSE,
                env |-> NoString]

isexported(n) == n \notin noexport

\* The variables mkenv0 puts into the environment.
Exported == {n \in Names : /\ vars[n].defn # Nil
                           /\ ~vars[n].internal
                           /\ isexported(n)}

\* The environment the variables define.
Fresh == [n \in Exported |-> String(vars[n].defn)]

(***************************************************************************)
(* Settors                                                                 *)
(***************************************************************************)
Running == calls # <<>>

\* The innermost settor leaves the dynamic bindings alone that were there when
\* it was called.
Base == IF Running THEN Last(calls).base ELSE 0

CallSettor(op, n) ==
    /\ Len(calls) < MaxCalls
    /\ calls' = Append(calls, [op |-> op, name |-> n, base |-> Len(pushlist)])
Return       == calls' = Front(calls)
Calling(op)  == Running /\ Last(calls).op = op /\ Len(pushlist) = Base
Binding      == \E i \in DOMAIN calls : calls[i].op \in {"push", "pop"}

\* What a settor may answer for the value of p that varpop restores.
Answers(p) == {d \in Values : "kind" \in Risks \/ hasbindings(d) = p.bindings}

Init ==
    /\ \E hidden \in SUBSET Names, d \in [Names -> Values] :
          vars = [n \in Names |->
                    IF d[n] = Nil THEN NoVar
                    ELSE [defn |-> d[n], bindings |-> hasbindings(d[n]),
                          internal |-> n \in hidden, env |-> NoString]]
    /\ bound \in Words
    /\ noexport = {}
    /\ isdirty = TRUE /\ rebound = TRUE /\ env = <<>>
    /\ pushlist = <<>> /\ calls = <<>>

(***************************************************************************)
(* vardef                                                                  *)
(***************************************************************************)

\* Assignment to a lexical variable.
DefineLexical(w) ==
    /\ bound' = w /\ rebound' = TRUE
    /\ UNCHANGED <<vars, noexport, isdirty, env, pushlist, calls>>

Assign(n, d) ==
    /\ isdirty' = (isdirty \/ isexported(n))
    /\ vars' = [vars EXCEPT ![n] = Value(n, d)]

Define(n, d) ==
    /\ n \notin Settors
    /\ Assign(n, d)
    /\ UNCHANGED <<bound, noexport, rebound, env, pushlist, calls>>

DefineCall(n) ==
    /\ n \in Settors
    /\ CallSettor("def", n)
    /\ UNCHANGED <<vars, bound, noexport, caches, pushlist>>

DefineReturn(d) ==
    /\ Calling("def")
    /\ Assign(Last(calls).name, d)
    /\ Return
    /\ UNCHANGED <<bound, noexport, rebound, env, pushlist>>

(***************************************************************************)
(* varpush and varpop                                                      *)
(***************************************************************************)

\* The variable gets its new value, the old one and its flags are kept.
Bind(n, d) ==
    /\ pushlist' = Append(pushlist, [name |-> n, defn |-> vars[n].defn,
                                     bindings |-> vars[n].bindings,
                                     internal |-> vars[n].internal])
    /\ vars' = [vars EXCEPT ![n] = Value(n, d)]

varpush(n, d) ==
    /\ n \notin Settors /\ Len(pushlist) < MaxPush
    /\ isdirty' = (isdirty \/ isexported(n))
    /\ Bind(n, d)
    /\ UNCHANGED <<bound, noexport, rebound, env, calls>>

\* isdirty is set before the settor is called, and not again.
PushCall(n) ==
    /\ n \in Settors /\ Len(pushlist) < MaxPush
    /\ isdirty' = (isdirty \/ isexported(n))
    /\ CallSettor("push", n)
    /\ UNCHANGED <<vars, bound, noexport, rebound, env, pushlist>>

PushReturn(d) ==
    /\ Calling("push")
    /\ Bind(Last(calls).name, d)
    /\ Return
    /\ UNCHANGED <<bound, noexport, caches>>

\* The value comes back as its settor answers, the flags as they were.
RestoredEmpty(p, d) == [defn |-> d, bindings |-> p.bindings, internal |-> p.internal,
                        env |-> NoString]
Restored(p, d) == IF d = Nil THEN NoVar
                  ELSE [defn |-> d, bindings |-> p.bindings, internal |-> p.internal,
                        env |-> NoString]
Restore(d) ==
    /\ vars' = [vars EXCEPT ![Last(pushlist).name] = Restored(Last(pushlist), d)]
    /\ pushlist' = Front(pushlist)

PopClean(n) == UNCHANGED isdirty
PopDirty(n) == isdirty' = (isdirty \/ isexported(n))

varpop ==
    /\ Len(pushlist) > Base
    /\ Last(pushlist).name \notin Settors
    /\ PopDirty(Last(pushlist).name)
    /\ Restore(Last(pushlist).defn)
    /\ UNCHANGED <<bound, noexport, rebound, env, calls>>

PopCall ==
    /\ Len(pushlist) > Base
    /\ Last(pushlist).name \in Settors
    /\ PopDirty(Last(pushlist).name)
    /\ CallSettor("pop", Last(pushlist).name)
    /\ UNCHANGED <<vars, bound, noexport, rebound, env, pushlist>>

PopReturn(d) ==
    /\ Calling("pop")
    /\ d \in Answers(Last(pushlist))
    /\ Restore(d)
    /\ Return
    /\ UNCHANGED <<bound, noexport, caches>>

\* The settor of an assignment or of a new binding throws: nothing is assigned.
SettorThrows ==
    /\ Calling("def") \/ Calling("push")
    /\ Return
    /\ UNCHANGED <<vars, bound, noexport, caches, pushlist>>

(***************************************************************************)
(* noexport, mkenv and the collector                                       *)
(***************************************************************************)

\* A name may come off the list, and its string may be of any age.
Exporting(S) == "export" \in Risks \/ noexport \subseteq S

setnoexport(S) ==
    /\ Exporting(S)
    /\ noexport' = S /\ isdirty' = TRUE
    /\ UNCHANGED <<vars, bound, rebound, env, pushlist, calls>>

\* A command that the settor of a dynamic binding runs.
ExecAllowed == "exec" \in Risks \/ ~Binding

\* The string mkenv0 takes: the one it has made before, or a new one.
Render(n) == IF vars[n].env = NoString \/ (rebound /\ vars[n].bindings)
             THEN String(vars[n].defn)
             ELSE vars[n].env

\* forkexec runs a command with this environment.
Vector == IF isdirty \/ rebound THEN [n \in Exported |-> Render(n)] ELSE env
mkenv ==
    /\ ExecAllowed
    /\ env' = Vector
    /\ vars' = [n \in Names |-> IF (isdirty \/ rebound) /\ n \in Exported
                                THEN [vars[n] EXCEPT !.env = Render(n)]
                                ELSE vars[n]]
    /\ isdirty' = FALSE /\ rebound' = FALSE
    /\ UNCHANGED <<bound, noexport, pushlist, calls>>

\* VarScan: a collection drops the strings that mkenv would not use.
gc ==
    /\ vars' = [n \in Names |-> IF vars[n].bindings /\ rebound
                                THEN [vars[n] EXCEPT !.env = NoString]
                                ELSE vars[n]]
    /\ UNCHANGED <<bound, noexport, caches, pushlist, calls>>
-----------------------------------------------------------------------------
Definition == \/ \E w \in Words : DefineLexical(w)
              \/ \E n \in Names : DefineCall(n) \/ \E d \in Values : Define(n, d)
              \/ \E d \in Values : DefineReturn(d)

Local == \/ \E n \in Names : PushCall(n) \/ \E d \in Values : varpush(n, d)
         \/ \E d \in Values : PushReturn(d) \/ PopReturn(d)
         \/ varpop \/ PopCall

Next == \/ Definition \/ Local \/ SettorThrows
        \/ \E S \in SUBSET Names : setnoexport(S)
        \/ mkenv \/ gc

Spec == Init /\ [][Next]_allvars
-----------------------------------------------------------------------------
(***************************************************************************)
(* Properties                                                              *)
(***************************************************************************)
TypeOK ==
    /\ vars \in [Names -> Var]
    /\ bound \in Words
    /\ noexport \subseteq Names
    /\ isdirty \in BOOLEAN /\ rebound \in BOOLEAN
    /\ pushlist \in Seq(Push) /\ calls \in Seq(Call)
    /\ \A n \in Names : vars[n].defn = Nil => vars[n] = NoVar

\* The string of a variable that may be exported is that of its value
\* (var.c:188-196, 216-228, 278-281), unless it is a closure and rebound will
\* have it made again.
StringsCurrent ==
    \A n \in Names \ noexport : vars[n].env # NoString =>
        vars[n].env = String(vars[n].defn) \/ (rebound /\ vars[n].bindings)

\* All variables except for the ones on the noexport list and lexically bound
\* ones are exported (es.1:1551-1552), local-bound ones too (es.1:1253-1254): whenever
\* a command may be run, mkenv gives it the environment the variables define.
\* No sequence of assignments, bindings and collections escapes the caches.
CommandsGetVariables == ExecAllowed => Vector = Fresh
=============================================================================
