--------------------------- MODULE NameGenerator ---------------------------
(***************************************************************************)
(* The names of rooms and members.  Calls of CreateRoom and ServeRoom draw *)
(* two words under a mutex and then send them one after the other through  *)
(* one title caser, without it.                                            *)
(*                                                                         *)
(* Of a word matters whether the caser ends in the middle of a word after  *)
(* it; of the result, whether it is in title case.                         *)
(***************************************************************************)
EXTENDS Naturals, Sequences

CONSTANTS
    Callers,  \* goroutines that generate names
    Nobody    \* the mutex is free

ASSUME NobodyAssumption == Nobody \notin Callers

\* The words of the lists all end with a letter, but for one color that ends
\* with a bracket.
Words == {"plain", "bracketed"}

\* One word of a name: is it in title case, was it alone in the caser?
Part == [titled : BOOLEAN, alone : BOOLEAN]

VARIABLES
    lock,       \* holder of Generator.mu
    pc,         \* where each goroutine is
    words,      \* words it has drawn and not yet sent through the caser
    isMidWord,  \* the caser's state that one Transform leaves to the next
    raced,      \* goroutines whose word met another in the caser
    name        \* the parts of its name so far

vars == <<lock, pc, words, isMidWord, raced, name>>

InCaser == {g \in Callers : pc[g] \in {"reset", "transform"}}

Init ==
    /\ lock = Nobody
    /\ pc = [g \in Callers |-> "idle"]
    /\ words = [g \in Callers |-> <<>>]
    /\ isMidWord = FALSE
    /\ raced = {}
    /\ name = [g \in Callers |-> <<>>]

Goto(g, from, to) == pc[g] = from /\ pc' = [pc EXCEPT ![g] = to]

-----------------------------------------------------------------------------
\* A call of GenerateRoomName or GenerateMemberName.
Request(g) ==
    /\ Goto(g, "idle", "lock")
    /\ name' = [name EXCEPT ![g] = <<>>]
    /\ UNCHANGED <<lock, words, isMidWord, raced>>

Lock(g) ==
    /\ lock = Nobody
    /\ Goto(g, "lock", "draw")
    /\ lock' = g
    /\ UNCHANGED <<words, isMidWord, raced, name>>

\* Mutants: an index past the end of a list; the mutex stays locked.
DrawPastEnd(g) ==
    /\ Goto(g, "draw", "case")
    /\ \E first \in Words, noun \in {"plain", "none"} :
         words' = [words EXCEPT ![g] = <<first, noun>>]
    /\ lock' = Nobody
    /\ UNCHANGED <<isMidWord, raced, name>>
DrawLocked(g) ==
    /\ Goto(g, "draw", "case")
    /\ \E first \in Words : words' = [words EXCEPT ![g] = <<first, "plain">>]
    /\ UNCHANGED <<lock, isMidWord, raced, name>>

\* An adjective or a color, and a noun, all of which are plain; g.mu.Unlock().
Draw(g) ==
    /\ Goto(g, "draw", "case")
    /\ \E first \in Words : words' = [words EXCEPT ![g] = <<first, "plain">>]
    /\ lock' = Nobody
    /\ UNCHANGED <<isMidWord, raced, name>>

\* Mutant: the caser is not reset.
ResetNothing(g) ==
    /\ Goto(g, "case", "reset")
    /\ raced' = IF InCaser = {} THEN raced ELSE raced \cup InCaser \cup {g}
    /\ UNCHANGED <<lock, words, isMidWord, name>>

\* caser.String begins: t.Reset().  From now on g is in the caser, and races
\* with whoever is there.
Reset(g) ==
    /\ Goto(g, "case", "reset")
    /\ isMidWord' = FALSE
    /\ raced' = IF InCaser = {} THEN raced ELSE raced \cup InCaser \cup {g}
    /\ UNCHANGED <<lock, words, name>>

\* t.Transform reads the word and maps its first letter to title case, unless
\* it believes to be in the middle of a word.
Transform(g) ==
    /\ Goto(g, "reset", "transform")
    /\ \E titled \in IF g \in raced THEN BOOLEAN ELSE {~isMidWord} :
         name' = [name EXCEPT ![g] = Append(@, [titled |-> titled, alone |-> FALSE])]
    /\ UNCHANGED <<lock, words, isMidWord, raced>>

\* caser.String returns.  The data race of goroutines that met there leaves
\* anything in the result and in the caser.
Return(g) ==
    /\ LET more == Tail(words[g]) IN
         /\ Goto(g, "transform", IF more = <<>> THEN "idle" ELSE "case")
         /\ words' = [words EXCEPT ![g] = more]
    /\ \/ /\ g \notin raced
          /\ isMidWord' = (Head(words[g]) = "plain")
          /\ name' = [name EXCEPT ![g][Len(name[g])].alone = TRUE]
       \/ /\ g \in raced
          /\ isMidWord' \in BOOLEAN
          /\ \E titled \in BOOLEAN : name' = [name EXCEPT ![g][Len(name[g])].titled = titled]
    /\ raced' = raced \ {g}
    /\ UNCHANGED lock

\* ... or sends an index out of range: net/http recovers the panic.
Panic(g) ==
    /\ g \in raced
    /\ pc[g] \in {"reset", "transform"}
    /\ pc' = [pc EXCEPT ![g] = "idle"]
    /\ words' = [words EXCEPT ![g] = <<>>]
    /\ name' = [name EXCEPT ![g] = <<>>]
    /\ isMidWord' \in BOOLEAN
    /\ raced' = raced \ {g}
    /\ UNCHANGED lock

-----------------------------------------------------------------------------
Work(g) == Draw(g) \/ Reset(g) \/ Transform(g) \/ Return(g) \/ Panic(g)

Next == \E g \in Callers : Request(g) \/ Lock(g) \/ Work(g)

Spec == Init /\ [][Next]_vars

\* The scheduler runs every goroutine; sync.Mutex starves nobody.
FairSpec == Spec /\ \A g \in Callers : WF_vars(Work(g)) /\ SF_vars(Lock(g))

-----------------------------------------------------------------------------
(* Properties                                                              *)

\* Types of the variables.
TypeOK ==
    /\ lock \in Callers \cup {Nobody}
    /\ pc \in [Callers -> {"idle", "lock", "draw", "case", "reset", "transform"}]
    /\ words \in [Callers -> Seq(Words)]
    /\ isMidWord \in BOOLEAN
    /\ raced \subseteq Callers
    /\ name \in [Callers -> Seq(Part)]

\* A word that had the caser to itself comes out in title case, whatever earlier
\* races have left in the caser.
AloneIsTitled ==
    \A g \in Callers : \A i \in DOMAIN name[g] : name[g][i].alone => name[g][i].titled

\* Every call returns, with or without a name, however many others come.
NamesArrive == \A g \in Callers : pc[g] = "lock" ~> pc[g] = "idle"

\* cases.go:35-36: a Caser "should therefore not be shared between goroutines".
CaserNotShared == \A g, h \in InCaser : g = h
=============================================================================
