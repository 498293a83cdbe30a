------------------------ MODULE NameGeneratorProofs ------------------------
(***************************************************************************)
(* Proofs about NameGenerator for any number of goroutines.                *)
(***************************************************************************)
EXTENDS NameGenerator, SequenceTheorems, TLAPS

\* A goroutine that has raced with nobody is the only one in the caser, and
\* finds it reset.
AloneInv ==
    \A g \in Callers :
        /\ g \in raced => pc[g] \in {"reset", "transform"}
        /\ pc[g] \in {"reset", "transform"} /\ g \notin raced => InCaser = {g}
        /\ pc[g] = "reset" /\ g \notin raced => ~isMidWord

\* What it produces is in title case.
PartInv ==
    \A g \in Callers :
        /\ pc[g] \in {"case", "reset", "transform"} => words[g] # <<>>
        /\ pc[g] = "transform" =>
             /\ name[g] # <<>>
             /\ g \notin raced => name[g][Len(name[g])].titled
             /\ ~name[g][Len(name[g])].alone

NameInv == TypeOK /\ AloneInv /\ PartInv /\ AloneIsTitled

-----------------------------------------------------------------------------
(* Steps                                                                   *)

\* A part changed at the end of a name leaves the others as they are.
LEMMA ChangeLast ==
    ASSUME NEW s \in Seq(Part), s # <<>>, NEW p \in Part
    PROVE  LET t == [s EXCEPT ![Len(s)] = p] IN
           /\ t \in Seq(Part) /\ t # <<>>
           /\ \A i \in DOMAIN t : IF i = Len(s) THEN t[i] = p ELSE i \in DOMAIN s /\ t[i] = s[i]
OBVIOUS

\* Transform appends one part; it is in title case if its word met no other.
LEMMA TransformPart ==
    ASSUME NameInv, NEW g \in Callers, Transform(g)
    PROVE  \E p \in Part :
             /\ name' = [name EXCEPT ![g] = Append(name[g], p)]
             /\ ~p.alone /\ (g \notin raced => p.titled)
<1>1. PICK titled \in IF g \in raced THEN BOOLEAN ELSE {~isMidWord} :
        name' = [name EXCEPT ![g] = Append(name[g], [titled |-> titled, alone |-> FALSE])]
  BY DEF Transform
<1>2. pc[g] = "reset" /\ isMidWord \in BOOLEAN
  BY DEF Transform, Goto, NameInv, TypeOK
<1>3. titled \in BOOLEAN /\ (g \notin raced => titled)
  BY <1>1, <1>2 DEF NameInv, AloneInv
<1>4. [titled |-> titled, alone |-> FALSE] \in Part
  BY <1>3 DEF Part
<1>5. QED
  BY <1>1, <1>3, <1>4

\* Return changes the last part, which is in title case if it is marked alone.
LEMMA ReturnPart ==
    ASSUME NameInv, NEW g \in Callers, Return(g)
    PROVE  /\ name[g] \in Seq(Part) /\ name[g] # <<>> /\ words[g] # <<>>
           /\ \E p \in Part :
                /\ name' = [name EXCEPT ![g] = [name[g] EXCEPT ![Len(name[g])] = p]]
                /\ p.alone => p.titled
<1>1. /\ name \in [Callers -> Seq(Part)] /\ name[g] \in Seq(Part)
      /\ name[g] # <<>> /\ words[g] # <<>> /\ pc[g] = "transform"
  BY DEF Return, Goto, NameInv, TypeOK, PartInv
<1> DEFINE last == name[g][Len(name[g])]
<1>2. last \in Part /\ Len(name[g]) \in DOMAIN name[g]
  BY <1>1
<1>3. last.alone => last.titled
  BY <1>2 DEF NameInv, AloneIsTitled
<1>4. CASE g \notin raced
  <2>1. name' = [name EXCEPT ![g] = [name[g] EXCEPT ![Len(name[g])] = [last EXCEPT !.alone = TRUE]]]
    BY <1>1, <1>4 DEF Return
  <2>2. [last EXCEPT !.alone = TRUE] \in Part /\ [last EXCEPT !.alone = TRUE].titled = last.titled
    BY <1>2 DEF Part
  <2>3. last.titled
    BY <1>1, <1>4 DEF NameInv, PartInv
  <2>4. QED
    BY <1>1, <2>1, <2>2, <2>3
<1>5. CASE g \in raced
  <2>1. PICK titled \in BOOLEAN :
          name' = [name EXCEPT ![g] = [name[g] EXCEPT ![Len(name[g])] = [last EXCEPT !.titled = titled]]]
    BY <1>1, <1>5 DEF Return
  <2>2. ~last.alone
    BY <1>1, <1>5 DEF NameInv, PartInv
  <2>3. [last EXCEPT !.titled = titled] \in Part /\ [last EXCEPT !.titled = titled].alone = last.alone
    BY <1>2 DEF Part
  <2>4. QED
    BY <1>1, <2>1, <2>2, <2>3
<1>6. QED
  BY <1>4, <1>5

\* Types are preserved.
LEMMA TypeStep ==
    ASSUME NameInv, [Next]_vars
    PROVE  TypeOK'
<1> USE NobodyAssumption DEF NameInv, TypeOK, PartInv
<1>1. ASSUME NEW g \in Callers, Request(g) PROVE TypeOK'
  BY <1>1 DEF Request, Goto
<1>2. ASSUME NEW g \in Callers, Lock(g) PROVE TypeOK'
  BY <1>2 DEF Lock, Goto
<1>3. ASSUME NEW g \in Callers, Draw(g) PROVE TypeOK'
  <2>1. PICK first \in Words : words' = [words EXCEPT ![g] = <<first, "plain">>]
    BY <1>3 DEF Draw, Goto
  <2>2. <<first, "plain">> \in Seq(Words)
    BY DEF Words
  <2>3. QED
    BY <1>3, <2>1, <2>2 DEF Draw, Goto
<1>4. ASSUME NEW g \in Callers, Reset(g) PROVE TypeOK'
  <2>1. raced' \subseteq Callers
    BY <1>4 DEF Reset, Goto, InCaser
  <2>2. QED
    BY <1>4, <2>1 DEF Reset, Goto
<1>5. ASSUME NEW g \in Callers, Transform(g) PROVE TypeOK'
  <2>1. PICK p \in Part : name' = [name EXCEPT ![g] = Append(name[g], p)]
    BY <1>5, TransformPart
  <2>2. name \in [Callers -> Seq(Part)] /\ Append(name[g], p) \in Seq(Part)
    BY AppendProperties
  <2>3. name' \in [Callers -> Seq(Part)]
    BY <2>1, <2>2
  <2>4. QED
    BY <1>5, <2>3 DEF Transform, Goto
<1>6. ASSUME NEW g \in Callers, Return(g) PROVE TypeOK'
  <2> DEFINE changed(p) == [name[g] EXCEPT ![Len(name[g])] = p]
  <2>1. name' \in [Callers -> Seq(Part)]
    <3>1. PICK p \in Part : name' = [name EXCEPT ![g] = changed(p)]
      BY <1>6, ReturnPart
    <3>2. name \in [Callers -> Seq(Part)] /\ changed(p) \in Seq(Part)
      BY <1>6, ReturnPart, ChangeLast
    <3> HIDE DEF changed
    <3>3. QED
      BY <3>1, <3>2
  <2>2. Tail(words[g]) \in Seq(Words)
    BY <1>6, ReturnPart
  <2>3. isMidWord' \in BOOLEAN
    BY <1>6 DEF Return, Goto
  <2>4. QED
    BY <1>6, <2>1, <2>2, <2>3 DEF Return, Goto
<1>7. ASSUME NEW g \in Callers, Panic(g) PROVE TypeOK'
  BY <1>7 DEF Panic
<1>8. CASE UNCHANGED vars
  BY <1>8 DEF vars
<1>9. QED
  BY <1>1, <1>2, <1>3, <1>4, <1>5, <1>6, <1>7, <1>8 DEF Next, Work

\* Who enters the caser while somebody is in it races with them.
LEMMA AloneStep ==
    ASSUME NameInv, [Next]_vars
    PROVE  AloneInv'
<1> USE NobodyAssumption DEF NameInv, TypeOK, AloneInv, InCaser
<1>1. ASSUME NEW g \in Callers, Request(g) PROVE AloneInv'
  BY <1>1 DEF Request, Goto
<1>2. ASSUME NEW g \in Callers, Lock(g) PROVE AloneInv'
  BY <1>2 DEF Lock, Goto
<1>3. ASSUME NEW g \in Callers, Draw(g) PROVE AloneInv'
  BY <1>3 DEF Draw, Goto
<1>4. ASSUME NEW g \in Callers, Reset(g) PROVE AloneInv'
  BY <1>4 DEF Reset, Goto
<1>5. ASSUME NEW g \in Callers, Transform(g) PROVE AloneInv'
  BY <1>5 DEF Transform, Goto
<1>6. ASSUME NEW g \in Callers, Return(g) PROVE AloneInv'
  BY <1>6 DEF Return, Goto
<1>7. ASSUME NEW g \in Callers, Panic(g) PROVE AloneInv'
  BY <1>7 DEF Panic
<1>8. CASE UNCHANGED vars
  BY <1>8 DEF vars
<1>9. QED
  BY <1>1, <1>2, <1>3, <1>4, <1>5, <1>6, <1>7, <1>8 DEF Next, Work

\* A word that met no other is put into title case by a caser that was reset.
LEMMA PartStep ==
    ASSUME NameInv, [Next]_vars
    PROVE  PartInv'
<1> USE NobodyAssumption DEF NameInv, TypeOK, AloneInv, PartInv, InCaser
<1>1. ASSUME NEW g \in Callers, Request(g) PROVE PartInv'
  BY <1>1 DEF Request, Goto
<1>2. ASSUME NEW g \in Callers, Lock(g) PROVE PartInv'
  BY <1>2 DEF Lock, Goto
<1>3. ASSUME NEW g \in Callers, Draw(g) PROVE PartInv'
  BY <1>3 DEF Draw, Goto
<1>4. ASSUME NEW g \in Callers, Reset(g) PROVE PartInv'
  BY <1>4 DEF Reset, Goto
<1>5. ASSUME NEW g \in Callers, Transform(g) PROVE PartInv'
  <2>1. PICK p \in Part : /\ name' = [name EXCEPT ![g] = Append(name[g], p)]
                          /\ ~p.alone /\ (g \notin raced => p.titled)
    BY <1>5, TransformPart
  <2>2. name[g] \in Seq(Part)
    OBVIOUS
  <2>3. LET s == Append(name[g], p) IN s # <<>> /\ s[Len(s)] = p
    BY <2>2, AppendProperties
  <2>4. QED
    BY <1>5, <2>1, <2>3 DEF Transform, Goto
<1>6. ASSUME NEW g \in Callers, Return(g) PROVE PartInv'
  <2>1. PICK p \in Part :
          name' = [name EXCEPT ![g] = [name[g] EXCEPT ![Len(name[g])] = p]]
    BY <1>6, ReturnPart
  <2>2. QED
    BY <1>6, <2>1 DEF Return, Goto
<1>7. ASSUME NEW g \in Callers, Panic(g) PROVE PartInv'
  BY <1>7 DEF Panic
<1>8. CASE UNCHANGED vars
  BY <1>8 DEF vars
<1>9. QED
  BY <1>1, <1>2, <1>3, <1>4, <1>5, <1>6, <1>7, <1>8 DEF Next, Work

\* Only a word that met no other is marked as alone.
LEMMA TitledStep ==
    ASSUME NameInv, [Next]_vars
    PROVE  AloneIsTitled'
<1> USE NobodyAssumption DEF NameInv, TypeOK, AloneIsTitled
<1>1. ASSUME NEW g \in Callers, Request(g) PROVE AloneIsTitled'
  BY <1>1 DEF Request, Goto
<1>2. ASSUME NEW g \in Callers, Lock(g) PROVE AloneIsTitled'
  BY <1>2 DEF Lock, Goto
<1>3. ASSUME NEW g \in Callers, Draw(g) PROVE AloneIsTitled'
  BY <1>3 DEF Draw, Goto
<1>4. ASSUME NEW g \in Callers, Reset(g) PROVE AloneIsTitled'
  BY <1>4 DEF Reset, Goto
<1>5. ASSUME NEW g \in Callers, Transform(g) PROVE AloneIsTitled'
  <2>1. PICK p \in Part : /\ name' = [name EXCEPT ![g] = Append(name[g], p)]
                          /\ ~p.alone
    BY <1>5, TransformPart
  <2>2. name[g] \in Seq(Part)
    OBVIOUS
  <2>3. LET s == Append(name[g], p) IN
          \A i \in DOMAIN s : IF i = Len(name[g]) + 1 THEN s[i] = p
                             ELSE i \in DOMAIN name[g] /\ s[i] = name[g][i]
    BY <2>2
  <2>4. QED
    BY <2>1, <2>3
<1>6. ASSUME NEW g \in Callers, Return(g) PROVE AloneIsTitled'
  <2>1. PICK p \in Part :
          /\ name' = [name EXCEPT ![g] = [name[g] EXCEPT ![Len(name[g])] = p]]
          /\ p.alone => p.titled
    BY <1>6, ReturnPart
  <2>2. LET t == [name[g] EXCEPT ![Len(name[g])] = p] IN
          \A i \in DOMAIN t : IF i = Len(name[g]) THEN t[i] = p
                             ELSE i \in DOMAIN name[g] /\ t[i] = name[g][i]
    BY <1>6, ReturnPart, ChangeLast
  <2>3. QED
    BY <2>1, <2>2
<1>7. ASSUME NEW g \in Callers, Panic(g) PROVE AloneIsTitled'
  BY <1>7 DEF Panic
<1>8. CASE UNCHANGED vars
  BY <1>8 DEF vars
<1>9. QED
  BY <1>1, <1>2, <1>3, <1>4, <1>5, <1>6, <1>7, <1>8 DEF Next, Work

-----------------------------------------------------------------------------
(* Theorems                                                                *)

\* The inductive invariant holds throughout.
THEOREM NamesInductive == Spec => []NameInv
<1>1. Init => NameInv
  <2>1. <<>> \in Seq(Words) /\ <<>> \in Seq(Part) /\ DOMAIN <<>> = {}
    OBVIOUS
  <2>2. QED
    BY <2>1 DEF Init, NameInv, TypeOK, AloneInv, PartInv, AloneIsTitled
<1>2. NameInv /\ [Next]_vars => NameInv'
  BY TypeStep, AloneStep, PartStep, TitledStep DEF NameInv
<1>3. QED
  BY <1>1, <1>2, PTL DEF Spec

\* Every variable keeps its type.
THEOREM NamesTypeCorrect == Spec => []TypeOK
<1>1. NameInv => TypeOK
  BY DEF NameInv
<1>2. QED
  BY <1>1, NamesInductive, PTL

\* AloneIsTitled: a word that had the caser to itself is in title case, for any
\* number of goroutines and whatever earlier races have left in the caser.
THEOREM AloneWordsAreTitled == Spec => []AloneIsTitled
<1>1. NameInv => AloneIsTitled
  BY DEF NameInv
<1>2. QED
  BY <1>1, NamesInductive, PTL
=============================================================================
