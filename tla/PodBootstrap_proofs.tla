------------------------ MODULE PodBootstrap_proofs ------------------------
(***************************************************************************)
(* What the desk keeps, and what desk and pod keep, for any number of      *)
(* samples, requests, crashes, uploads, runs and reboots.                  *)
(*                                                                         *)
(* Nothing at the desk is locked, so that little is invariant while two    *)
(* are at work: Sorted says that files and requests are of their types and *)
(* that what a request has left to do is a chain of steps.  Alone is what  *)
(* holds of a request that nobody has interfered with: which of the files  *)
(* are its own after which of its steps.                                   *)
(*                                                                         *)
(* Every step of desk and pod is a step of the desk or leaves it alone, so *)
(* that what is proved of the desk is inherited.  Of the pod, Booting says *)
(* what holds after which step of bootstrap_core.sh; Evidence and          *)
(* Numbered, that what lies in app/runtime and what was brought back       *)
(* agrees wherever it is of one run.                                       *)
(***************************************************************************)
EXTENDS PodBootstrap, TLAPS


\* The steps there are, and which follows which in a program.
Steps == {"unlink", "pack", "verify", "plan", "clear", "wipe", "copy", "zip", "embed", "replace", "handoff"}

Follows(s, t) ==
  \/ s = "unlink" /\ t = "pack"
  \/ s = "pack" /\ t = "verify"
  \/ s = "verify" /\ t = "plan"
  \/ s = "plan" /\ t = "clear"
  \/ s = "clear" /\ t = "wipe"
  \/ s = "wipe" /\ t = "copy"
  \/ s = "copy" /\ t = "zip"
  \/ s = "zip" /\ t = "embed"
  \/ s = "embed" /\ t = "replace"
  \/ s = "replace" /\ t = "handoff"

Ends == {"verify", "zip", "handoff"}

\* What is left of a program is a chain of steps with one of the ends.
Chained(rest) ==
  /\ rest \in Seq(Steps)
  /\ \A i \in 1..(Len(rest) - 1) : Follows(rest[i], rest[i + 1])
  /\ rest # <<>> => rest[Len(rest)] \in Ends

LEMMA TailChained ==
  ASSUME NEW rest, Chained(rest), rest # <<>>
  PROVE  /\ Chained(Tail(rest)) /\ Head(rest) \in Steps
         /\ Tail(rest) = <<>> => Head(rest) \in Ends
         /\ Tail(rest) # <<>> => Follows(Head(rest), Head(Tail(rest)))
<1>1. /\ rest \in Seq(Steps) /\ Len(rest) \in Nat /\ Len(rest) > 0
      /\ Tail(rest) \in Seq(Steps) /\ Len(Tail(rest)) = Len(rest) - 1
      /\ \A i \in 1..(Len(rest) - 1) : Tail(rest)[i] = rest[i + 1]
      /\ Head(rest) = rest[1] /\ rest[1] \in Steps
  BY DEF Chained
<1>2. Tail(rest) # <<>> <=> Len(rest) > 1
  BY <1>1
<1>3. \A i \in 1..(Len(Tail(rest)) - 1) : Follows(Tail(rest)[i], Tail(rest)[i + 1])
  <2> SUFFICES ASSUME NEW i \in 1..(Len(Tail(rest)) - 1)
               PROVE  Follows(Tail(rest)[i], Tail(rest)[i + 1])
    OBVIOUS
  <2>1. i + 1 \in 1..(Len(rest) - 1) /\ i \in 1..(Len(rest) - 1)
    BY <1>1
  <2>2. Follows(rest[i + 1], rest[i + 1 + 1])
    BY <2>1 DEF Chained
  <2> QED BY <1>1, <2>1, <2>2
<1>4. Tail(rest) # <<>> => Tail(rest)[Len(Tail(rest))] \in Ends
  <2> SUFFICES ASSUME Len(rest) > 1 PROVE Tail(rest)[Len(Tail(rest))] \in Ends
    BY <1>2
  <2>1. Len(rest) - 1 \in 1..(Len(rest) - 1) /\ Len(rest) - 1 + 1 = Len(rest)
    BY <1>1
  <2>2. Tail(rest)[Len(rest) - 1] = rest[Len(rest)]
    BY <1>1, <2>1
  <2> QED BY <1>1, <2>2 DEF Chained
<1>5. Tail(rest) = <<>> => Head(rest) \in Ends
  BY <1>1, <1>2 DEF Chained
<1>6. Tail(rest) # <<>> => Follows(Head(rest), Head(Tail(rest)))
  <2> SUFFICES ASSUME Len(rest) > 1 PROVE Follows(Head(rest), Head(Tail(rest)))
    BY <1>2
  <2>1. Head(Tail(rest)) = Tail(rest)[1] /\ Tail(rest)[1] = rest[2]
    BY <1>1, <1>2
  <2>2. Follows(rest[1], rest[1 + 1])
    BY <1>1 DEF Chained
  <2> QED BY <1>1, <2>1, <2>2
<1> QED BY <1>1, <1>3, <1>4, <1>5, <1>6 DEF Chained

LEMMA SkipChained ==
  ASSUME NEW rest, Chained(rest), rest # <<>>, Head(rest) = "clear"
  PROVE  LET skip == SubSeq(Tail(rest), 4, Len(Tail(rest)))
         IN  Chained(skip) /\ (skip # <<>> => Head(skip) = "embed")
<1> DEFINE skip == SubSeq(Tail(rest), 4, Len(Tail(rest)))
           t1 == Tail(rest)
           t2 == Tail(t1)
           t3 == Tail(t2)
           t4 == Tail(t3)
<1>1. Chained(t1) /\ t1 # <<>> /\ Head(t1) = "wipe"
  BY TailChained DEF Follows, Ends
<1> HIDE DEF t1
<1>2. Chained(t2) /\ t2 # <<>> /\ Head(t2) = "copy"
  BY <1>1, TailChained DEF Follows, Ends
<1> HIDE DEF t2
<1>3. Chained(t3) /\ t3 # <<>> /\ Head(t3) = "zip"
  BY <1>2, TailChained DEF Follows, Ends
<1> HIDE DEF t3
<1>4. Chained(t4) /\ (t4 # <<>> => Head(t4) = "embed")
  BY <1>3, TailChained DEF Follows, Ends
<1>5. t4 = SubSeq(t1, 4, Len(t1))
  <2>1. t1 \in Seq(Steps) /\ t2 \in Seq(Steps) /\ t3 \in Seq(Steps)
    BY <1>1, <1>2, <1>3 DEF Chained
  <2>2. Len(t2) = Len(t1) - 1 /\ \A i \in 1..(Len(t1) - 1) : t2[i] = t1[i + 1]
    BY <1>1, <2>1 DEF t2
  <2>3. Len(t3) = Len(t2) - 1 /\ \A i \in 1..(Len(t2) - 1) : t3[i] = t2[i + 1]
    BY <1>2, <2>1 DEF t3
  <2>4. Len(t4) = Len(t3) - 1 /\ \A i \in 1..(Len(t3) - 1) : t4[i] = t3[i + 1]
    BY <1>3, <2>1
  <2>5. Len(t1) \in Nat /\ Len(t4) = Len(t1) - 3 /\ \A i \in 1..(Len(t1) - 3) : t4[i] = t1[i + 3]
    BY <2>1, <2>2, <2>3, <2>4
  <2>6. t4 \in Seq(Steps) /\ Len(t4) >= 0
    BY <1>4 DEF Chained
  <2>7. /\ SubSeq(t1, 4, Len(t1)) \in Seq(Steps) /\ Len(SubSeq(t1, 4, Len(t1))) = Len(t1) - 3
        /\ \A i \in 1..(Len(t1) - 3) : SubSeq(t1, 4, Len(t1))[i] = t1[i + 3]
    BY <2>1, <2>5, <2>6
  <2> QED BY <2>5, <2>6, <2>7
<1> QED BY <1>4, <1>5 DEF t1

LEMMA ConcatChained ==
  ASSUME NEW s, NEW t, Chained(s), Chained(t), s # <<>>, t # <<>>, Follows(s[Len(s)], t[1])
  PROVE  Chained(s \o t) /\ s \o t # <<>> /\ (s \o t)[1] = s[1] /\ (s \o t)[Len(s \o t)] = t[Len(t)]
<1>1. /\ s \in Seq(Steps) /\ t \in Seq(Steps) /\ Len(s) \in Nat /\ Len(t) \in Nat /\ Len(s) > 0 /\ Len(t) > 0
      /\ s \o t \in Seq(Steps) /\ Len(s \o t) = Len(s) + Len(t)
      /\ \A i \in 1..Len(s) : (s \o t)[i] = s[i]
      /\ \A i \in 1..Len(t) : (s \o t)[Len(s) + i] = t[i]
  BY DEF Chained
<1>2. ASSUME NEW i \in 1..(Len(s \o t) - 1) PROVE Follows((s \o t)[i], (s \o t)[i + 1])
  <2>1. CASE i < Len(s)
    <3>1. i \in 1..(Len(s) - 1) /\ i \in 1..Len(s) /\ i + 1 \in 1..Len(s)
      BY <1>1, <2>1
    <3> QED BY <1>1, <3>1 DEF Chained
  <2>2. CASE i = Len(s)
    <3>1. i \in 1..Len(s) /\ i + 1 = Len(s) + 1 /\ 1 \in 1..Len(t)
      BY <1>1, <2>2
    <3> QED BY <1>1, <2>2, <3>1
  <2>3. CASE i > Len(s)
    <3> DEFINE k == i - Len(s)
    <3>1. k \in 1..(Len(t) - 1) /\ k \in 1..Len(t) /\ k + 1 \in 1..Len(t)
          /\ i = Len(s) + k /\ i + 1 = Len(s) + (k + 1)
      BY <1>1, <2>3
    <3>2. Follows(t[k], t[k + 1])
      BY <3>1 DEF Chained
    <3> HIDE DEF k
    <3> QED BY <1>1, <3>1, <3>2
  <2> QED BY <1>1, <2>1, <2>2, <2>3
<1>3. (s \o t)[Len(s \o t)] = t[Len(t)] /\ (s \o t)[1] = s[1]
  BY <1>1
<1> QED BY <1>1, <1>2, <1>3 DEF Chained

LEMMA ProgramsChained ==
  ASSUME NEW kind \in {"stage", "handoff", "script", "preflight"}
  PROVE  Chained(Programs[kind]) /\ Programs[kind] # <<>>
<1> DEFINE Pre == <<"unlink", "pack", "verify">>
           Post == <<"embed", "replace", "handoff">>
<1>1. Chained(Pre) /\ Pre # <<>> /\ Pre[1] = "unlink" /\ Pre[Len(Pre)] = "verify"
  <2>1. Pre \in Seq(Steps) /\ Len(Pre) = 3 /\ Pre[1] = "unlink" /\ Pre[2] = "pack" /\ Pre[3] = "verify"
    BY DEF Steps
  <2>2. Follows(Pre[1], Pre[2]) /\ Follows(Pre[2], Pre[3]) /\ Pre[3] \in Ends
    BY <2>1 DEF Follows, Ends
  <2> HIDE DEF Pre
  <2>3. \A i \in 1..(Len(Pre) - 1) : Follows(Pre[i], Pre[i + 1])
    <3>1. \A i \in 1..2 : i = 1 \/ i = 2
      OBVIOUS
    <3> QED BY <2>1, <2>2, <3>1
  <2> QED BY <2>1, <2>2, <2>3 DEF Chained
<1>2. Chained(Post) /\ Post # <<>> /\ Post[1] = "embed"
  <2>1. Post \in Seq(Steps) /\ Len(Post) = 3 /\ Post[1] = "embed" /\ Post[2] = "replace" /\ Post[3] = "handoff"
    BY DEF Steps
  <2>2. Follows(Post[1], Post[2]) /\ Follows(Post[2], Post[3]) /\ Post[3] \in Ends
    BY <2>1 DEF Follows, Ends
  <2> HIDE DEF Post
  <2>3. \A i \in 1..(Len(Post) - 1) : Follows(Post[i], Post[i + 1])
    <3>1. \A i \in 1..2 : i = 1 \/ i = 2
      OBVIOUS
    <3> QED BY <2>1, <2>2, <3>1
  <2> QED BY <2>1, <2>2, <2>3 DEF Chained
<1>3. Chained(Stage) /\ Stage # <<>> /\ Stage[1] = "plan" /\ Stage[Len(Stage)] = "zip"
  <2>1. Stage \in Seq(Steps) /\ Len(Stage) = 5
    BY DEF Stage, Steps
  <2>2. Stage[1] = "plan" /\ Stage[2] = "clear" /\ Stage[3] = "wipe" /\ Stage[4] = "copy" /\ Stage[5] = "zip"
    BY DEF Stage
  <2>3. /\ Follows(Stage[1], Stage[2]) /\ Follows(Stage[2], Stage[3])
        /\ Follows(Stage[3], Stage[4]) /\ Follows(Stage[4], Stage[5]) /\ Stage[5] \in Ends
    BY <2>2 DEF Follows, Ends
  <2>4. \A i \in 1..(Len(Stage) - 1) : Follows(Stage[i], Stage[i + 1])
    <3>1. \A i \in 1..4 : i = 1 \/ i = 2 \/ i = 3 \/ i = 4
      OBVIOUS
    <3> QED BY <2>1, <2>3, <3>1
  <2> QED BY <2>1, <2>2, <2>3, <2>4 DEF Chained
<1> HIDE DEF Pre, Post
<1>4. Chained(Handoff) /\ Handoff # <<>> /\ Handoff[1] = "plan"
  <2>1. Handoff = Stage \o Post
    BY DEF Handoff, Post
  <2>2. Follows(Stage[Len(Stage)], Post[1])
    BY <1>2, <1>3 DEF Follows
  <2> QED BY <1>2, <1>3, <2>1, <2>2, ConcatChained
<1>5. Chained(Pre \o Handoff) /\ Pre \o Handoff # <<>>
  <2>1. Follows(Pre[Len(Pre)], Handoff[1])
    BY <1>1, <1>4 DEF Follows
  <2> QED BY <1>1, <1>4, <2>1, ConcatChained
<1>6. /\ Programs["stage"] = Stage /\ Programs["handoff"] = Handoff
      /\ Programs["script"] = Pre \o Handoff /\ Programs["preflight"] = Pre
  BY DEF Programs, Pre
<1> QED BY <1>1, <1>3, <1>4, <1>5, <1>6

\* Only the script and preflight rebuild the zip, and they do so first.
LEMMA ProgramsBegin ==
  /\ Head(Programs["stage"]) = "plan" /\ Head(Programs["handoff"]) = "plan"
  /\ Head(Programs["script"]) = "unlink" /\ Head(Programs["preflight"]) = "unlink"
BY DEF Programs, Handoff, Stage

Kinds == {"stage", "handoff", "script", "preflight"}

CallType ==
  [kind : Kinds \cup {"none"}, rest : Seq(Steps), want : Sample \cup {Nothing},
   sample : Sample \cup {Nothing}, ready : BOOLEAN, hold : Zip, solo : BOOLEAN]

CallOK(c) == c \in CallType /\ Chained(c.rest) /\ (c.kind = "none" <=> c.rest = <<>>)

Sorted ==
  /\ files \subseteq Sample /\ source \in Nat
  /\ app \in [Place -> Zip]
  /\ tree \subseteq Sample
  /\ archive \in [exists : BOOLEAN, holds : SUBSET Sample]
  /\ call \in [Handler -> CallType] /\ \A h \in Handler : CallOK(call[h])

LEMMA Empties ==
  /\ NoZip \in Zip /\ NoArchive \in [exists : BOOLEAN, holds : SUBSET Sample]
  /\ CallOK(Idle) /\ Idle.kind = "none" /\ Idle.rest = <<>>
<1>1. NoZip \in Zip
  BY DEF NoZip, Zip
<1>2. NoArchive \in [exists : BOOLEAN, holds : SUBSET Sample]
  BY DEF NoArchive
<1>3. Idle \in CallType /\ Idle.kind = "none" /\ Idle.rest = <<>>
  BY <1>1 DEF Idle, CallType
<1>4. Chained(<<>>)
  BY DEF Chained
<1> QED BY <1>1, <1>2, <1>3, <1>4 DEF CallOK

\* How a request goes on.
Onward(h, c) ==
  /\ \A g \in Handler \ {h} : call'[g] = call[g]
  /\ \/ call'[h] = Idle /\ Head(c.rest) \in Ends
     \/ /\ call'[h].kind = c.kind /\ call'[h].sample = c.sample /\ call'[h].ready = c.ready
        /\ call'[h].hold = c.hold /\ call'[h].solo = c.solo
        /\ call'[h].rest = Tail(c.rest) /\ call'[h].rest # <<>>
        /\ Follows(Head(c.rest), Head(call'[h].rest))

LEMMA RestSet ==
  ASSUME NEW c \in CallType, NEW rest \in Seq(Steps)
  PROVE  /\ [c EXCEPT !.rest = rest] \in CallType
         /\ [c EXCEPT !.rest = rest].kind = c.kind /\ [c EXCEPT !.rest = rest].sample = c.sample
         /\ [c EXCEPT !.rest = rest].ready = c.ready /\ [c EXCEPT !.rest = rest].hold = c.hold
         /\ [c EXCEPT !.rest = rest].solo = c.solo /\ [c EXCEPT !.rest = rest].rest = rest
BY DEF CallType

LEMMA StaysSorted ==
  ASSUME Sorted, NEW h \in Handler, NEW c, CallOK(c), Stays(h, c)
  PROVE  /\ call' \in [Handler -> CallType] /\ \A g \in Handler : CallOK(call'[g])
         /\ call'[h] = c /\ \A g \in Handler \ {h} : call'[g] = call[g]
BY DEF Sorted, Stays, CallOK

LEMMA GoesOnward ==
  ASSUME Sorted, NEW h \in Handler, NEW c, CallOK(c), c.rest # <<>>, Goes(h, c)
  PROVE  /\ call' \in [Handler -> CallType] /\ \A g \in Handler : CallOK(call'[g])
         /\ Onward(h, c)
<1>1. CASE Tail(c.rest) = <<>>
  <2>1. Stays(h, Idle)
    BY <1>1 DEF Goes
  <2>2. Head(c.rest) \in Ends
    BY <1>1, TailChained DEF CallOK
  <2> QED BY <2>1, <2>2, StaysSorted, Empties DEF Onward
<1>2. CASE Tail(c.rest) # <<>>
  <2> DEFINE d == [c EXCEPT !.rest = Tail(c.rest)]
  <2>1. Chained(Tail(c.rest)) /\ Follows(Head(c.rest), Head(Tail(c.rest))) /\ Tail(c.rest) \in Seq(Steps)
    BY <1>2, TailChained DEF CallOK, Chained
  <2>2. /\ d \in CallType /\ d.kind = c.kind /\ d.sample = c.sample
        /\ d.ready = c.ready /\ d.hold = c.hold /\ d.solo = c.solo /\ d.rest = Tail(c.rest)
    BY <2>1, RestSet DEF CallOK
  <2>3. Stays(h, d)
    BY <1>2 DEF Goes
  <2> HIDE DEF d
  <2>4. CallOK(d)
    BY <1>2, <2>1, <2>2 DEF CallOK
  <2> QED BY <1>2, <2>1, <2>2, <2>3, <2>4, StaysSorted DEF Onward
<1> QED BY <1>1, <1>2

LEMMA EmbeddedZip ==
  ASSUME NEW z \in Zip, NEW a \in [exists : BOOLEAN, holds : SUBSET Sample]
  PROVE  /\ Embedded(z, a) \in Zip /\ Embedded(z, a).code = z.code /\ Embedded(z, a).embed = a.holds
         /\ Embedded(z, a).bundled
<1>1. /\ [z EXCEPT !.bundled = TRUE] \in Zip /\ [z EXCEPT !.bundled = TRUE].code = z.code
      /\ [z EXCEPT !.bundled = TRUE].bundled
  BY DEF Zip
<1>2. ASSUME NEW y \in Zip
      PROVE  /\ [y EXCEPT !.embed = a.holds] \in Zip /\ [y EXCEPT !.embed = a.holds].code = y.code
             /\ [y EXCEPT !.embed = a.holds].embed = a.holds /\ [y EXCEPT !.embed = a.holds].bundled = y.bundled
  BY DEF Zip
<1>3. Embedded(z, a) = [[z EXCEPT !.bundled = TRUE] EXCEPT !.embed = a.holds]
  BY DEF Embedded, Zip
<1> QED BY <1>1, <1>2, <1>3

LEMMA HeldCall ==
  ASSUME NEW c \in CallType, NEW z \in Zip
  PROVE  /\ [c EXCEPT !.hold = z] \in CallType /\ [c EXCEPT !.hold = z].kind = c.kind
         /\ [c EXCEPT !.hold = z].rest = c.rest /\ [c EXCEPT !.hold = z].solo = c.solo
         /\ [c EXCEPT !.hold = z].sample = c.sample /\ [c EXCEPT !.hold = z].ready = c.ready
         /\ [c EXCEPT !.hold = z].hold = z
BY DEF CallType

LEMMA BegunCall ==
  ASSUME NEW kind \in Kind, NEW want \in Sample \cup {Nothing}, NEW solo \in BOOLEAN,
         NEW c, c = Request(kind, want, solo)
  PROVE  CallOK(c) /\ c.solo = solo /\ c.kind = kind /\ c.rest = Programs[kind]
<1>1. kind \in Kinds /\ Chained(Programs[kind]) /\ Programs[kind] # <<>> /\ Programs[kind] \in Seq(Steps)
  BY HandoffAssumption, ProgramsChained DEF Kinds, Chained
<1>2. Idle \in CallType
  BY Empties DEF CallOK
<1> DEFINE c1 == [Idle EXCEPT !.kind = kind]
           c2 == [c1 EXCEPT !.rest = Programs[kind]]
           c3 == [c2 EXCEPT !.want = want]
           c4 == [c3 EXCEPT !.solo = solo]
<1>3. c = c4
  BY DEF Request, Idle
<1>4. c1 \in CallType /\ c1.kind = kind
  BY <1>1, <1>2 DEF CallType
<1> HIDE DEF c1
<1>5. c2 \in CallType /\ c2.kind = kind /\ c2.rest = Programs[kind]
  BY <1>1, <1>4 DEF CallType
<1> HIDE DEF c2
<1>6. c3 \in CallType /\ c3.kind = kind /\ c3.rest = Programs[kind]
  BY <1>5 DEF CallType
<1> HIDE DEF c3
<1>7. c4 \in CallType /\ c4.kind = kind /\ c4.rest = Programs[kind] /\ c4.solo = solo
  BY <1>6 DEF CallType
<1> HIDE DEF c4
<1>8. kind # "none"
  BY <1>1 DEF Kinds
<1> QED BY <1>1, <1>3, <1>7, <1>8 DEF CallOK

LEMMA SoloSet ==
  ASSUME NEW c, CallOK(c), NEW solo \in BOOLEAN
  PROVE  /\ CallOK([c EXCEPT !.solo = solo]) /\ [c EXCEPT !.solo = solo].kind = c.kind
         /\ [c EXCEPT !.solo = solo].solo = solo
<1>1. /\ [c EXCEPT !.solo = solo] \in CallType /\ [c EXCEPT !.solo = solo].kind = c.kind
      /\ [c EXCEPT !.solo = solo].rest = c.rest /\ [c EXCEPT !.solo = solo].solo = solo
  BY DEF CallOK, CallType
<1> QED BY <1>1 DEF CallOK

LEMMA BeginIs ==
  ASSUME Sorted, NEW h \in Handler, Begin(h)
  PROVE  /\ UNCHANGED <<desk, changes>>
         /\ call' \in [Handler -> CallType] /\ \A g \in Handler : CallOK(call'[g])
         /\ call[h].kind = "none" /\ call'[h].rest = Programs[call'[h].kind]
         /\ call'[h].kind \in Kind
         /\ call'[h].solo => \A g \in Handler \ {h} : call[g].kind = "none"
         /\ \A g \in Handler \ {h} : /\ call'[g].kind = call[g].kind
                                     /\ call'[g].solo => call'[g].kind = "none"
<1>0. call \in [Handler -> CallType] /\ \A g \in Handler : CallOK(call[g])
  BY DEF Sorted
<1> DEFINE all == \A o \in Handler : call[o].kind = "none"
<1>0a. all \in BOOLEAN
  OBVIOUS
<1> HIDE DEF all
<1>1. PICK kind \in Kind, want \in Sample \cup {Nothing} :
        call' = [g \in Handler |->
            IF g = h THEN Request(kind, want, all)
            ELSE [call[g] EXCEPT !.solo = call[g].solo /\ call[g].kind = "none"]]
  BY DEF Begin, all
<1> DEFINE c == Request(kind, want, all)
<1>2. CallOK(c) /\ c.solo = all /\ c.kind = kind /\ c.rest = Programs[kind]
  BY <1>0a, BegunCall
<1>3. call'[h] = c
  BY <1>1
<1>4. ASSUME NEW g \in Handler \ {h}
      PROVE  /\ CallOK(call'[g]) /\ call'[g].kind = call[g].kind
             /\ call'[g].solo => call'[g].kind = "none"
  <2> DEFINE solo == call[g].solo /\ call[g].kind = "none"
  <2>1. call'[g] = [call[g] EXCEPT !.solo = solo]
    BY <1>1
  <2>2. solo \in BOOLEAN
    OBVIOUS
  <2>3. solo => call[g].kind = "none"
    OBVIOUS
  <2> HIDE DEF solo
  <2>4. CallOK(call[g])
    BY <1>0
  <2> QED BY <2>1, <2>2, <2>3, <2>4, SoloSet
<1>5. call' \in [Handler -> CallType]
  <2>1. \A g \in Handler : call'[g] \in CallType
    BY <1>2, <1>3, <1>4 DEF CallOK
  <2> HIDE DEF c
  <2>2. DOMAIN call' = Handler /\ call' = [g \in Handler |-> call'[g]]
    BY <1>1
  <2> QED BY <2>1, <2>2
<1> HIDE DEF c
<1>6. all => \A o \in Handler : call[o].kind = "none"
  BY DEF all
<1> QED BY <1>2, <1>3, <1>4, <1>5, <1>6 DEF Begin

LEMMA ChangeIs ==
  ASSUME Sorted, Change
  PROVE  /\ UNCHANGED <<app, tree, archive, handoff>> /\ files' \subseteq Sample /\ source' \in Nat
         /\ call' \in [Handler -> CallType] /\ \A g \in Handler : CallOK(call'[g])
         /\ \A g \in Handler : call'[g].kind = call[g].kind /\ (call'[g].solo => call'[g].kind = "none")
<1>1. ASSUME NEW g \in Handler
      PROVE  CallOK(call'[g]) /\ call'[g].kind = call[g].kind /\ (call'[g].solo => call'[g].kind = "none")
  <2> DEFINE solo == call[g].kind = "none"
  <2>1. call'[g] = [call[g] EXCEPT !.solo = solo]
    BY DEF Change
  <2>2. solo \in BOOLEAN /\ CallOK(call[g])
    BY DEF Sorted
  <2>3. solo => call[g].kind = "none"
    OBVIOUS
  <2> HIDE DEF solo
  <2> QED BY <2>1, <2>2, <2>3, SoloSet
<1>2. call' \in [Handler -> CallType]
  <2>1. \A g \in Handler : call'[g] \in CallType
    BY <1>1 DEF CallOK
  <2>2. call' = [g \in Handler |-> call'[g]]
    BY DEF Change
  <2> QED BY <2>1, <2>2
<1>3. files' \subseteq Sample /\ source' \in Nat
  <2>1. files \subseteq Sample /\ source \in Nat
    BY DEF Sorted
  <2>2. \/ files' \in SUBSET Sample /\ source' = source
        \/ source' = source + 1 /\ files' = files
    BY DEF Change
  <2> QED BY <2>1, <2>2
<1> QED BY <1>1, <1>2, <1>3 DEF Change

\* A request that is alone leaves what its next step needs.
Alone(h) ==
  call[h].solo /\ call[h].kind # "none" =>
    /\ \A g \in Handler \ {h} : call[g].kind = "none"
    /\ call[h].kind = "script" /\ Head(call[h].rest) \notin {"unlink", "pack"} => app["root"].code = source
    /\ Head(call[h].rest) = "copy" => tree = {}
    /\ Head(call[h].rest) = "zip" => tree = {call[h].sample}
    /\ Head(call[h].rest) \in {"embed", "replace", "handoff"} /\ call[h].ready
         => archive.exists /\ archive.holds = {call[h].sample}
    /\ Head(call[h].rest) = "replace" =>
         /\ call[h].ready /\ call[h].hold.embed = {call[h].sample}
         /\ call[h].kind = "script" => call[h].hold.code = source
    /\ Head(call[h].rest) = "handoff" /\ call[h].ready /\ app["root"].code # 0
         => app["root"].embed = {call[h].sample}

\* Sorted and Alone, for the state after a step.
Sorted1 ==
  /\ files' \subseteq Sample /\ source' \in Nat
  /\ app' \in [Place -> Zip]
  /\ tree' \subseteq Sample
  /\ archive' \in [exists : BOOLEAN, holds : SUBSET Sample]
  /\ call' \in [Handler -> CallType] /\ \A h \in Handler : CallOK(call'[h])

Alone1(h) ==
  call'[h].solo /\ call'[h].kind # "none" =>
    /\ \A g \in Handler \ {h} : call'[g].kind = "none"
    /\ call'[h].kind = "script" /\ Head(call'[h].rest) \notin {"unlink", "pack"} => app'["root"].code = source'
    /\ Head(call'[h].rest) = "copy" => tree' = {}
    /\ Head(call'[h].rest) = "zip" => tree' = {call'[h].sample}
    /\ Head(call'[h].rest) \in {"embed", "replace", "handoff"} /\ call'[h].ready
         => archive'.exists /\ archive'.holds = {call'[h].sample}
    /\ Head(call'[h].rest) = "replace" =>
         /\ call'[h].ready /\ call'[h].hold.embed = {call'[h].sample}
         /\ call'[h].kind = "script" => call'[h].hold.code = source'
    /\ Head(call'[h].rest) = "handoff" /\ call'[h].ready /\ app'["root"].code # 0
         => app'["root"].embed = {call'[h].sample}

\* The others are not alone when a request goes on, and neither is it changed by them.
LEMMA OthersAlone ==
  ASSUME Sorted, NEW h \in Handler, \A g \in Handler : Alone(g), call[h].kind # "none",
         \A g \in Handler \ {h} : call'[g] = call[g],
         Alone1(h)
  PROVE  \A g \in Handler : Alone1(g)
BY DEF Alone, Alone1

LEMMA AtIs ==
  ASSUME Sorted, NEW h \in Handler, NEW step, At(h, step)
  PROVE  /\ call[h].rest # <<>> /\ Head(call[h].rest) = step /\ CallOK(call[h]) /\ call[h] \in CallType
         /\ call[h].kind # "none" /\ Chained(call[h].rest)
BY DEF At, Sorted, CallOK

\* Steps that leave the request as it is but for going on.
LEMMA PlainStep ==
  ASSUME Sorted, NEW h \in Handler, \A g \in Handler : Alone(g), NEW step, At(h, step),
         NEW c, CallOK(c), c.rest = call[h].rest, c.solo = call[h].solo, c.kind = call[h].kind, Goes(h, c)
  PROVE  /\ call' \in [Handler -> CallType] /\ \A g \in Handler : CallOK(call'[g])
         /\ Onward(h, c)
         /\ call[h].kind # "none" /\ Head(c.rest) = step
BY AtIs, GoesOnward DEF At

LEMMA PlaceIs == "root" \in Place /\ \A kind : PlaceOf(kind) \in Place
BY DEF Place, PlaceOf

LEMMA BeginStep ==
  ASSUME Sorted, NEW h \in Handler, Begin(h)
  PROVE  Sorted1 /\ \A g \in Handler : Alone1(g)
<1>1. Sorted1
  BY BeginIs DEF Sorted, Sorted1, desk, files_
<1>2. ASSUME NEW g \in Handler \ {h} PROVE Alone1(g)
  BY <1>2, BeginIs DEF Alone1
<1>3. Alone1(h)
  <2>1. Head(call'[h].rest) \in {"plan", "unlink"}
    <3>1. call'[h].kind \in Kinds /\ call'[h].rest = Programs[call'[h].kind]
      BY BeginIs, HandoffAssumption DEF Kinds
    <3> QED BY <3>1, ProgramsBegin DEF Kinds
  <2>2. call'[h].kind = "script" => Head(call'[h].rest) = "unlink"
    <3>1. call'[h].rest = Programs[call'[h].kind]
      BY BeginIs
    <3> QED BY <3>1, ProgramsBegin
  <2>3. call'[h].solo => \A g \in Handler \ {h} : call'[g].kind = "none"
    BY BeginIs
  <2> QED BY <2>1, <2>2, <2>3 DEF Alone1
<1> QED BY <1>1, <1>2, <1>3

LEMMA ServeStep ==
  ASSUME Sorted, NEW h \in Handler, \A g \in Handler : Alone(g), Serve(h)
  PROVE  Sorted1 /\ \A g \in Handler : Alone1(g)
<1> USE DEF files_, counts
<1>0. /\ files \subseteq Sample /\ source \in Nat /\ app \in [Place -> Zip] /\ tree \subseteq Sample
      /\ archive \in [exists : BOOLEAN, holds : SUBSET Sample]
      /\ app["root"] \in Zip
  BY PlaceIs DEF Sorted
<1>a. Alone(h) /\ CallOK(call[h])
  BY DEF Sorted
<1>f. ASSUME NEW step, At(h, step), Onward(h, call[h]), Alone1(h)
      PROVE  \A g \in Handler : Alone1(g)
  BY <1>f, AtIs, OthersAlone DEF Onward
<1>i. call'[h] = Idle => Alone1(h)
  BY Empties DEF Alone1
<1>1. CASE Unlink(h)
  <2>1. At(h, "unlink") /\ Goes(h, call[h]) /\ UNCHANGED <<files, source, tree, archive>>
        /\ app' = [app EXCEPT ![PlaceOf(call[h].kind)] = NoZip]
    BY <1>1 DEF Unlink
  <2>2. /\ call' \in [Handler -> CallType] /\ \A g \in Handler : CallOK(call'[g])
        /\ Onward(h, call[h]) /\ call[h].kind # "none" /\ Head(call[h].rest) = "unlink"
    BY <2>1, PlainStep, AtIs
  <2>3. Sorted1
    BY <1>0, <2>1, <2>2, PlaceIs, Empties DEF Sorted1
  <2>4. Alone1(h)
    BY <1>a, <1>i, <2>2 DEF Onward, Alone, Alone1, Follows
  <2> QED BY <1>f, <2>1, <2>2, <2>3, <2>4
<1>2. CASE Pack(h)
  <2>1. At(h, "pack") /\ Goes(h, call[h]) /\ UNCHANGED <<files, source, tree, archive>>
        /\ app' = [app EXCEPT ![PlaceOf(call[h].kind)] = [NoZip EXCEPT !.code = source]]
    BY <1>2 DEF Pack
  <2>2. /\ call' \in [Handler -> CallType] /\ \A g \in Handler : CallOK(call'[g])
        /\ Onward(h, call[h]) /\ call[h].kind # "none" /\ Head(call[h].rest) = "pack"
    BY <2>1, PlainStep, AtIs
  <2>3. [NoZip EXCEPT !.code = source] \in Zip /\ [NoZip EXCEPT !.code = source].code = source
    BY <1>0, Empties DEF Zip
  <2>4. app' \in [Place -> Zip] /\ (call[h].kind = "script" => app'["root"].code = source)
    BY <1>0, <2>1, <2>3, PlaceIs DEF PlaceOf
  <2>5. Sorted1
    BY <1>0, <2>1, <2>2, <2>4 DEF Sorted1
  <2>6. Alone1(h)
    BY <1>a, <1>i, <2>1, <2>2, <2>4 DEF Onward, Alone, Alone1, Follows
  <2> QED BY <1>f, <2>1, <2>2, <2>5, <2>6
<1>3. CASE Verify(h)
  <2>1. At(h, "verify") /\ UNCHANGED <<files, source, app, tree, archive>>
    BY <1>3 DEF Verify, desk
  <2>2. CASE Goes(h, call[h])
    <3>2. /\ call' \in [Handler -> CallType] /\ \A g \in Handler : CallOK(call'[g])
          /\ Onward(h, call[h]) /\ call[h].kind # "none" /\ Head(call[h].rest) = "verify"
      BY <2>1, <2>2, PlainStep, AtIs
    <3>3. Sorted1
      BY <1>0, <2>1, <3>2 DEF Sorted1
    <3>4. Alone1(h)
      BY <1>a, <1>i, <2>1, <3>2 DEF Onward, Alone, Alone1, Follows
    <3> QED BY <1>f, <2>1, <3>2, <3>3, <3>4
  <2>3. CASE Fails(h)
    <3>1. /\ call' \in [Handler -> CallType] /\ \A g \in Handler : CallOK(call'[g])
          /\ call'[h] = Idle /\ \A g \in Handler \ {h} : call'[g] = call[g]
      BY <2>3, Empties, StaysSorted DEF Fails
    <3>2. Sorted1
      BY <1>0, <2>1, <3>1 DEF Sorted1
    <3> QED BY <1>i, <2>1, <3>1, <3>2, AtIs, OthersAlone
  <2> QED BY <1>3, <2>2, <2>3 DEF Verify
<1>4. CASE Plan(h)
  <2>1. At(h, "plan") /\ UNCHANGED <<files, source, app, tree, archive>>
    BY <1>4 DEF Plan, desk
  <2>2. PICK s \in Selections(call[h].want) :
          Goes(h, [call[h] EXCEPT !.sample = s, !.ready = s \in files])
    BY <1>4 DEF Plan
  <2>3. s \in Sample
    BY <1>0, AtIs, <2>1, <2>2, HandoffAssumption DEF Selections, CallType
  <2> DEFINE ready == s \in files
             c == [call[h] EXCEPT !.sample = s, !.ready = ready]
  <2>4. ready \in BOOLEAN
    OBVIOUS
  <2> HIDE DEF ready
  <2>5. c \in CallType /\ c.kind = call[h].kind /\ c.rest = call[h].rest /\ c.solo = call[h].solo
    <3> DEFINE c1 == [call[h] EXCEPT !.sample = s]
    <3>1. call[h] \in CallType
      BY <2>1, AtIs
    <3>2. c = [c1 EXCEPT !.ready = ready]
      BY <3>1 DEF CallType
    <3>3. c1 \in CallType /\ c1.kind = call[h].kind /\ c1.rest = call[h].rest /\ c1.solo = call[h].solo
      BY <2>3, <3>1 DEF CallType
    <3> HIDE DEF c1, c
    <3> QED BY <2>4, <3>2, <3>3 DEF CallType
  <2>6. Goes(h, c)
    BY <2>2 DEF ready
  <2> HIDE DEF c
  <2>7. CallOK(c)
    BY <1>a, <2>5 DEF CallOK
  <2>8. /\ call' \in [Handler -> CallType] /\ \A g \in Handler : CallOK(call'[g])
        /\ Onward(h, c) /\ call[h].kind # "none" /\ Head(c.rest) = "plan"
    BY <2>1, <2>5, <2>6, <2>7, PlainStep
  <2>9. Sorted1
    BY <1>0, <2>1, <2>8 DEF Sorted1
  <2>10. Alone1(h)
    BY <1>a, <1>i, <2>1, <2>5, <2>8 DEF Onward, Alone, Alone1, Follows
  <2> QED BY <2>8, <2>9, <2>10, OthersAlone DEF Onward
<1>5. CASE Clear(h)
  <2>1. /\ At(h, "clear") /\ tree' = {} /\ archive' = NoArchive /\ UNCHANGED <<files, source, app>>
    BY <1>5 DEF Clear
  <2>2. /\ call[h].rest # <<>> /\ Head(call[h].rest) = "clear" /\ Chained(call[h].rest)
        /\ call[h] \in CallType /\ call[h].kind # "none"
    BY <2>1, AtIs
  <2> DEFINE rest == Tail(call[h].rest)
             skip == IF call[h].ready THEN rest ELSE SubSeq(rest, 4, Len(rest))
             c == [call[h] EXCEPT !.rest = skip]
  <2>3. Chained(rest) /\ rest # <<>> /\ Head(rest) = "wipe"
    BY <2>2, TailChained DEF Follows, Ends
  <2>4. Chained(SubSeq(rest, 4, Len(rest))) /\ (SubSeq(rest, 4, Len(rest)) # <<>> => Head(SubSeq(rest, 4, Len(rest))) = "embed")
    BY <2>2, SkipChained
  <2>5. Chained(skip) /\ skip \in Seq(Steps) /\ (call[h].ready => skip # <<>> /\ Head(skip) = "wipe")
        /\ (~call[h].ready /\ skip # <<>> => Head(skip) = "embed")
    BY <2>3, <2>4 DEF Chained
  <2>6. Stays(h, IF skip = <<>> THEN Idle ELSE c)
    BY <1>5 DEF Clear
  <2> HIDE DEF skip
  <2>7. CASE skip = <<>>
    <3>1. /\ call' \in [Handler -> CallType] /\ \A g \in Handler : CallOK(call'[g])
          /\ call'[h] = Idle /\ \A g \in Handler \ {h} : call'[g] = call[g]
      BY <2>6, <2>7, Empties, StaysSorted
    <3>2. Sorted1
      BY <1>0, <2>1, <3>1, Empties DEF Sorted1
    <3> QED BY <1>i, <2>2, <3>1, <3>2, OthersAlone
  <2>8. CASE skip # <<>>
    <3>1. /\ c \in CallType /\ c.kind = call[h].kind /\ c.rest = skip /\ c.ready = call[h].ready
          /\ c.solo = call[h].solo
      BY <2>2, <2>5, RestSet
    <3> HIDE DEF c
    <3>2. CallOK(c)
      BY <2>2, <2>5, <2>8, <3>1 DEF CallOK
    <3>3. /\ call' \in [Handler -> CallType] /\ \A g \in Handler : CallOK(call'[g])
          /\ call'[h] = c /\ \A g \in Handler \ {h} : call'[g] = call[g]
      BY <2>6, <2>8, <3>2, StaysSorted
    <3>4. Sorted1
      BY <1>0, <2>1, <3>3, Empties DEF Sorted1
    <3>5. Alone1(h)
      BY <1>a, <2>1, <2>2, <2>5, <2>8, <3>1, <3>3 DEF Alone, Alone1
    <3> QED BY <2>2, <3>3, <3>4, <3>5, OthersAlone
  <2> QED BY <2>7, <2>8
<1>6. CASE Wipe(h)
  <2>1. At(h, "wipe") /\ Goes(h, call[h]) /\ tree' = {} /\ UNCHANGED <<files, source, app, archive>>
    BY <1>6 DEF Wipe
  <2>2. /\ call' \in [Handler -> CallType] /\ \A g \in Handler : CallOK(call'[g])
        /\ Onward(h, call[h]) /\ call[h].kind # "none" /\ Head(call[h].rest) = "wipe"
    BY <2>1, PlainStep, AtIs
  <2>3. Sorted1
    BY <1>0, <2>1, <2>2 DEF Sorted1
  <2>4. Alone1(h)
    BY <1>a, <1>i, <2>1, <2>2 DEF Onward, Alone, Alone1, Follows
  <2> QED BY <1>f, <2>1, <2>2, <2>3, <2>4
<1>7. CASE Copy(h)
  <2>1. At(h, "copy") /\ UNCHANGED <<files, source, app, archive>>
    BY <1>7 DEF Copy
  <2>2. CASE call[h].sample \in files /\ tree' = tree \cup {call[h].sample} /\ Goes(h, call[h])
    <3>2. /\ call' \in [Handler -> CallType] /\ \A g \in Handler : CallOK(call'[g])
          /\ Onward(h, call[h]) /\ call[h].kind # "none" /\ Head(call[h].rest) = "copy"
      BY <2>1, <2>2, PlainStep, AtIs
    <3>3. Sorted1
      BY <1>0, <2>1, <2>2, <3>2 DEF Sorted1
    <3>4. Alone1(h)
      BY <1>a, <1>i, <2>1, <2>2, <3>2 DEF Onward, Alone, Alone1, Follows
    <3> QED BY <1>f, <2>1, <3>2, <3>3, <3>4
  <2>3. CASE UNCHANGED tree /\ Fails(h)
    <3>1. /\ call' \in [Handler -> CallType] /\ \A g \in Handler : CallOK(call'[g])
          /\ call'[h] = Idle /\ \A g \in Handler \ {h} : call'[g] = call[g]
      BY <2>3, Empties, StaysSorted DEF Fails
    <3>2. Sorted1
      BY <1>0, <2>1, <2>3, <3>1 DEF Sorted1
    <3> QED BY <1>i, <2>1, <3>1, <3>2, AtIs, OthersAlone
  <2> QED BY <1>7, <2>2, <2>3 DEF Copy
<1>8. CASE Archive(h)
  <2>1. /\ At(h, "zip") /\ Goes(h, call[h]) /\ archive' = [exists |-> TRUE, holds |-> tree]
        /\ UNCHANGED <<files, source, app, tree>>
    BY <1>8 DEF Archive
  <2>2. /\ call' \in [Handler -> CallType] /\ \A g \in Handler : CallOK(call'[g])
        /\ Onward(h, call[h]) /\ call[h].kind # "none" /\ Head(call[h].rest) = "zip"
    BY <2>1, PlainStep, AtIs
  <2>3. archive' \in [exists : BOOLEAN, holds : SUBSET Sample] /\ archive'.exists /\ archive'.holds = tree
    BY <1>0, <2>1
  <2>4. Sorted1
    BY <1>0, <2>1, <2>2, <2>3 DEF Sorted1
  <2>5. Alone1(h)
    BY <1>a, <1>i, <2>1, <2>2, <2>3 DEF Onward, Alone, Alone1, Follows
  <2> QED BY <1>f, <2>1, <2>2, <2>4, <2>5
<1>9. CASE Embed(h)
  <2>1. At(h, "embed") /\ UNCHANGED <<files, source, tree, archive>>
    BY <1>9 DEF Embed
  <2>2. /\ call[h].rest # <<>> /\ Head(call[h].rest) = "embed" /\ Chained(call[h].rest)
        /\ call[h] \in CallType /\ call[h].kind # "none" /\ CallOK(call[h])
    BY <2>1, AtIs
  <2> DEFINE rooted == app["root"]
             new == Embedded(rooted, archive)
  <2>3. new \in Zip /\ new.code = rooted.code /\ new.embed = archive.holds /\ new.bundled
    BY <1>0, EmbeddedZip
  <2> HIDE DEF new
  <2>4. \/ /\ ~call[h].ready \/ rooted.code = 0 \/ ~archive.exists \/ ~rooted.bundled \/ new = rooted
           /\ Stays(h, [call[h] EXCEPT !.rest = Tail(Tail(call[h].rest))])
           /\ app' = IF call[h].ready /\ rooted.code # 0 /\ archive.exists /\ ~rooted.bundled
                       THEN [app EXCEPT !["root"] = new] ELSE app
        \/ /\ call[h].ready /\ rooted.code # 0
           /\ Goes(h, [call[h] EXCEPT !.hold = new])
           /\ UNCHANGED app
    BY <1>9 DEF Embed, new
  <2>5. /\ Chained(Tail(call[h].rest)) /\ Tail(call[h].rest) # <<>> /\ Head(Tail(call[h].rest)) = "replace"
    BY <2>2, TailChained DEF Follows, Ends
  <2>6. /\ Chained(Tail(Tail(call[h].rest))) /\ Tail(Tail(call[h].rest)) # <<>>
        /\ Head(Tail(Tail(call[h].rest))) = "handoff"
    BY <2>5, TailChained DEF Follows, Ends
  <2>7. ASSUME \/ ~call[h].ready \/ rooted.code = 0 \/ ~archive.exists \/ ~rooted.bundled \/ new = rooted,
               Stays(h, [call[h] EXCEPT !.rest = Tail(Tail(call[h].rest))]),
               app' = IF call[h].ready /\ rooted.code # 0 /\ archive.exists /\ ~rooted.bundled
                       THEN [app EXCEPT !["root"] = new] ELSE app
        PROVE  Sorted1 /\ \A g \in Handler : Alone1(g)
    <3> DEFINE rest == Tail(Tail(call[h].rest))
               c == [call[h] EXCEPT !.rest = rest]
    <3>1. rest \in Seq(Steps) /\ Chained(rest) /\ rest # <<>> /\ Head(rest) = "handoff"
      BY <2>6 DEF Chained
    <3>2. Stays(h, c)
      BY <2>7
    <3> HIDE DEF rest
    <3>3. /\ c \in CallType /\ c.kind = call[h].kind /\ c.rest = rest /\ c.ready = call[h].ready
          /\ c.solo = call[h].solo /\ c.sample = call[h].sample
      BY <2>2, <3>1, RestSet
    <3> HIDE DEF c
    <3>4. CallOK(c)
      BY <2>2, <3>1, <3>3 DEF CallOK
    <3>5. /\ call' \in [Handler -> CallType] /\ \A g \in Handler : CallOK(call'[g])
          /\ call'[h] = c /\ \A g \in Handler \ {h} : call'[g] = call[g]
      BY <3>2, <3>4, StaysSorted
    <3>6. app' \in [Place -> Zip] /\ app'["root"] = IF call[h].ready /\ rooted.code # 0 /\ archive.exists /\ ~rooted.bundled
                                                   THEN new ELSE rooted
      BY <1>0, <2>3, <2>7, PlaceIs
    <3>7. Sorted1
      BY <1>0, <2>1, <3>5, <3>6 DEF Sorted1
    <3>8. app'["root"].code = rooted.code
      BY <2>3, <3>6
    <3>9. call[h].ready /\ rooted.code # 0 /\ archive.exists => app'["root"].embed = archive.holds
      BY <2>3, <2>7, <3>6
    <3>10. Alone1(h)
      <4> SUFFICES ASSUME call'[h].solo, call'[h].kind # "none" PROVE Alone1(h)
        BY DEF Alone1
      <4>1. /\ \A g \in Handler \ {h} : call'[g].kind = "none"
            /\ call'[h].kind = "script" => app'["root"].code = source'
            /\ call'[h].ready => archive'.exists /\ archive'.holds = {call'[h].sample}
            /\ call'[h].ready /\ app'["root"].code # 0 => app'["root"].embed = {call'[h].sample}
        BY <1>a, <2>1, <2>2, <3>3, <3>5, <3>8, <3>9 DEF Alone
      <4>2. Head(call'[h].rest) = "handoff"
        BY <3>1, <3>3, <3>5
      <4> QED BY <4>1, <4>2 DEF Alone1
    <3> QED BY <2>2, <3>5, <3>7, <3>10, OthersAlone
  <2>8. ASSUME call[h].ready, Goes(h, [call[h] EXCEPT !.hold = new]), UNCHANGED app
        PROVE  Sorted1 /\ \A g \in Handler : Alone1(g)
    <3> DEFINE c == [call[h] EXCEPT !.hold = new]
    <3>1. /\ c \in CallType /\ c.kind = call[h].kind /\ c.rest = call[h].rest /\ c.solo = call[h].solo
          /\ c.sample = call[h].sample /\ c.ready = call[h].ready /\ c.hold = new
      BY <2>2, <2>3, HeldCall
    <3>2. Goes(h, c)
      BY <2>8
    <3> HIDE DEF c
    <3>3. CallOK(c)
      BY <2>2, <3>1 DEF CallOK
    <3>4. /\ call' \in [Handler -> CallType] /\ \A g \in Handler : CallOK(call'[g])
          /\ Onward(h, c) /\ Head(c.rest) = "embed"
      BY <2>1, <3>1, <3>2, <3>3, PlainStep
    <3>5. Sorted1
      BY <1>0, <2>1, <2>8, <3>4 DEF Sorted1
    <3>6. Alone1(h)
      BY <1>a, <1>i, <2>1, <2>3, <2>8, <3>1, <3>4 DEF Onward, Alone, Alone1, Follows
    <3> QED BY <2>2, <3>4, <3>5, <3>6, OthersAlone DEF Onward
  <2> QED BY <2>4, <2>7, <2>8
<1>10. CASE Replace(h)
  <2>1. /\ At(h, "replace") /\ Goes(h, call[h]) /\ app' = [app EXCEPT !["root"] = call[h].hold]
        /\ UNCHANGED <<files, source, tree, archive>>
    BY <1>10 DEF Replace
  <2>2. /\ call' \in [Handler -> CallType] /\ \A g \in Handler : CallOK(call'[g])
        /\ Onward(h, call[h]) /\ call[h].kind # "none" /\ Head(call[h].rest) = "replace"
    BY <2>1, PlainStep, AtIs
  <2>3. call[h].hold \in Zip
    BY <1>a DEF CallOK, CallType
  <2>4. app' \in [Place -> Zip] /\ app'["root"] = call[h].hold
    BY <1>0, <2>1, <2>3, PlaceIs
  <2>5. Sorted1
    BY <1>0, <2>1, <2>2, <2>4 DEF Sorted1
  <2>6. Alone1(h)
    BY <1>a, <1>i, <2>1, <2>2, <2>4 DEF Onward, Alone, Alone1, Follows
  <2> QED BY <1>f, <2>1, <2>2, <2>5, <2>6
<1>11. CASE WriteHandoff(h)
  <2>1. At(h, "handoff") /\ Goes(h, call[h]) /\ UNCHANGED <<files, source, app, tree, archive>>
    BY <1>11 DEF WriteHandoff
  <2>2. /\ call' \in [Handler -> CallType] /\ \A g \in Handler : CallOK(call'[g])
        /\ Onward(h, call[h]) /\ call[h].kind # "none" /\ Head(call[h].rest) = "handoff"
    BY <2>1, PlainStep, AtIs
  <2>3. Sorted1
    BY <1>0, <2>1, <2>2 DEF Sorted1
  <2>4. Alone1(h)
    BY <1>a, <1>i, <2>1, <2>2 DEF Onward, Alone, Alone1, Follows
  <2> QED BY <1>f, <2>1, <2>2, <2>3, <2>4
<1>12. CASE Begin(h)
  BY <1>12, BeginStep
<1> QED BY <1>1, <1>2, <1>3, <1>4, <1>5, <1>6, <1>7, <1>8, <1>9, <1>10, <1>11, <1>12 DEF Serve

LEMMA DeskKept ==
  ASSUME Sorted, \A h \in Handler : Alone(h), [HandoffStep]_hvars
  PROVE  Sorted1 /\ \A h \in Handler : Alone1(h)
<1>1. CASE UNCHANGED hvars
  BY <1>1 DEF hvars, desk, files_, Sorted, Sorted1, Alone, Alone1
<1>2. ASSUME NEW h \in Handler, Serve(h) PROVE Sorted1 /\ \A g \in Handler : Alone1(g)
  BY <1>2, ServeStep
<1>3. ASSUME NEW h \in Handler, Crash(h) PROVE Sorted1 /\ \A g \in Handler : Alone1(g)
  <2>1. /\ call' \in [Handler -> CallType] /\ \A g \in Handler : CallOK(call'[g])
        /\ call'[h] = Idle /\ \A g \in Handler \ {h} : call'[g] = call[g]
        /\ call[h].kind # "none" /\ UNCHANGED <<files, source, app, tree, archive>>
    BY <1>3, Empties, StaysSorted DEF Fails, Crash, desk, files_
  <2>2. Sorted1
    BY <2>1 DEF Sorted, Sorted1
  <2>3. Alone1(h)
    BY <2>1, Empties DEF Alone1
  <2> QED BY <2>1, <2>2, <2>3, OthersAlone
<1>4. CASE Change
  <2>1. Sorted1
    BY <1>4, ChangeIs DEF Sorted, Sorted1
  <2>2. \A h \in Handler : Alone1(h)
    BY <1>4, ChangeIs DEF Alone1
  <2> QED BY <2>1, <2>2
<1> QED BY <1>1, <1>2, <1>3, <1>4 DEF HandoffStep

DeskInv == Sorted /\ \A h \in Handler : Alone(h)

LEMMA DeskInit == HandoffInit => DeskInv
<1> SUFFICES ASSUME HandoffInit PROVE DeskInv
  OBVIOUS
<1>1. call \in [Handler -> CallType] /\ \A h \in Handler : CallOK(call[h]) /\ call[h].kind = "none"
  BY Empties DEF HandoffInit, CallOK
<1>2. app \in [Place -> Zip] /\ tree \subseteq Sample /\ archive \in [exists : BOOLEAN, holds : SUBSET Sample]
  BY Empties DEF HandoffInit
<1> QED BY <1>1, <1>2 DEF DeskInv, HandoffInit, Sorted, Alone

LEMMA DeskStepKept == DeskInv /\ [HandoffStep]_hvars => DeskInv'
<1> SUFFICES ASSUME DeskInv, [HandoffStep]_hvars PROVE DeskInv'
  OBVIOUS
<1>1. Sorted1 /\ \A h \in Handler : Alone1(h)
  BY DeskKept DEF DeskInv
<1>2. Sorted'
  BY <1>1 DEF Sorted, Sorted1
<1>3. (\A h \in Handler : Alone(h))'
  BY <1>1 DEF Alone, Alone1
<1> QED BY <1>2, <1>3 DEF DeskInv

LEMMA DeskTyped == DeskInv => HandoffTypeOK
BY DEF DeskInv, Sorted, CallOK, HandoffTypeOK

\* Files and requests at the desk stay well formed.
THEOREM HandoffTypesHold == HandoffSpec => []HandoffTypeOK
BY DeskInit, DeskStepKept, DeskTyped, PTL DEF HandoffSpec

LEMMA ReadyMeans ==
  ASSUME NEW z, NEW a, NEW ready, HandoffStatus(z, a, ready) = "ready_for_upload",
         z.code \in Nat, a.exists \in BOOLEAN, ready \in BOOLEAN, z.bundled \in BOOLEAN
  PROVE  z.code # 0 /\ ready
<1>1. CASE z.code = 0 /\ ~a.exists
  BY <1>1 DEF HandoffStatus
<1>2. CASE z.code = 0 /\ a.exists
  BY <1>2 DEF HandoffStatus
<1>3. CASE z.code # 0 /\ ~(ready /\ a.exists)
  BY <1>3 DEF HandoffStatus
<1> QED BY <1>1, <1>2, <1>3

LEMMA SoloIsTrue ==
  ASSUME DeskInv, NEW h \in Handler, call[h].solo, WriteHandoff(h), handoff'.status = "ready_for_upload"
  PROVE  /\ app["root"].embed = {call[h].sample}
         /\ call[h].kind = "script" => app["root"].code = source
<1>1. At(h, "handoff") /\ handoff'.status = HandoffStatus(app["root"], archive, call[h].ready)
  BY DEF WriteHandoff
<1>2. call[h].kind # "none" /\ Head(call[h].rest) = "handoff" /\ call[h] \in CallType
  BY <1>1, AtIs DEF DeskInv
<1>3. app["root"] \in Zip /\ archive \in [exists : BOOLEAN, holds : SUBSET Sample]
  BY PlaceIs DEF DeskInv, Sorted
<1>4. app["root"].code # 0 /\ call[h].ready
  BY <1>1, <1>2, <1>3, ReadyMeans DEF Zip, CallType
<1> QED BY <1>2, <1>4 DEF DeskInv, Alone

\* A handoff that nobody interfered with says ready only of a zip with its sample in it
\* and, after the script's rebuild, the sources as they are.
THEOREM SoloHandoffHolds == HandoffSpec => SoloHandoffIsTrue
<1>1. DeskInv /\ [HandoffStep]_hvars =>
        [\A h \in Handler : call[h].solo /\ WriteHandoff(h) /\ handoff'.status = "ready_for_upload"
           => /\ app["root"].embed = {call[h].sample}
              /\ call[h].kind = "script" => app["root"].code = source]_hvars
  BY SoloIsTrue
<1> QED BY <1>1, DeskInit, DeskStepKept, PTL DEF HandoffSpec, SoloHandoffIsTrue

-----------------------------------------------------------------------------
\* The pod.
HealthType  == [there : BOOLEAN, code : Nat, sample : Sample \cup {Nothing}, ok : BOOLEAN]
ModelsType  == [ok : BOOLEAN, scoped : BOOLEAN]
NodesType   == [run : Nat, ok : BOOLEAN]
SummaryType == [run : Nat, checked : BOOLEAN, ready : BOOLEAN, models : ModelsType, nodes : BOOLEAN]
RuntimeType == [health : HealthType, models : ModelsType, nodes : NodesType, summary : SummaryType]
HomeType    == [models : ModelsType, nodes : NodesType, summary : SummaryType]
DiskType    == [code : Nat, bundled : BOOLEAN, bundle : SUBSET Sample, samples : SUBSET Sample, stamp : Zip]
BootStep    == {"none", "prepare", "health", "storage", "models", "nodes", "summary", "renodes", "refreshed"}

PodSorted ==
  /\ handoff.sample \in Sample \cup {Nothing} /\ app \in [Place -> Zip]
  /\ zip \in Zip /\ disk \in DiskType
  /\ runtime \in RuntimeType /\ home \in HomeType
  /\ boot \in [step : BootStep, force : BOOLEAN]
  /\ booted \in {"no", "plain", "forced"} /\ runs \in Nat

Bundled(d) == d.bundled => d.bundle \subseteq d.samples

\* How far a bootstrap has come, and what one that was completed has left.
Booting ==
  /\ ~Quiet => disk.code # 0 /\ runs > 0
  /\ boot.step \in {"nodes", "summary", "renodes", "refreshed"} => runtime.models.ok
  /\ booted # "no" => runtime.summary.run # 0 /\ runtime.models.ok
  /\ boot.step \in {"prepare", "health", "storage", "models", "nodes", "summary"} /\ ~boot.force => Bundled(disk)
  /\ booted = "plain" => Bundled(disk)
  /\ boot.step \in {"storage", "models", "nodes", "summary"} => runtime.health.there /\ runtime.health.code = disk.code
  /\ booted # "no" => runtime.health.code = disk.code
  /\ runtime.health.ok /\ runtime.health.sample # Nothing => runtime.health.sample \in disk.samples

Contract(m) == m.ok => m.scoped
Report(s)   == Contract(s.models) /\ (s.run # 0 => s.models.ok) /\ (s.checked => s.run # 0)
Agree(s, n) == s.run = n.run /\ s.run # 0 => s.nodes = n.ok

\* A summary agrees with the contract of nodes of its run, wherever either of them is.
Evidence ==
  /\ Contract(runtime.models) /\ Contract(home.models)
  /\ Report(runtime.summary) /\ Report(home.summary)
  /\ Agree(runtime.summary, runtime.nodes) /\ Agree(runtime.summary, home.nodes)
  /\ Agree(home.summary, runtime.nodes) /\ Agree(home.summary, home.nodes)

\* What a run has not written yet is of an earlier one.
Numbered ==
  /\ runtime.summary.run <= runs /\ home.summary.run <= runs
  /\ runtime.nodes.run <= runs /\ home.nodes.run <= runs
  /\ ~Quiet => runtime.summary.run < runs /\ home.summary.run < runs /\ home.nodes.run < runs
  /\ boot.step \in {"prepare", "health", "storage", "models", "nodes", "renodes"} => runtime.nodes.run < runs
  /\ boot.step \in {"summary", "refreshed"} => runtime.nodes.run = runs

PodInv == PodSorted /\ Booting /\ Evidence /\ Numbered

LEMMA ScopedContract ==
  ASSUME NEW asked \in Asked
  PROVE  ModelContract(asked) \in ModelsType /\ ModelContract(asked).ok /\ ModelContract(asked).scoped
<1>0. asked.all \in BOOLEAN /\ asked.profile \in BOOLEAN /\ asked.named \in BOOLEAN
  BY DEF Asked
<1>1. DownloadScope(asked) \in ProfileScoped
  <2>1. CASE asked.all
    BY <2>1 DEF DownloadScope, ProfileScoped
  <2>2. CASE ~asked.all /\ asked.profile
    BY <2>2 DEF DownloadScope, ProfileScoped
  <2>3. CASE ~asked.all /\ ~asked.profile
    BY <2>3 DEF DownloadScope, ProfileScoped
  <2> QED BY <1>0, <2>1, <2>2, <2>3
<1> QED BY <1>1 DEF ModelContract, ModelsType

LEMMA NoEvidence ==
  /\ NoHealth \in HealthType /\ NoHealth.ok = FALSE
  /\ NoModels \in ModelsType /\ NoModels.ok = FALSE
  /\ NoNodes \in NodesType /\ NoNodes.run = 0
  /\ NoSummary \in SummaryType /\ NoSummary.run = 0 /\ NoSummary.checked = FALSE /\ NoSummary.models = NoModels
  /\ NoRuntime \in RuntimeType
  /\ NoRuntime.health = NoHealth /\ NoRuntime.models = NoModels
  /\ NoRuntime.nodes = NoNodes /\ NoRuntime.summary = NoSummary
<1>1. NoHealth \in HealthType /\ NoHealth.ok = FALSE
  BY DEF NoHealth, HealthType
<1>2. NoModels \in ModelsType /\ NoModels.ok = FALSE
  BY DEF NoModels, ModelsType
<1>3. NoNodes \in NodesType /\ NoNodes.run = 0
  BY DEF NoNodes, NodesType
<1>4. NoSummary \in SummaryType /\ NoSummary.run = 0 /\ NoSummary.checked = FALSE /\ NoSummary.models = NoModels
  BY <1>2 DEF NoSummary, SummaryType
<1>5. /\ NoRuntime \in RuntimeType
      /\ NoRuntime.health = NoHealth /\ NoRuntime.models = NoModels
      /\ NoRuntime.nodes = NoNodes /\ NoRuntime.summary = NoSummary
  BY <1>1, <1>2, <1>3, <1>4 DEF NoRuntime, RuntimeType
<1> QED BY <1>1, <1>2, <1>3, <1>4, <1>5

LEMMA PodInit == Init => PodInv
<1> SUFFICES ASSUME Init PROVE PodInv
  OBVIOUS
<1>1. PodSorted
  <2>1. handoff.sample = Nothing /\ app \in [Place -> Zip]
    BY Empties DEF Init, HandoffInit, NoHandoff
  <2>2. disk \in DiskType /\ zip \in Zip
    BY Empties DEF Init, DiskType
  <2>3. boot \in [step : BootStep, force : BOOLEAN]
    BY DEF Init, AtRest, BootStep
  <2>4. home \in HomeType /\ runtime \in RuntimeType
    BY NoEvidence DEF Init, HomeType
  <2> QED BY <2>1, <2>2, <2>3, <2>4 DEF Init, PodSorted
<1>2. boot.step = "none" /\ booted = "no"
  BY DEF Init, AtRest
<1>3. Booting
  BY <1>2, NoEvidence DEF Init, Booting, Quiet
<1>4. Evidence
  BY NoEvidence DEF Init, Evidence, Contract, Report, Agree
<1>5. Numbered
  BY <1>2, NoEvidence DEF Init, Numbered, Quiet
<1> QED BY <1>1, <1>3, <1>4, <1>5 DEF PodInv

LEMMA UploadKept == PodInv /\ Upload => PodInv'
<1> SUFFICES ASSUME PodInv, Upload PROVE PodInv'
  OBVIOUS
<1>1. UNCHANGED <<handoff, app, disk, runtime, home, boot, booted, runs>> /\ zip' = app["root"]
  BY DEF Upload, hvars, desk
<1>2. zip' \in Zip
  BY <1>1 DEF PodInv, PodSorted, Place
<1> QED BY <1>1, <1>2 DEF PodInv, PodSorted, Booting, Evidence, Numbered, Quiet

LEMMA UnpackKept == PodInv /\ Unpack => PodInv'
<1> SUFFICES ASSUME PodInv, Unpack PROVE PodInv'
  OBVIOUS
<1>1. UNCHANGED <<handoff, app, zip, runtime, home, boot, runs>> /\ booted' = "no" /\ boot.step = "none"
  BY DEF Unpack, hvars, desk, Quiet
<1>2. disk' \in DiskType /\ disk'.samples = disk.samples
  BY DEF Unpack, PodInv, PodSorted, DiskType, Zip
<1>3. PodSorted'
  BY <1>1, <1>2 DEF PodInv, PodSorted
<1>4. Booting'
  BY <1>1, <1>2 DEF PodInv, Booting, Quiet
<1> QED BY <1>1, <1>3, <1>4 DEF PodInv, Evidence, Numbered, Quiet

LEMMA BootKept == PodInv /\ (\E force \in BOOLEAN : Boot(force)) => PodInv'
<1> SUFFICES ASSUME PodInv, NEW force \in BOOLEAN, Boot(force) PROVE PodInv'
  OBVIOUS
<1>1. /\ UNCHANGED <<handoff, app, zip, runtime, home, booted>> /\ runs' = runs + 1
      /\ boot' = [step |-> "prepare", force |-> force] /\ disk.code # 0
      /\ boot'.step = "prepare"
  BY DEF Boot, hvars, desk, Quiet
<1>2. disk' \in DiskType /\ disk.samples \subseteq disk'.samples /\ Bundled(disk') /\ disk'.code = disk.code
  BY DEF Boot, PodInv, PodSorted, DiskType, Bundled
<1>3. PodSorted'
  BY <1>1, <1>2 DEF PodInv, PodSorted, BootStep
<1>4. Booting'
  BY <1>1, <1>2 DEF PodInv, PodSorted, Booting, Quiet
<1>5. Numbered'
  BY <1>1 DEF PodInv, PodSorted, Numbered, Quiet, RuntimeType, HomeType, SummaryType, NodesType
<1> QED BY <1>1, <1>3, <1>4, <1>5 DEF PodInv, Evidence

LEMMA PrepareKept == PodInv /\ Prepare => PodInv'
<1> SUFFICES ASSUME PodInv, Prepare PROVE PodInv'
  OBVIOUS
<1>1. /\ UNCHANGED <<handoff, app, zip, home, runs>> /\ boot.step = "prepare"
      /\ boot' \in [step : BootStep, force : BOOLEAN] /\ boot'.step = "health" /\ boot'.force = boot.force
  BY DEF Prepare, Step, hvars, desk, PodInv, PodSorted, BootStep
<1>2. CASE boot.force /\ zip.code # 0
  <2>1. /\ disk' = [code |-> zip.code, bundled |-> zip.bundled, bundle |-> zip.embed,
                   samples |-> {}, stamp |-> zip]
        /\ runtime' = NoRuntime /\ booted' = "no"
    BY <1>2 DEF Prepare
  <2>2. disk' \in DiskType /\ disk'.code # 0
    BY <1>2, <2>1 DEF PodInv, PodSorted, DiskType, Zip
  <2>3. PodSorted'
    BY <1>1, <2>1, <2>2, NoEvidence DEF PodInv, PodSorted
  <2>4. Booting'
    BY <1>1, <1>2, <2>1, <2>2, NoEvidence DEF PodInv, PodSorted, Booting, Quiet
  <2>5. Evidence'
    BY <1>1, <2>1, NoEvidence DEF PodInv, Evidence, Report, Contract, Agree
  <2>6. Numbered'
    BY <1>1, <2>1, NoEvidence DEF PodInv, PodSorted, Numbered, Booting, Quiet
  <2> QED BY <2>3, <2>4, <2>5, <2>6 DEF PodInv
<1>3. CASE ~(boot.force /\ zip.code # 0)
  <2>1. UNCHANGED <<runtime, booted>> /\ disk' = [disk EXCEPT !.stamp = IF @.code = 0 THEN zip ELSE @]
    BY <1>3 DEF Prepare
  <2>2. /\ disk' \in DiskType /\ disk'.code = disk.code /\ disk'.samples = disk.samples
        /\ Bundled(disk) <=> Bundled(disk')
    BY <2>1 DEF PodInv, PodSorted, DiskType, Bundled
  <2>3. PodSorted'
    BY <1>1, <2>1, <2>2 DEF PodInv, PodSorted
  <2>4. Booting'
    BY <1>1, <2>1, <2>2 DEF PodInv, Booting, Quiet
  <2>5. Evidence' /\ Numbered'
    BY <1>1, <2>1 DEF PodInv, Evidence, Numbered, Quiet
  <2> QED BY <2>3, <2>4, <2>5 DEF PodInv
<1> QED BY <1>2, <1>3

LEMMA HealthKept == PodInv /\ Health => PodInv'
<1> SUFFICES ASSUME PodInv, Health PROVE PodInv'
  OBVIOUS
<1>1. /\ UNCHANGED <<handoff, app, zip, disk, home, booted, runs>> /\ boot.step = "health"
      /\ \E ok \in BOOLEAN :
           /\ runtime' = [runtime EXCEPT !.health =
                [there |-> TRUE, code |-> disk.code, sample |-> Nothing, ok |-> ok]]
           /\ boot' = IF ok THEN [boot EXCEPT !.step = "storage"] ELSE AtRest
  BY DEF Health, hvars, desk
<1>2. /\ boot' \in [step : BootStep, force : BOOLEAN] /\ boot'.step \in {"none", "storage"}
      /\ boot'.step = "storage" => boot'.force = boot.force
  BY <1>1 DEF PodInv, PodSorted, BootStep, AtRest
<1>3. PICK ok \in BOOLEAN : runtime' = [runtime EXCEPT !.health =
                [there |-> TRUE, code |-> disk.code, sample |-> Nothing, ok |-> ok]]
  BY <1>1
<1>4. [there |-> TRUE, code |-> disk.code, sample |-> Nothing, ok |-> ok] \in HealthType
  BY DEF HealthType, PodInv, PodSorted, DiskType
<1>5. /\ runtime' \in RuntimeType /\ runtime'.health.there /\ runtime'.health.code = disk.code
      /\ runtime'.health.sample = Nothing
      /\ runtime'.models = runtime.models /\ runtime'.nodes = runtime.nodes /\ runtime'.summary = runtime.summary
  BY <1>3, <1>4 DEF PodInv, PodSorted, RuntimeType
<1>6. PodSorted'
  BY <1>1, <1>2, <1>5 DEF PodInv, PodSorted
<1>7. Booting'
  BY <1>1, <1>2, <1>5 DEF PodInv, Booting, Quiet
<1>8. Evidence'
  BY <1>1, <1>5 DEF PodInv, Evidence
<1>9. Numbered'
  BY <1>1, <1>2, <1>5 DEF PodInv, Numbered, Quiet
<1> QED BY <1>6, <1>7, <1>8, <1>9 DEF PodInv

\* A run that is over, whether it came through or not, promises nothing that it has not left.
LEMMA StorageKept == PodInv /\ (Storage \/ BootFails) => PodInv'
<1> SUFFICES ASSUME PodInv, Storage \/ BootFails PROVE PodInv'
  OBVIOUS
<1>1. UNCHANGED <<handoff, app, zip, disk, runtime, home, booted, runs>>
  BY DEF Storage, BootFails, hvars, desk
<1>2. /\ boot' \in [step : BootStep, force : BOOLEAN]
      /\ \/ boot'.step = "none"
         \/ boot.step = "storage" /\ boot'.step = "models" /\ boot'.force = boot.force
  <2>1. AtRest \in [step : BootStep, force : BOOLEAN] /\ AtRest.step = "none"
    BY DEF AtRest, BootStep
  <2>2. \/ boot' = AtRest
        \/ boot.step = "storage" /\ boot' = [boot EXCEPT !.step = "models"]
    BY DEF Storage, BootFails
  <2> QED BY <2>1, <2>2 DEF PodInv, PodSorted, BootStep
<1>3. PodSorted' /\ Evidence'
  BY <1>1, <1>2 DEF PodInv, PodSorted, Evidence
<1>4. Booting'
  BY <1>1, <1>2 DEF PodInv, Booting, Quiet
<1>5. Numbered'
  BY <1>1, <1>2 DEF PodInv, Numbered, Quiet
<1> QED BY <1>3, <1>4, <1>5 DEF PodInv

\* A contract of models is written, at its place in a bootstrap or by a refresh.
LEMMA ContractWritten ==
  ASSUME PodInv, NEW asked \in Asked, runtime' = [runtime EXCEPT !.models = ModelContract(asked)]
  PROVE  /\ runtime' \in RuntimeType /\ runtime'.models.ok /\ runtime'.models.scoped
         /\ runtime'.health = runtime.health /\ runtime'.nodes = runtime.nodes /\ runtime'.summary = runtime.summary
BY ScopedContract DEF PodInv, PodSorted, RuntimeType

LEMMA ModelsKept == PodInv /\ Models => PodInv'
<1> SUFFICES ASSUME PodInv, Models PROVE PodInv'
  OBVIOUS
<1>1. /\ UNCHANGED <<handoff, app, zip, disk, home, booted, runs>> /\ boot.step = "models"
      /\ boot' \in [step : BootStep, force : BOOLEAN] /\ boot'.step = "nodes" /\ boot'.force = boot.force
  BY DEF Models, Step, hvars, desk, PodInv, PodSorted, BootStep
<1>2. PICK asked \in Asked : runtime' = [runtime EXCEPT !.models = ModelContract(asked)]
  BY DEF Models
<1>3. /\ runtime' \in RuntimeType /\ runtime'.models.ok /\ runtime'.models.scoped
      /\ runtime'.health = runtime.health /\ runtime'.nodes = runtime.nodes /\ runtime'.summary = runtime.summary
  BY <1>2, ContractWritten
<1>4. PodSorted'
  BY <1>1, <1>3 DEF PodInv, PodSorted
<1>5. Booting'
  BY <1>1, <1>3 DEF PodInv, Booting, Quiet
<1>6. Evidence'
  BY <1>1, <1>3 DEF PodInv, Evidence, Contract
<1>7. Numbered'
  BY <1>1, <1>3 DEF PodInv, Numbered, Quiet
<1> QED BY <1>4, <1>5, <1>6, <1>7 DEF PodInv

LEMMA RefreshKept == PodInv /\ Refresh => PodInv'
<1> SUFFICES ASSUME PodInv, Refresh PROVE PodInv'
  OBVIOUS
<1>1. /\ UNCHANGED <<handoff, app, zip, disk, home, booted>> /\ boot.step = "none" /\ disk.code # 0
      /\ runs' = runs + 1
      /\ boot' \in [step : BootStep, force : BOOLEAN] /\ boot'.step = "renodes"
  BY DEF Refresh, hvars, desk, Quiet, AtRest, BootStep
<1>2. PICK asked \in Asked : runtime' = [runtime EXCEPT !.models = ModelContract(asked)]
  BY DEF Refresh
<1>3. /\ runtime' \in RuntimeType /\ runtime'.models.ok /\ runtime'.models.scoped
      /\ runtime'.health = runtime.health /\ runtime'.nodes = runtime.nodes /\ runtime'.summary = runtime.summary
  BY <1>2, ContractWritten
<1>4. PodSorted'
  BY <1>1, <1>3 DEF PodInv, PodSorted
<1>5. Booting'
  BY <1>1, <1>3 DEF PodInv, PodSorted, Booting, Quiet
<1>6. Evidence'
  BY <1>1, <1>3 DEF PodInv, Evidence, Contract
<1>7. Numbered'
  BY <1>1, <1>3 DEF PodInv, PodSorted, Numbered, Quiet, RuntimeType, HomeType, SummaryType, NodesType
<1> QED BY <1>4, <1>5, <1>6, <1>7 DEF PodInv

LEMMA ContractsKept == PodInv /\ Contracts => PodInv'
<1> SUFFICES ASSUME PodInv, Contracts PROVE PodInv'
  OBVIOUS
<1>1. UNCHANGED <<handoff, app, zip, disk, home, booted, runs>>
  BY DEF Contracts, hvars, desk
<1>2. /\ boot' \in [step : BootStep, force : BOOLEAN] /\ boot'.force = boot.force
      /\ \/ boot.step = "nodes" /\ boot'.step = "summary"
         \/ boot.step = "renodes" /\ boot'.step = "refreshed"
  BY DEF Contracts, PodInv, PodSorted, BootStep
<1>3. PICK ok \in BOOLEAN : runtime' = [runtime EXCEPT !.nodes = [run |-> runs, ok |-> ok]]
  BY DEF Contracts
<1>4. [run |-> runs, ok |-> ok] \in NodesType
  BY DEF NodesType, PodInv, PodSorted
<1>5. /\ runtime' \in RuntimeType /\ runtime'.nodes.run = runs
      /\ runtime'.models = runtime.models /\ runtime'.health = runtime.health /\ runtime'.summary = runtime.summary
  BY <1>3, <1>4 DEF PodInv, PodSorted, RuntimeType
<1>6. PodSorted'
  BY <1>1, <1>2, <1>5 DEF PodInv, PodSorted
<1>7. Booting'
  BY <1>1, <1>2, <1>5 DEF PodInv, Booting, Quiet
<1>8. runtime.summary.run < runs /\ home.summary.run < runs /\ runs \in Nat
      /\ runtime.summary.run \in Nat /\ home.summary.run \in Nat
  BY <1>2 DEF PodInv, PodSorted, Numbered, Quiet, RuntimeType, HomeType, SummaryType
<1>9. runtime.summary.run # runs /\ home.summary.run # runs
  BY <1>8
<1>10. Evidence'
  BY <1>1, <1>5, <1>9 DEF PodInv, Evidence, Agree
<1>11. Numbered'
  BY <1>1, <1>2, <1>5 DEF PodInv, PodSorted, Numbered, Quiet
<1> QED BY <1>6, <1>7, <1>10, <1>11 DEF PodInv

LEMMA SummarizeKept == PodInv /\ Summarize => PodInv'
<1> SUFFICES ASSUME PodInv, Summarize PROVE PodInv'
  OBVIOUS
<1> DEFINE s == [run |-> runs, checked |-> runtime.health.there, ready |-> runtime.health.ok,
                 models |-> runtime.models, nodes |-> runtime.nodes.ok]
<1>1. /\ UNCHANGED <<handoff, app, zip, disk, home, runs>> /\ boot' = AtRest
      /\ runtime' = [runtime EXCEPT !.summary = s]
      /\ booted' = IF boot.step = "refreshed" THEN booted ELSE IF boot.force THEN "forced" ELSE "plain"
      /\ boot.step \in {"summary", "refreshed"}
  BY DEF Summarize, hvars, desk
<1>2. boot' \in [step : BootStep, force : BOOLEAN] /\ boot'.step = "none"
  BY <1>1 DEF AtRest, BootStep
<1>3. s \in SummaryType
  BY DEF SummaryType, PodInv, PodSorted, RuntimeType, HealthType, NodesType
<1>4. s.run = runs /\ s.models = runtime.models /\ s.nodes = runtime.nodes.ok
  OBVIOUS
<1> HIDE DEF s
<1>5. /\ runtime' \in RuntimeType /\ runtime'.summary = s
      /\ runtime'.models = runtime.models /\ runtime'.nodes = runtime.nodes /\ runtime'.health = runtime.health
  BY <1>1, <1>3 DEF PodInv, PodSorted, RuntimeType
<1>6. booted' \in {"no", "plain", "forced"}
  BY <1>1 DEF PodInv, PodSorted
<1>7. PodSorted'
  BY <1>1, <1>2, <1>5, <1>6 DEF PodInv, PodSorted
<1>8. runtime.models.ok /\ runs > 0 /\ runs \in Nat
  BY <1>1 DEF PodInv, PodSorted, Booting, Quiet
<1>9. Booting'
  <2>1. CASE boot.step = "refreshed"
    BY <1>1, <1>2, <1>4, <1>5, <1>8, <2>1 DEF PodInv, Booting, Quiet
  <2>2. CASE boot.step = "summary"
    BY <1>1, <1>2, <1>4, <1>5, <1>8, <2>2 DEF PodInv, PodSorted, Booting, Quiet
  <2> QED BY <1>1, <2>1, <2>2
<1>10. home.nodes.run < runs /\ home.nodes.run \in Nat /\ runtime.nodes.run = runs
  BY <1>1 DEF PodInv, PodSorted, Numbered, Quiet, HomeType, NodesType
<1>11. home.nodes.run # runs
  BY <1>8, <1>10
<1>12. Evidence'
  BY <1>1, <1>4, <1>5, <1>8, <1>11 DEF PodInv, Evidence, Report, Contract, Agree
<1>13. Numbered'
  BY <1>1, <1>2, <1>4, <1>5, <1>8 DEF PodInv, Numbered, Quiet
<1> QED BY <1>7, <1>9, <1>12, <1>13 DEF PodInv

LEMMA DecodeKept == PodInv /\ Decode => PodInv'
<1> SUFFICES ASSUME PodInv, Decode PROVE PodInv'
  OBVIOUS
<1>1. UNCHANGED <<handoff, app, zip, disk, home, boot, booted, runs>> /\ boot.step = "none"
  BY DEF Decode, hvars, desk, Quiet
<1>2. PICK ok \in BOOLEAN :
        /\ ok => handoff.sample \in disk.samples
        /\ runtime' = [runtime EXCEPT !.health =
             [there |-> TRUE, code |-> disk.code, sample |-> handoff.sample, ok |-> ok]]
  BY DEF Decode
<1>3. [there |-> TRUE, code |-> disk.code, sample |-> handoff.sample, ok |-> ok] \in HealthType
  BY DEF HealthType, PodInv, PodSorted, DiskType
<1>4. /\ runtime' \in RuntimeType /\ runtime'.health.code = disk.code
      /\ runtime'.health.ok => runtime'.health.sample \in disk.samples
      /\ runtime'.models = runtime.models /\ runtime'.nodes = runtime.nodes /\ runtime'.summary = runtime.summary
  BY <1>2, <1>3 DEF PodInv, PodSorted, RuntimeType
<1>5. PodSorted'
  BY <1>1, <1>4 DEF PodInv, PodSorted
<1>6. Booting'
  BY <1>1, <1>4 DEF PodInv, Booting, Quiet
<1>7. Evidence' /\ Numbered'
  BY <1>1, <1>4 DEF PodInv, Evidence, Numbered, Quiet
<1> QED BY <1>5, <1>6, <1>7 DEF PodInv

LEMMA WriteSmokeKept == PodInv /\ WriteSmoke => PodInv'
BY DEF WriteSmoke, hvars, desk, PodInv, PodSorted, Booting, Evidence, Numbered, Quiet

LEMMA RecoverKept == PodInv /\ Recover => PodInv'
<1> SUFFICES ASSUME PodInv, Recover PROVE PodInv'
  OBVIOUS
<1>1. UNCHANGED <<handoff, app, zip, disk, runtime, boot, booted, runs>> /\ boot.step = "none"
  BY DEF Recover, hvars, desk, Quiet
<1>2. home \in HomeType /\ runtime \in RuntimeType
  BY DEF PodInv, PodSorted
<1>3. /\ home' \in HomeType
      /\ home'.models \in {home.models, runtime.models}
      /\ home'.nodes \in {home.nodes, runtime.nodes}
      /\ home'.summary \in {home.summary, runtime.summary}
  <2>1. PICK f \in DOMAIN home : home' = [home EXCEPT ![f] = runtime[f]]
    BY DEF Recover
  <2>2. f \in {"models", "nodes", "summary"}
    BY <1>2, <2>1 DEF HomeType
  <2>3. CASE f = "models"
    BY <1>2, <2>1, <2>3 DEF HomeType, RuntimeType
  <2>4. CASE f = "nodes"
    BY <1>2, <2>1, <2>4 DEF HomeType, RuntimeType
  <2>5. CASE f = "summary"
    BY <1>2, <2>1, <2>5 DEF HomeType, RuntimeType
  <2> QED BY <2>2, <2>3, <2>4, <2>5
<1>4. PodSorted'
  BY <1>1, <1>3 DEF PodInv, PodSorted
<1>5. Booting'
  BY <1>1 DEF PodInv, Booting, Quiet
<1>6. Evidence'
  BY <1>1, <1>3 DEF PodInv, Evidence
<1>7. Numbered'
  BY <1>1, <1>3 DEF PodInv, Numbered, Quiet
<1> QED BY <1>4, <1>5, <1>6, <1>7 DEF PodInv

\* The sample of the handoff is one of the manifest, or there is none.
LEMMA HandoffNames ==
  ASSUME DeskInv, handoff.sample \in Sample \cup {Nothing}, [HandoffStep]_hvars
  PROVE  handoff'.sample \in Sample \cup {Nothing}
<1>1. CASE \E h \in Handler : WriteHandoff(h)
  <2>1. PICK h \in Handler : WriteHandoff(h)
    BY <1>1
  <2>2. call[h].sample \in Sample \cup {Nothing}
    BY DEF DeskInv, Sorted, CallType
  <2>3. handoff'.sample = call[h].sample
    BY <2>1 DEF WriteHandoff
  <2> QED BY <2>2, <2>3
<1>2. CASE ~ \E h \in Handler : WriteHandoff(h)
  <2>1. handoff' = handoff
    BY <1>2 DEF HandoffStep, Serve, Begin, Unlink, Pack, Verify, Plan, Clear, Wipe, Copy, Archive, Embed,
                Replace, Change, Crash, desk, hvars, files_
  <2> QED BY <2>1
<1> QED BY <1>1, <1>2

\* Nothing on the pod touches the desk, and the desk touches nothing on the pod.
LEMMA PodLeavesDesk == PodStep => UNCHANGED hvars
BY DEF PodStep, Upload, Unpack, Boot, Prepare, Health, Storage, Models, Contracts, Summarize, Refresh,
       BootFails, Decode, WriteSmoke, Recover

LEMMA NextIsHandoff == [Next]_pvars => [HandoffStep]_hvars
<1> SUFFICES ASSUME [Next]_pvars PROVE [HandoffStep]_hvars
  OBVIOUS
<1>1. CASE PodStep
  BY <1>1, PodLeavesDesk
<1>2. CASE UNCHANGED pvars
  BY <1>2 DEF pvars
<1>3. CASE \E h \in Handler : DeskStep(h)
  BY <1>3 DEF DeskStep, HandoffStep
<1>4. CASE HandoffStep \/ Change
  BY <1>4 DEF HandoffStep
<1> QED BY <1>1, <1>2, <1>3, <1>4 DEF Next

LEMMA PodStepsKept == PodInv /\ PodStep => PodInv'
BY UploadKept, UnpackKept, BootKept, PrepareKept, HealthKept, StorageKept, ModelsKept, RefreshKept,
   ContractsKept, SummarizeKept, DecodeKept, WriteSmokeKept, RecoverKept DEF PodStep

LEMMA PodKept == DeskInv /\ PodInv /\ [Next]_pvars => PodInv'
<1> SUFFICES ASSUME DeskInv, PodInv, [Next]_pvars PROVE PodInv'
  OBVIOUS
<1>1. CASE PodStep
  BY <1>1, PodStepsKept
<1>2. CASE UNCHANGED pod
  <2>1. handoff'.sample \in Sample \cup {Nothing} /\ app' \in [Place -> Zip]
    BY NextIsHandoff, HandoffNames, DeskStepKept DEF PodInv, PodSorted, DeskInv, Sorted
  <2>2. UNCHANGED <<zip, disk, runtime, boot, booted, home, runs>>
    BY <1>2 DEF pod
  <2> QED BY <2>1, <2>2 DEF PodInv, PodSorted, Booting, Evidence, Numbered, Quiet
<1> QED BY <1>1, <1>2 DEF Next, pvars

IInv == DeskInv /\ PodInv

LEMMA Invariance == Spec => []IInv
<1>1. Init => IInv
  BY DeskInit, PodInit DEF Init, IInv
<1>2. IInv /\ [Next]_pvars => IInv'
  BY NextIsHandoff, DeskStepKept, PodKept DEF IInv
<1> QED BY <1>1, <1>2, PTL DEF Spec

-----------------------------------------------------------------------------
\* The files of desk and pod stay well formed: no bootstrap is complete without a summary,
\* and none runs without code.
THEOREM PodTypesHold == Spec => []PodTypeOK
<1>1. IInv => PodTypeOK
  <2> SUFFICES ASSUME IInv PROVE PodTypeOK
    OBVIOUS
  <2>1. HandoffTypeOK
    BY DeskTyped DEF IInv
  <2>2. zip \in Zip /\ disk \in DiskType /\ boot \in [step : BootStep, force : BOOLEAN]
        /\ booted \in {"no", "plain", "forced"}
    BY DEF IInv, PodInv, PodSorted
  <2>3. (booted # "no" => runtime.summary.run # 0 /\ runtime.models.ok) /\ (~Quiet => disk.code # 0)
    BY DEF IInv, PodInv, Booting
  <2> QED BY <2>1, <2>2, <2>3 DEF PodTypeOK, DiskType, BootStep
<1> QED BY <1>1, Invariance, PTL

\* A completed bootstrap that was not forced leaves the bundle's samples on the pod.
THEOREM SampleIsBrought == Spec => []BootBringsTheSample
<1>1. IInv => BootBringsTheSample
  BY DEF IInv, PodInv, Booting, Bundled, BootBringsTheSample
<1> QED BY <1>1, Invariance, PTL

\* Evidence brought back whole from one run is called ready exactly when its contract of
\* nodes says so, whatever earlier and failed runs left.
THEOREM ReadinessHolds == Spec => []ReadinessSaysWhatTheRunFound
<1>1. IInv => ReadinessSaysWhatTheRunFound
  <2> SUFFICES ASSUME IInv, home.summary.checked, home.summary.run = home.nodes.run
               PROVE  BootstrapReadiness(home) = "ready_for_bootstrap_review" <=> home.nodes.ok
    BY DEF ReadinessSaysWhatTheRunFound
  <2>1. home.summary.run # 0 /\ home.summary.models.ok /\ home.summary.models.scoped
        /\ (home.models.ok => home.models.scoped) /\ home.summary.nodes = home.nodes.ok
    BY DEF IInv, PodInv, Evidence, Report, Contract, Agree
  <2>2. ModelsOf(home).ok /\ ModelsOf(home).scoped
    BY <2>1 DEF ModelsOf
  <2> QED BY <2>1, <2>2 DEF BootstrapReadiness
<1> QED BY <1>1, Invariance, PTL

LEMMA PassedMeans ==
  ASSUME NEW r \in RuntimeType, SmokeOf(r) = "passed"
  PROVE  r.health.there /\ r.health.ok /\ r.health.sample # Nothing
<1>1. CASE Failing(r)
  BY <1>1 DEF SmokeOf
<1>2. CASE ~Failing(r) /\ (r.summary.run = 0 \/ ~r.health.there)
  BY <1>2 DEF SmokeOf
<1>3. CASE ~Failing(r) /\ r.summary.run # 0 /\ r.health.there
  <2>1. SmokeOf(r) = IF r.health.sample = Nothing THEN "bootstrap_only" ELSE "passed"
    BY <1>3 DEF SmokeOf
  <2> QED BY <1>3, <2>1 DEF Failing, RuntimeType, HealthType
<1> QED BY <1>1, <1>2, <1>3

\* Once a bootstrap of the unpacked code was completed, a smoke that passes decoded a
\* sample that is on the pod, with that code.
THEOREM PassedSmokeHolds == Spec => PassedSmokeIsOfThisCode
<1>1. ASSUME IInv, WriteSmoke, smoke' = "passed", booted # "no"
      PROVE  /\ runtime.health.code = disk.code /\ runtime.health.sample \in disk.samples
             /\ DecodeReadiness(runtime) = "ready_for_sensor_decode"
  <2>1. runtime \in RuntimeType /\ SmokeOf(runtime) = "passed"
    BY <1>1 DEF IInv, PodInv, PodSorted, WriteSmoke
  <2>2. runtime.health.there /\ runtime.health.ok /\ runtime.health.sample # Nothing
    BY <2>1, PassedMeans
  <2>3. runtime.health.code = disk.code /\ runtime.health.sample \in disk.samples
    BY <1>1, <2>2 DEF IInv, PodInv, Booting
  <2> QED BY <2>2, <2>3 DEF DecodeReadiness
<1>2. IInv /\ [Next]_pvars =>
        [WriteSmoke /\ smoke' = "passed" /\ booted # "no"
           => /\ runtime.health.code = disk.code /\ runtime.health.sample \in disk.samples
              /\ DecodeReadiness(runtime) = "ready_for_sensor_decode"]_pvars
  BY <1>1
<1> QED BY <1>2, Invariance, PTL DEF Spec, PassedSmokeIsOfThisCode

\* The desk keeps its promise when its zip goes to pods: what the pod adds is steps that
\* leave the desk alone.
THEOREM DeskIsKept == Spec => HandoffSpec
<1>1. Init => HandoffInit
  BY DEF Init
<1> QED BY <1>1, NextIsHandoff, PTL DEF Spec, HandoffSpec

\* So a handoff nobody interfered with says what is true of a zip that goes to pods, too.
THEOREM PodSoloHandoffHolds == Spec => SoloHandoffIsTrue
BY DeskIsKept, SoloHandoffHolds
=============================================================================
