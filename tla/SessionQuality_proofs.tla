------------------------ MODULE SessionQuality_proofs ------------------------
(***************************************************************************)
(* What a session keeps for any number of sessions, jobs, rooms, masks and *)
(* requests: its files, its deliveries, its photos and its verdicts.       *)
(*                                                                         *)
(* Nothing in a session is locked, so that little is true of files that    *)
(* two requests rewrite.  What can be said is said of a request that       *)
(* nobody overlapped (solo): what it holds is what is in the files, up to  *)
(* the step it is at.  Each group of requests has an invariant of its own  *)
(* (what it Knows), kept by its own turns; turns of the other groups       *)
(* either spare its files or tell it that it was overlapped.               *)
(***************************************************************************)
EXTENDS SessionQuality, TLAPS, FiniteSetTheorems

-----------------------------------------------------------------------------
\* What each kind of request may have to do.
Linking == {"prior", "chosen", "tearLinkage", "link"}
Packing == {"items", "room", "copy", "manifest", "zip", "clear"}
Staging == {"stage", "editable", "decode", "isp", "tearPlan", "plan"}

StepsOf(kind) ==
  CASE kind = "catalog" -> {"load", "tear", "save"}
    [] kind = "apply" -> {"images", "tearState", "state"} \cup Linking
    [] kind = "sync" -> Linking
    [] kind = "refresh" -> {"finish"} \cup Linking
    [] kind = "investigate" -> {"open", "tearLetters", "note"}
    [] kind = "retry" -> {"list", "reset", "requeue"}
    [] kind = "decision" -> {"file", "line"}
    [] kind = "package" -> Packing
    [] kind = "recovery" -> Packing \cup {"find", "packet"}
    [] kind = "pause" -> Packing \cup {"find", "packet", "pause"}
    [] kind = "intake" -> Staging
    [] kind = "upload" -> Staging \cup {"openUploads", "receive", "clearUploads"}
    [] kind = "develop" -> {"openPlan", "render", "tearPlan", "plan"}
    [] kind = "assess" -> {"show", "answer", "measure", "gather", "calibrate"}
    [] OTHER -> {}

\* Which step follows which, and which may be the last.
Follows(s, t) ==
  \/ t = "tear" /\ s = "load"
  \/ t = "save" /\ s = "tear"
  \/ t = "tearState" /\ s = "images"
  \/ t = "state" /\ s = "tearState"
  \/ t = "prior" /\ s \in {"state", "finish"}
  \/ t = "chosen" /\ s = "prior"
  \/ t = "tearLinkage" /\ s = "chosen"
  \/ t = "link" /\ s = "tearLinkage"
  \/ t = "tearLetters" /\ s = "open"
  \/ t = "note" /\ s = "tearLetters"
  \/ t = "line" /\ s = "file"
  \/ t = "room" /\ s = "items"
  \/ t = "copy" /\ s = "room"
  \/ t = "manifest" /\ s = "copy"
  \/ t = "zip" /\ s = "manifest"
  \/ t = "clear" /\ s = "zip"
  \/ t = "packet" /\ s \in {"clear", "find"}
  \/ t = "pause" /\ s = "packet"
  \/ t = "receive" /\ s = "openUploads"
  \/ t = "stage" /\ s = "receive"
  \/ t = "editable" /\ s = "stage"
  \/ t = "decode" /\ s = "editable"
  \/ t = "isp" /\ s = "decode"
  \/ t = "tearPlan" /\ s \in {"isp", "render"}
  \/ t = "plan" /\ s = "tearPlan"
  \/ t = "clearUploads" /\ s = "plan"
  \/ t = "render" /\ s = "openPlan"
  \/ t = "answer" /\ s = "show"
  \/ t = "measure" /\ s = "answer"
  \/ t = "gather" /\ s = "measure"
  \/ t = "calibrate" /\ s = "gather"

Ends == {"save", "link", "note", "list", "reset", "requeue", "line", "clear", "packet", "pause",
         "plan", "clearUploads", "calibrate"}

Ordered(S, rest) ==
  /\ rest \in Seq(S)
  /\ \A i \in 1..(Len(rest) - 1) : Follows(rest[i], rest[i + 1])

Chained(S, rest) == Ordered(S, rest) /\ (rest # <<>> => rest[Len(rest)] \in Ends)

\* What is left after a step is a chain of steps again, and its end the same.
LEMMA TailChained ==
  ASSUME NEW S, NEW rest, Chained(S, rest), rest # <<>>
  PROVE  /\ Chained(S, Tail(rest)) /\ Head(rest) \in S
         /\ Tail(rest) = <<>> => Head(rest) \in Ends
         /\ Tail(rest) # <<>> => Follows(Head(rest), Head(Tail(rest)))
<1>1. /\ rest \in Seq(S) /\ Len(rest) \in Nat /\ Len(rest) > 0
      /\ Tail(rest) \in Seq(S) /\ Len(Tail(rest)) = Len(rest) - 1
      /\ \A i \in 1..(Len(rest) - 1) : Tail(rest)[i] = rest[i + 1]
      /\ Head(rest) = rest[1] /\ rest[1] \in S
  BY DEF Chained, Ordered
<1>2. Tail(rest) # <<>> <=> Len(rest) > 1
  BY <1>1
<1>3. \A i \in 1..(Len(Tail(rest)) - 1) : Follows(Tail(rest)[i], Tail(rest)[i + 1])
  <2> SUFFICES ASSUME NEW i \in 1..(Len(Tail(rest)) - 1)
               PROVE  Follows(Tail(rest)[i], Tail(rest)[i + 1])
    OBVIOUS
  <2>1. i + 1 \in 1..(Len(rest) - 1) /\ i \in 1..(Len(rest) - 1)
    BY <1>1
  <2>2. Follows(rest[i + 1], rest[i + 1 + 1])
    BY <2>1 DEF Chained, Ordered
  <2> QED BY <1>1, <2>1, <2>2
<1>4. Tail(rest) # <<>> => Tail(rest)[Len(Tail(rest))] \in Ends
  <2> SUFFICES ASSUME Len(rest) > 1 PROVE Tail(rest)[Len(Tail(rest))] \in Ends
    BY <1>2
  <2>1. Len(rest) - 1 \in 1..(Len(rest) - 1) /\ Len(rest) - 1 + 1 = Len(rest)
    BY <1>1
  <2>2. Tail(rest)[Len(rest) - 1] = rest[Len(rest)]
    BY <1>1, <2>1
  <2> QED BY <1>1, <2>2 DEF Chained, Ordered
<1>5. Tail(rest) = <<>> => Head(rest) \in Ends
  BY <1>1, <1>2 DEF Chained, Ordered
<1>6. Tail(rest) # <<>> => Follows(Head(rest), Head(Tail(rest)))
  <2> SUFFICES ASSUME Len(rest) > 1 PROVE Follows(Head(rest), Head(Tail(rest)))
    BY <1>2
  <2>1. Head(Tail(rest)) = Tail(rest)[1] /\ Tail(rest)[1] = rest[2]
    BY <1>1, <1>2
  <2>2. Follows(rest[1], rest[1 + 1])
    BY <1>1 DEF Chained, Ordered
  <2> QED BY <1>1, <2>1, <2>2
<1> QED BY <1>1, <1>3, <1>4, <1>5, <1>6 DEF Chained, Ordered

\* Two programs in a row are one, if what ends the first leads to the second.
LEMMA Joined ==
  ASSUME NEW S, NEW s, NEW t, Ordered(S, s), Ordered(S, t), s # <<>>, t # <<>>, Follows(s[Len(s)], t[1])
  PROVE  Ordered(S, s \o t) /\ s \o t # <<>> /\ (s \o t)[1] = s[1] /\ (s \o t)[Len(s \o t)] = t[Len(t)]
<1>1. /\ s \in Seq(S) /\ t \in Seq(S) /\ Len(s) \in Nat /\ Len(t) \in Nat /\ Len(s) > 0 /\ Len(t) > 0
      /\ s \o t \in Seq(S) /\ Len(s \o t) = Len(s) + Len(t)
      /\ \A i \in 1..Len(s) : (s \o t)[i] = s[i]
      /\ \A i \in (Len(s) + 1)..(Len(s) + Len(t)) : (s \o t)[i] = t[i - Len(s)]
  BY DEF Ordered
<1>2. ASSUME NEW i \in 1..(Len(s \o t) - 1) PROVE Follows((s \o t)[i], (s \o t)[i + 1])
  <2>1. CASE i < Len(s)
    <3>1. i \in 1..(Len(s) - 1) /\ i \in 1..Len(s) /\ i + 1 \in 1..Len(s)
      BY <1>1, <2>1
    <3> QED BY <1>1, <3>1 DEF Ordered
  <2>2. CASE i = Len(s)
    <3>1. i \in 1..Len(s) /\ i + 1 \in (Len(s) + 1)..(Len(s) + Len(t)) /\ i + 1 - Len(s) = 1
      BY <1>1, <2>2
    <3> QED BY <1>1, <2>2, <3>1
  <2>3. CASE i > Len(s)
    <3>1. /\ i \in (Len(s) + 1)..(Len(s) + Len(t)) /\ i + 1 \in (Len(s) + 1)..(Len(s) + Len(t))
          /\ i - Len(s) \in 1..(Len(t) - 1) /\ i + 1 - Len(s) = i - Len(s) + 1
      BY <1>1, <2>3
    <3>2. Follows(t[i - Len(s)], t[i - Len(s) + 1])
      BY <3>1 DEF Ordered
    <3> QED BY <1>1, <3>1, <3>2
  <2> QED BY <1>1, <2>1, <2>2, <2>3
<1>3. (s \o t)[Len(s \o t)] = t[Len(t)] /\ (s \o t)[1] = s[1]
  <2>1. /\ Len(s) + Len(t) \in (Len(s) + 1)..(Len(s) + Len(t)) /\ 1 \in 1..Len(s)
        /\ Len(s) + Len(t) - Len(s) = Len(t)
    BY <1>1
  <2> QED BY <1>1, <2>1
<1>4. s \o t # <<>>
  BY <1>1
<1> QED BY <1>1, <1>2, <1>3, <1>4 DEF Ordered

-----------------------------------------------------------------------------
Fields == {"kind", "rest", "todo", "ask", "hold", "chosen", "blind", "solo"}

\* A request has these fields; it is over when its program is.
Programmed(c) ==
  /\ DOMAIN c = Fields /\ c.solo \in BOOLEAN
  /\ c.kind = "none" <=> c.rest = <<>>
  /\ Chained(StepsOf(c.kind), c.rest)

\* One that nobody interfered with is at work alone.
Orderly ==
  /\ call = [h \in Handler |-> call[h]] /\ \A h \in Handler : Programmed(call[h])
  /\ \A g, h \in Handler : g # h /\ call[h].kind # "none" /\ call[h].solo => call[g].kind = "none"

\* What a step of h is to the others: they are as they were, and alone no more.
Same(c, d) ==
  /\ c.kind = d.kind /\ c.rest = d.rest /\ c.todo = d.todo /\ c.ask = d.ask
  /\ c.hold = d.hold /\ c.chosen = d.chosen /\ c.blind = d.blind

Besides(h) == \A g \in Handler \ {h} :
  /\ DOMAIN call'[g] = Fields /\ call'[g].solo \in BOOLEAN
  /\ Same(call'[g], call[g]) /\ (call'[g].kind # "none" => ~call'[g].solo)

\* Where a request goes from its step.
Goal(h) == Orderly' /\ Besides(h) /\ DOMAIN call' = Handler

LEMMA ChainedNil == \A S : Chained(S, <<>>)
BY DEF Chained, Ordered

\* Who waits for a request has no program.
LEMMA IdleProgrammed == Programmed(Idle) /\ Idle.kind = "none" /\ Idle.rest = <<>>
BY ChainedNil DEF Programmed, Idle, Fields

\* A step of a request keeps programs orderly if it stays where it is, begins, goes on or fails.
LEMMA ByStays ==
  ASSUME Orderly, NEW h \in Handler, call[h].kind # "none", NEW c, Programmed(c), c.kind = "none" \/ c.solo = call[h].solo, Stays(h, c)
  PROVE  Goal(h) /\ call'[h] = c
<1>1. /\ call' = [g \in Handler |-> IF g = h THEN c ELSE call[g]]
  BY DEF Stays, Orderly
<1>2. \A g \in Handler : Programmed(call'[g])
  BY <1>1 DEF Orderly
<1>3. \A g \in Handler \ {h} : call[g].kind # "none" => ~call[g].solo
  BY DEF Orderly, Programmed
<1>4. \A g, k \in Handler : g # k /\ call'[k].kind # "none" /\ call'[k].solo => call'[g].kind = "none"
  BY <1>1, <1>3 DEF Orderly
<1>5. Besides(h)
  BY <1>1, <1>2, <1>3 DEF Besides, Same, Programmed
<1> QED BY <1>1, <1>2, <1>4, <1>5 DEF Goal, Orderly

LEMMA ByBeginning ==
  ASSUME Orderly, NEW h \in Handler, NEW c, Begins(h, c), DOMAIN c = Fields, c.kind # "none",
         Chained(StepsOf(c.kind), c.rest), c.rest # <<>>
  PROVE  Goal(h) /\ call'[h] = [c EXCEPT !.solo = call'[h].solo]
<1>1. /\ call[h].kind = "none"
      /\ call' = [g \in Handler |->
           IF g = h THEN [c EXCEPT !.solo = \A o \in Handler : call[o].kind = "none"]
           ELSE [call[g] EXCEPT !.solo = @ /\ call[g].kind = "none"]]
  BY DEF Begins
<1>2. Programmed(call'[h]) /\ call'[h] = [c EXCEPT !.solo = call'[h].solo] /\ call'[h].kind # "none"
      /\ (call'[h].solo <=> \A o \in Handler : call[o].kind = "none")
  BY <1>1 DEF Programmed, Fields
<1>3. \A g \in Handler \ {h} : /\ Programmed(call'[g]) /\ Same(call'[g], call[g])
                               /\ (call'[g].kind # "none" => ~call'[g].solo)
  BY <1>1 DEF Orderly, Programmed, Same, Fields
<1>4. \A g, k \in Handler : g # k /\ call'[k].kind # "none" /\ call'[k].solo => call'[g].kind = "none"
  BY <1>2, <1>3 DEF Same
<1>5. Besides(h)
  BY <1>3 DEF Besides, Programmed
<1> QED BY <1>1, <1>2, <1>3, <1>4, <1>5 DEF Goal, Orderly

LEMMA ByGoing ==
  ASSUME Orderly, NEW h \in Handler, NEW s, At(h, s), NEW c, DOMAIN c = Fields, c.kind = call[h].kind,
         c.rest = call[h].rest, c.solo = call[h].solo, Goes(h, c)
  PROVE  /\ Goal(h) /\ s \in StepsOf(call[h].kind) /\ call[h].kind # "none"
         /\ \/ call'[h] = Idle /\ s \in Ends
            \/ /\ call'[h] = [c EXCEPT !.rest = Tail(c.rest)]
               /\ call'[h].rest # <<>> /\ Follows(s, Head(call'[h].rest))
<1>1. /\ call[h].rest # <<>> /\ Head(call[h].rest) = s /\ Programmed(call[h])
  BY DEF At, Orderly
<1>2. /\ Chained(StepsOf(c.kind), Tail(c.rest)) /\ s \in StepsOf(c.kind)
      /\ Tail(c.rest) = <<>> => s \in Ends
      /\ Tail(c.rest) # <<>> => Follows(s, Head(Tail(c.rest)))
  BY <1>1, TailChained DEF Programmed
<1>3. CASE Tail(c.rest) = <<>>
  <2>1. Stays(h, Idle)
    BY <1>3 DEF Goes
  <2> QED BY <1>1, <1>2, <1>3, <2>1, IdleProgrammed, ByStays DEF Programmed
<1>4. CASE Tail(c.rest) # <<>>
  <2> DEFINE d == [c EXCEPT !.rest = Tail(c.rest)]
  <2>1. Stays(h, d)
    BY <1>4 DEF Goes
  <2>2. DOMAIN d = Fields /\ d.kind = c.kind /\ d.rest = Tail(c.rest) /\ d.solo = c.solo
    BY DEF Fields
  <2> HIDE DEF d
  <2>3. Programmed(d)
    BY <1>1, <1>2, <1>4, <2>2 DEF Programmed
  <2>4. call[h].kind # "none"
    BY <1>1 DEF Programmed
  <2>5. Goal(h) /\ call'[h] = d
    BY <2>1, <2>2, <2>3, <2>4, ByStays
  <2> QED BY <1>2, <1>4, <2>2, <2>4, <2>5 DEF d
<1> QED BY <1>3, <1>4

LEMMA ByFailing ==
  ASSUME Orderly, NEW h \in Handler, NEW s, At(h, s), Fails(h)
  PROVE  Goal(h) /\ s \in StepsOf(call[h].kind) /\ call[h].kind # "none" /\ call'[h] = Idle
<1>1. /\ call[h].rest # <<>> /\ Head(call[h].rest) = s /\ Programmed(call[h])
  BY DEF At, Orderly
<1>2. s \in StepsOf(call[h].kind) /\ call[h].kind # "none"
  BY <1>1, TailChained DEF Programmed
<1> QED BY <1>2, IdleProgrammed, ByStays DEF Fails
-----------------------------------------------------------------------------
\* Programs written out.
LEMMA One ==
  ASSUME NEW S, NEW a \in S
  PROVE  Ordered(S, <<a>>) /\ <<a>> # <<>> /\ <<a>>[1] = a /\ <<a>>[Len(<<a>>)] = a
<1> DEFINE r == <<a>>
<1>1. r \in Seq(S) /\ Len(r) = 1 /\ r[1] = a
  OBVIOUS
<1> HIDE DEF r
<1>0. Len(<<>>) = 0
  OBVIOUS
<1>2. r # <<>>
  BY <1>0, <1>1
<1>3. Ordered(S, r) /\ r # <<>> /\ r[1] = a /\ r[Len(r)] = a
  BY <1>1, <1>2 DEF Ordered
<1> QED BY <1>3 DEF r

\* Programs of so many steps are chains if each step follows the one before.
LEMMA Two ==
  ASSUME NEW S, NEW a \in S, NEW b \in S, Follows(a, b)
  PROVE  Ordered(S, <<a, b>>) /\ <<a, b>> # <<>> /\ <<a, b>>[1] = a /\ <<a, b>>[Len(<<a, b>>)] = b
<1> DEFINE r == <<a, b>>
<1>1. r \in Seq(S) /\ Len(r) = 2 /\ r[1] = a /\ r[2] = b
  OBVIOUS
<1> HIDE DEF r
<1>2. \A i \in 1..1 : i = 1
  OBVIOUS
<1>3. \A i \in 1..(Len(r) - 1) : Follows(r[i], r[i + 1])
  BY <1>1, <1>2
<1>0. Len(<<>>) = 0
  OBVIOUS
<1>4. r # <<>>
  <2> SUFFICES ASSUME r = <<>> PROVE FALSE
    OBVIOUS
  <2>1. Len(r) = 2
    BY <1>1
  <2> QED BY <1>0, <2>1
<1>5. Ordered(S, r) /\ r # <<>> /\ r[1] = a /\ r[Len(r)] = b
  BY <1>1, <1>3, <1>4 DEF Ordered
<1> QED BY <1>5 DEF r

LEMMA Three ==
  ASSUME NEW S, NEW a \in S, NEW b \in S, NEW c \in S, Follows(a, b), Follows(b, c)
  PROVE  Ordered(S, <<a, b, c>>) /\ <<a, b, c>> # <<>> /\ <<a, b, c>>[1] = a /\ <<a, b, c>>[Len(<<a, b, c>>)] = c
<1> DEFINE r == <<a, b, c>>
<1>1. r \in Seq(S) /\ Len(r) = 3 /\ r[1] = a /\ r[2] = b /\ r[3] = c
  OBVIOUS
<1> HIDE DEF r
<1>2. \A i \in 1..2 : i = 1 \/ i = 2
  OBVIOUS
<1>3. \A i \in 1..(Len(r) - 1) : Follows(r[i], r[i + 1])
  BY <1>1, <1>2
<1>0. Len(<<>>) = 0
  OBVIOUS
<1>4. r # <<>>
  <2> SUFFICES ASSUME r = <<>> PROVE FALSE
    OBVIOUS
  <2>1. Len(r) = 3
    BY <1>1
  <2> QED BY <1>0, <2>1
<1>5. Ordered(S, r) /\ r # <<>> /\ r[1] = a /\ r[Len(r)] = c
  BY <1>1, <1>3, <1>4 DEF Ordered
<1> QED BY <1>5 DEF r

LEMMA Four ==
  ASSUME NEW S, NEW a \in S, NEW b \in S, NEW c \in S, NEW d \in S, Follows(a, b), Follows(b, c), Follows(c, d)
  PROVE  Ordered(S, <<a, b, c, d>>) /\ <<a, b, c, d>> # <<>> /\ <<a, b, c, d>>[1] = a /\ <<a, b, c, d>>[Len(<<a, b, c, d>>)] = d
<1> DEFINE r == <<a, b, c, d>>
<1>1. r \in Seq(S) /\ Len(r) = 4 /\ r[1] = a /\ r[2] = b /\ r[3] = c /\ r[4] = d
  OBVIOUS
<1> HIDE DEF r
<1>2. \A i \in 1..3 : i = 1 \/ i = 2 \/ i = 3
  OBVIOUS
<1>3. \A i \in 1..(Len(r) - 1) : Follows(r[i], r[i + 1])
  BY <1>1, <1>2
<1>0. Len(<<>>) = 0
  OBVIOUS
<1>4. r # <<>>
  <2> SUFFICES ASSUME r = <<>> PROVE FALSE
    OBVIOUS
  <2>1. Len(r) = 4
    BY <1>1
  <2> QED BY <1>0, <2>1
<1>5. Ordered(S, r) /\ r # <<>> /\ r[1] = a /\ r[Len(r)] = d
  BY <1>1, <1>3, <1>4 DEF Ordered
<1> QED BY <1>5 DEF r

LEMMA Six ==
  ASSUME NEW S, NEW a \in S, NEW b \in S, NEW c \in S, NEW d \in S, NEW e \in S, NEW f \in S,
         Follows(a, b), Follows(b, c), Follows(c, d), Follows(d, e), Follows(e, f)
  PROVE  Ordered(S, <<a, b, c, d, e, f>>) /\ <<a, b, c, d, e, f>> # <<>> /\ <<a, b, c, d, e, f>>[1] = a
         /\ <<a, b, c, d, e, f>>[Len(<<a, b, c, d, e, f>>)] = f
<1> DEFINE r == <<a, b, c, d, e, f>>
<1>1. r \in Seq(S) /\ Len(r) = 6 /\ r[1] = a /\ r[2] = b /\ r[3] = c /\ r[4] = d /\ r[5] = e /\ r[6] = f
  OBVIOUS
<1> HIDE DEF r
<1>2. \A i \in 1..5 : i = 1 \/ i = 2 \/ i = 3 \/ i = 4 \/ i = 5
  OBVIOUS
<1>3. \A i \in 1..(Len(r) - 1) : Follows(r[i], r[i + 1])
  BY <1>1, <1>2
<1>0. Len(<<>>) = 0
  OBVIOUS
<1>4. r # <<>>
  <2> SUFFICES ASSUME r = <<>> PROVE FALSE
    OBVIOUS
  <2>1. Len(r) = 6
    BY <1>1
  <2> QED BY <1>0, <2>1
<1>5. Ordered(S, r) /\ r # <<>> /\ r[1] = a /\ r[Len(r)] = f
  BY <1>1, <1>3, <1>4 DEF Ordered
<1> QED BY <1>5 DEF r

\* Every program a request may be given is a chain of the steps of its kind.
LEMMA Programs ==
  /\ Chained(StepsOf("catalog"), UpdateSteps) /\ UpdateSteps # <<>>
  /\ \A kind \in {"apply", "sync", "refresh"} :
       Ordered(StepsOf(kind), LinkSteps) /\ LinkSteps # <<>> /\ LinkSteps[1] = "prior" /\ LinkSteps[Len(LinkSteps)] = "link"
  /\ \A kind \in {"package", "recovery", "pause"} :
       Ordered(StepsOf(kind), PackSteps) /\ PackSteps # <<>> /\ PackSteps[Len(PackSteps)] = "clear"
  /\ \A kind \in {"intake", "upload"} :
       Ordered(StepsOf(kind), IntakeSteps) /\ IntakeSteps # <<>> /\ IntakeSteps[1] = "stage" /\ IntakeSteps[Len(IntakeSteps)] = "plan"
<1>1. ASSUME NEW kind \in {"catalog"}
      PROVE  Chained(StepsOf(kind), UpdateSteps) /\ UpdateSteps # <<>>
  <2> DEFINE S == StepsOf(kind)
  <2>1. {"load", "tear", "save"} \subseteq S
    BY DEF StepsOf, Linking, Packing, Staging
  <2>2. Follows("load", "tear") /\ Follows("tear", "save")
    BY DEF Follows
  <2> HIDE DEF S
  <2>3. Ordered(S, UpdateSteps) /\ UpdateSteps # <<>> /\ UpdateSteps[1] = "load" /\ UpdateSteps[Len(UpdateSteps)] = "save"
    BY <2>1, <2>2, Three DEF UpdateSteps
  <2> QED BY <2>3 DEF S, Chained, Ends
<1>2. ASSUME NEW kind \in {"apply", "sync", "refresh"}
      PROVE  Ordered(StepsOf(kind), LinkSteps) /\ LinkSteps # <<>> /\ LinkSteps[1] = "prior" /\ LinkSteps[Len(LinkSteps)] = "link"
  <2> DEFINE S == StepsOf(kind)
  <2>1. {"prior", "chosen", "tearLinkage", "link"} \subseteq S
    BY DEF StepsOf, Linking, Packing, Staging
  <2>2. Follows("prior", "chosen") /\ Follows("chosen", "tearLinkage") /\ Follows("tearLinkage", "link")
    BY DEF Follows
  <2> HIDE DEF S
  <2>3. Ordered(S, LinkSteps) /\ LinkSteps # <<>> /\ LinkSteps[1] = "prior" /\ LinkSteps[Len(LinkSteps)] = "link"
    BY <2>1, <2>2, Four DEF LinkSteps
  <2> QED BY <2>3 DEF S
<1>3. ASSUME NEW kind \in {"package", "recovery", "pause"}
      PROVE  Ordered(StepsOf(kind), PackSteps) /\ PackSteps # <<>> /\ PackSteps[Len(PackSteps)] = "clear"
  <2> DEFINE S == StepsOf(kind)
  <2>1. {"items", "room", "copy", "manifest", "zip", "clear"} \subseteq S
    BY DEF StepsOf, Linking, Packing, Staging
  <2>2. Follows("items", "room") /\ Follows("room", "copy") /\ Follows("copy", "manifest")
        /\ Follows("manifest", "zip") /\ Follows("zip", "clear")
    BY DEF Follows
  <2> HIDE DEF S
  <2>3. Ordered(S, PackSteps) /\ PackSteps # <<>> /\ PackSteps[1] = "items" /\ PackSteps[Len(PackSteps)] = "clear"
    BY <2>1, <2>2, Six DEF PackSteps
  <2> QED BY <2>3 DEF S
<1>4. ASSUME NEW kind \in {"intake", "upload"}
      PROVE  Ordered(StepsOf(kind), IntakeSteps) /\ IntakeSteps # <<>> /\ IntakeSteps[1] = "stage" /\ IntakeSteps[Len(IntakeSteps)] = "plan"
  <2> DEFINE S == StepsOf(kind)
  <2>1. {"stage", "editable", "decode", "isp", "tearPlan", "plan"} \subseteq S
    BY DEF StepsOf, Linking, Packing, Staging
  <2>2. Follows("stage", "editable") /\ Follows("editable", "decode") /\ Follows("decode", "isp")
        /\ Follows("isp", "tearPlan") /\ Follows("tearPlan", "plan")
    BY DEF Follows
  <2> HIDE DEF S
  <2>3. Ordered(S, IntakeSteps) /\ IntakeSteps # <<>> /\ IntakeSteps[1] = "stage" /\ IntakeSteps[Len(IntakeSteps)] = "plan"
    BY <2>1, <2>2, Six DEF IntakeSteps
  <2> QED BY <2>3 DEF S
<1> QED BY <1>1, <1>2, <1>3, <1>4

-----------------------------------------------------------------------------
\* The groups of kinds whose requests share files, and their steps.
CatalogKinds == {"catalog"}
EditKinds == {"apply", "sync", "refresh"}
LettersKinds == {"investigate", "retry"}
CompareKinds == {"decision"}
DeliveryKinds == {"package", "recovery", "pause"}
IntakeKinds == {"intake", "upload", "develop"}
QualityKinds == {"assess"}

\* A step gives away the kind of the request that takes it.
LEMMA KindOfStep ==
  ASSUME NEW k, NEW s \in StepsOf(k)
  PROVE  /\ s \in {"load", "tear", "save"} => k \in CatalogKinds
         /\ s \in {"images", "tearState", "state", "finish", "prior", "chosen", "tearLinkage", "link"} => k \in EditKinds
         /\ s \in {"open", "tearLetters", "note", "list", "reset", "requeue"} => k \in LettersKinds
         /\ s \in {"file", "line"} => k \in CompareKinds
         /\ s \in {"items", "room", "copy", "manifest", "zip", "clear", "find", "packet", "pause"} => k \in DeliveryKinds
         /\ s \in {"stage", "editable", "decode", "isp", "tearPlan", "plan", "openUploads", "receive",
                   "clearUploads", "openPlan", "render"} => k \in IntakeKinds
         /\ s \in {"show", "answer", "measure", "gather", "calibrate"} => k \in QualityKinds
<1> USE DEF Linking, Packing, Staging, CatalogKinds, EditKinds, LettersKinds, CompareKinds, DeliveryKinds, IntakeKinds, QualityKinds
<1>1. s \in {"load", "tear", "save"} => k \in CatalogKinds
  BY DEF StepsOf
<1>2. s \in {"images", "tearState", "state", "finish", "prior", "chosen", "tearLinkage", "link"} => k \in EditKinds
  BY DEF StepsOf
<1>3. s \in {"open", "tearLetters", "note", "list", "reset", "requeue"} => k \in LettersKinds
  BY DEF StepsOf
<1>4. s \in {"file", "line"} => k \in CompareKinds
  BY DEF StepsOf
<1>5. s \in {"items", "room", "copy", "manifest", "zip", "clear", "find", "packet", "pause"} => k \in DeliveryKinds
  BY DEF StepsOf
<1>6. s \in {"stage", "editable", "decode", "isp", "tearPlan", "plan", "openUploads", "receive",
                   "clearUploads", "openPlan", "render"} => k \in IntakeKinds
  BY DEF StepsOf
<1>7. s \in {"show", "answer", "measure", "gather", "calibrate"} => k \in QualityKinds
  BY DEF StepsOf
<1> QED BY <1>1, <1>2, <1>3, <1>4, <1>5, <1>6, <1>7

\* A step of h, who is or was of one of these kinds, and what it is to the others.
Turn(h, K) ==
  /\ Goal(h)
  /\ call[h].kind \in K \cup {"none"} /\ call'[h].kind \in K \cup {"none"}

\* A request that begins, goes on, fails or stays takes a turn: it alone moves, and whoever it overlaps is no longer solo.
LEMMA TurnBegins ==
  ASSUME Orderly, NEW h \in Handler, NEW K, NEW c, Begins(h, c), DOMAIN c = Fields, c.kind \in K \ {"none"},
         Chained(StepsOf(c.kind), c.rest), c.rest # <<>>
  PROVE  Turn(h, K) /\ call'[h] = [c EXCEPT !.solo = call'[h].solo]
<1>1. Goal(h) /\ call'[h] = [c EXCEPT !.solo = call'[h].solo]
  BY ByBeginning
<1>2. call'[h].kind = c.kind /\ call[h].kind = "none"
  BY <1>1 DEF Fields, Begins
<1> QED BY <1>1, <1>2 DEF Turn

LEMMA TurnGoes ==
  ASSUME Orderly, NEW h \in Handler, NEW K, call[h].kind \in K, NEW s, At(h, s), NEW c, DOMAIN c = Fields,
         c.kind = call[h].kind, c.rest = call[h].rest, c.solo = call[h].solo, Goes(h, c)
  PROVE  /\ Turn(h, K)
         /\ \/ call'[h] = Idle /\ s \in Ends
            \/ /\ call'[h] = [c EXCEPT !.rest = Tail(c.rest)]
               /\ call'[h].rest # <<>> /\ Follows(s, Head(call'[h].rest))
<1>1. /\ Goal(h)
      /\ \/ call'[h] = Idle /\ s \in Ends
         \/ /\ call'[h] = [c EXCEPT !.rest = Tail(c.rest)]
            /\ call'[h].rest # <<>> /\ Follows(s, Head(call'[h].rest))
  BY ByGoing
<1>2. call'[h].kind \in {c.kind, "none"}
  BY <1>1, IdleProgrammed DEF Fields
<1> QED BY <1>1, <1>2 DEF Turn

LEMMA TurnFails ==
  ASSUME Orderly, NEW h \in Handler, NEW K, call[h].kind \in K, NEW s, At(h, s), Fails(h)
  PROVE  Turn(h, K) /\ call'[h] = Idle
BY ByFailing, IdleProgrammed DEF Turn

LEMMA TurnStays ==
  ASSUME Orderly, NEW h \in Handler, NEW K, call[h].kind \in K, NEW s, At(h, s), NEW c, DOMAIN c = Fields,
         c.kind = call[h].kind, c.solo = call[h].solo, c.rest # <<>>, Chained(StepsOf(c.kind), c.rest), Stays(h, c)
  PROVE  Turn(h, K) /\ call'[h] = c
<1>1. c.solo \in BOOLEAN /\ call[h].kind # "none"
  BY DEF Orderly, Programmed, At
<1>2. Programmed(c)
  BY <1>1 DEF Programmed
<1> QED BY <1>1, <1>2, ByStays DEF Turn

\* Nothing but the last step is left.
LEMMA LastStep ==
  ASSUME NEW S, NEW t \in S \cap Ends
  PROVE  Chained(S, <<t>>) /\ <<t>> # <<>> /\ Head(<<t>>) = t
BY One DEF Chained

\* What a step is to the requests of other kinds, and to those it overlaps.
Spares(L) == \A g \in Handler :
  call'[g].kind \in L => Same(call'[g], call[g]) /\ (call'[g].solo => call[g].solo)

Overlaps(L) == \A g \in Handler : call'[g].kind \in L => ~call'[g].solo

\* They are still there.
Keeps(L) == \A g \in Handler : call[g].kind \in L => Same(call'[g], call[g])

\* A turn of another kind leaves the requests of these kinds as they were.
LEMMA TurnSpares ==
  ASSUME NEW h \in Handler, NEW K, Turn(h, K), NEW L, K \cap L = {}, "none" \notin L
  PROVE  Spares(L) /\ Overlaps(L) /\ Keeps(L)
BY DEF Turn, Goal, Besides, Spares, Overlaps, Keeps

-----------------------------------------------------------------------------
\* Sequences that requests hold: items to go through.
Items(S, todo) == todo \in Seq(S) /\ todo # <<>>

\* What is left of a list of items, after the first.
LEMMA ItemsTail ==
  ASSUME NEW S, NEW todo, Items(S, todo)
  PROVE  /\ Head(todo) \in S /\ Head(todo) = todo[1] /\ Len(todo) \in Nat \ {0}
         /\ Len(todo) # 1 => Items(S, Tail(todo))
         /\ \A i \in 1..Len(todo) : todo[i] \in S
         /\ \A i \in 1..Len(Tail(todo)) : Tail(todo)[i] = todo[i + 1] /\ i + 1 \in 1..Len(todo)
<1>1. /\ todo \in Seq(S) /\ Len(todo) \in Nat /\ Len(todo) > 0
      /\ Tail(todo) \in Seq(S) /\ Len(Tail(todo)) = Len(todo) - 1
      /\ \A i \in 1..(Len(todo) - 1) : Tail(todo)[i] = todo[i + 1]
      /\ Head(todo) = todo[1] /\ \A i \in 1..Len(todo) : todo[i] \in S
  BY DEF Items
<1>0. Len(<<>>) = 0
  OBVIOUS
<1>2. Len(todo) # 1 => Tail(todo) # <<>>
  <2> SUFFICES ASSUME Tail(todo) = <<>> PROVE Len(todo) = 1
    OBVIOUS
  <2>1. Len(Tail(todo)) = 0
    BY <1>0
  <2> QED BY <1>1, <2>1
<1>3. \A i \in 1..(Len(todo) - 1) : i + 1 \in 1..Len(todo)
  BY <1>1
<1>4. Head(todo) \in S
  BY <1>1
<1>5. Len(todo) \in Nat \ {0}
  BY <1>1
<1> QED BY <1>1, <1>2, <1>3, <1>4, <1>5 DEF Items

\* The orders in which a set may be gone through are its lists without repetition.
LEMMA ItemsOfOrder ==
  ASSUME NEW S, NEW n \in Nat, NEW o \in [1..n -> S]
  PROVE  o \in Seq(S) /\ Len(o) = n /\ (n > 0 => Items(S, o)) /\ DOMAIN o = 1..n
<1>1. o \in Seq(S) /\ Len(o) = n
  OBVIOUS
<1>2. n > 0 => o # <<>>
  BY <1>1
<1> QED BY <1>1, <1>2 DEF Items

-----------------------------------------------------------------------------
\* The catalog: what a request to update it knows, and its cards.
IsFile(file) == DOMAIN file = {"torn", "text"} /\ file.torn \in BOOLEAN

CatalogKnows(c) == c.kind = "catalog" =>
  /\ \A f \in DOMAIN c.ask : c.ask[f] \in BOOLEAN
  /\ Items(Session, c.todo)
  /\ Head(c.rest) \in {"tear", "save"} =>
       /\ c.hold \in [Field -> BOOLEAN]
       /\ c.solo /\ ~c.blind => Head(c.todo) \in DOMAIN catalog /\ catalog[Head(c.todo)].text = c.hold

CatalogInv ==
  /\ \A s \in DOMAIN catalog : s \in Session /\ IsFile(catalog[s]) /\ catalog[s].text \in [Field -> BOOLEAN]
  /\ \A h \in Handler : CatalogKnows(call[h])

\* What requests know of the catalog they know as long as they are spared and nobody writes there.
LEMMA CatalogSpared ==
  ASSUME CatalogInv, Spares(CatalogKinds), catalog' = catalog
  PROVE  CatalogInv'
BY DEF CatalogInv, CatalogKnows, Spares, Same, CatalogKinds

\* Others that a step of h overlaps know nothing for sure.
LEMMA CatalogOvertaken ==
  ASSUME CatalogInv, NEW h \in Handler, Besides(h), CatalogKnows(call[h])', NEW g \in Handler
  PROVE  CatalogKnows(call[g])'
BY DEF CatalogInv, CatalogKnows, Besides, Same

\* A step of an update keeps the catalog and what updates know of it.
LEMMA CatalogStep ==
  ASSUME Orderly, CatalogInv, NEW h \in Handler, ServeCatalog(h)
  PROVE  Turn(h, CatalogKinds) /\ CatalogInv'
<1> USE DEF CatalogKinds
<1>c. /\ DOMAIN call[h] = Fields /\ call[h].solo \in BOOLEAN /\ CatalogKnows(call[h])
  BY DEF Orderly, Programmed, CatalogInv
<1>k. \A s \in {"load", "tear", "save"} : At(h, s) => call[h].kind = "catalog"
  BY KindOfStep, TailChained DEF At, Orderly, Programmed
<1>i. ASSUME Turn(h, CatalogKinds), CatalogKnows(call[h])',
             \A s \in DOMAIN catalog' : s \in Session /\ IsFile(catalog'[s]) /\ catalog'[s].text \in [Field -> BOOLEAN]
      PROVE  CatalogInv'
  BY <1>i, CatalogOvertaken DEF Turn, Goal, CatalogInv
<1>1. ASSUME BeginUpdate(h) PROVE Turn(h, CatalogKinds) /\ CatalogInv'
  <2>0. catalog' = catalog
    BY <1>1 DEF BeginUpdate, sfiles, cards
  <2>1. ASSUME NEW c, Begins(h, c), DOMAIN c = Fields, c.kind = "catalog", c.rest = UpdateSteps,
               \A f \in DOMAIN c.ask : c.ask[f] \in BOOLEAN,
               \E n \in 1..Cardinality(Session) : c.todo \in [1..n -> Session]
        PROVE  Turn(h, CatalogKinds) /\ CatalogInv'
    <3>1. Items(Session, c.todo)
      <4>1. PICK n \in 1..Cardinality(Session) : c.todo \in [1..n -> Session]
        BY <2>1
      <4>2. Cardinality(Session) \in Nat
        BY SessionAssumption, FS_CardinalityType
      <4>3. n \in Nat /\ n > 0
        BY <4>2
      <4> QED BY <4>1, <4>3, ItemsOfOrder
    <3>2. Chained(StepsOf(c.kind), c.rest) /\ c.rest # <<>> /\ c.kind \in CatalogKinds \ {"none"}
      BY <2>1, Programs
    <3>3. Turn(h, CatalogKinds) /\ call'[h] = [c EXCEPT !.solo = call'[h].solo]
      BY <2>1, <3>2, TurnBegins
    <3>4. call'[h].kind = "catalog" /\ call'[h].rest = UpdateSteps /\ call'[h].todo = c.todo /\ call'[h].ask = c.ask
      BY <2>1, <3>3 DEF Fields
    <3>5. Head(UpdateSteps) = "load"
      BY DEF UpdateSteps
    <3>6. CatalogKnows(call[h])'
      BY <2>1, <3>1, <3>4, <3>5 DEF CatalogKnows
    <3> QED BY <1>i, <2>0, <3>3, <3>6 DEF CatalogInv
  <2> QED BY <1>1, <2>1 DEF BeginUpdate, Idle, Fields
<1>2. ASSUME LoadCatalog(h) PROVE Turn(h, CatalogKinds) /\ CatalogInv'
  <2>1. At(h, "load") /\ call[h].kind = "catalog" /\ catalog' = catalog
    BY <1>2, <1>k DEF LoadCatalog, sfiles, cards
  <2> DEFINE s == Head(call[h].todo)
             c == [call[h] EXCEPT !.hold = Read(catalog[s], Untouched), !.blind = catalog[s].torn]
  <2>2. CASE s \in DOMAIN catalog
    <3>1. Goes(h, c)
      BY <1>2, <2>2 DEF LoadCatalog
    <3>2. /\ DOMAIN c = Fields /\ c.kind = call[h].kind /\ c.rest = call[h].rest /\ c.solo = call[h].solo
          /\ c.todo = call[h].todo /\ c.ask = call[h].ask
          /\ c.hold = Read(catalog[s], Untouched) /\ c.blind = catalog[s].torn
      BY <1>c DEF Fields
    <3>3. c.hold \in [Field -> BOOLEAN] /\ (~c.blind => c.hold = catalog[s].text)
      BY <2>2, <3>2 DEF CatalogInv, Read, Untouched, IsFile
    <3> HIDE DEF c
    <3>4. /\ Turn(h, CatalogKinds)
          /\ \/ call'[h] = Idle
             \/ /\ call'[h] = [c EXCEPT !.rest = Tail(c.rest)]
                /\ call'[h].rest # <<>> /\ Follows("load", Head(call'[h].rest))
      BY <2>1, <3>1, <3>2, TurnGoes
    <3>5. CatalogKnows(call[h])'
      BY <1>c, <2>1, <2>2, <3>2, <3>3, <3>4, IdleProgrammed DEF CatalogKnows, Fields
    <3> QED BY <1>i, <2>1, <3>4, <3>5 DEF CatalogInv
  <2>3. CASE s \notin DOMAIN catalog
    <3>1. Turn(h, CatalogKinds) /\ call'[h] = Idle
      BY <1>2, <2>1, <2>3, TurnFails DEF LoadCatalog
    <3>2. CatalogKnows(call[h])'
      BY <3>1, IdleProgrammed DEF CatalogKnows
    <3> QED BY <1>i, <2>1, <3>1, <3>2 DEF CatalogInv
  <2> QED BY <2>2, <2>3
<1>3. ASSUME TearCatalog(h) PROVE Turn(h, CatalogKinds) /\ CatalogInv'
  <2>1. At(h, "tear") /\ call[h].kind = "catalog" /\ Goes(h, call[h])
        /\ catalog' = [catalog EXCEPT ![Head(call[h].todo)] = Torn(@)]
    BY <1>3, <1>k DEF TearCatalog
  <2>2. \A s \in DOMAIN catalog : IsFile(Torn(catalog[s])) /\ Torn(catalog[s]).text = catalog[s].text
    BY DEF Torn, IsFile, CatalogInv
  <2>3. /\ DOMAIN catalog' = DOMAIN catalog
        /\ \A s \in DOMAIN catalog : catalog'[s] = IF s = Head(call[h].todo) THEN Torn(catalog[s]) ELSE catalog[s]
    BY <2>1
  <2>4. \A s \in DOMAIN catalog' : IsFile(catalog'[s]) /\ catalog'[s].text = catalog[s].text
    BY <2>2, <2>3 DEF CatalogInv
  <2>5. /\ Turn(h, CatalogKinds)
        /\ \/ call'[h] = Idle
           \/ call'[h] = [call[h] EXCEPT !.rest = Tail(call[h].rest)]
    BY <1>c, <2>1, TurnGoes
  <2>6. CatalogKnows(call[h])'
    BY <1>c, <2>1, <2>3, <2>4, <2>5, IdleProgrammed DEF CatalogKnows, Fields, At
  <2> QED BY <1>i, <2>3, <2>4, <2>5, <2>6 DEF CatalogInv
<1>4. ASSUME SaveCatalog(h) PROVE Turn(h, CatalogKinds) /\ CatalogInv'
  <2>1. At(h, "save") /\ call[h].kind = "catalog"
        /\ catalog' = [catalog EXCEPT ![Head(call[h].todo)] = File(Updated(call[h].hold, call[h].ask))]
    BY <1>4, <1>k DEF SaveCatalog
  <2> DEFINE new == Updated(call[h].hold, call[h].ask)
  <2>2. new \in [Field -> BOOLEAN]
    BY <1>c, <2>1 DEF Updated, CatalogKnows, At
  <2>3. IsFile(File(new)) /\ File(new).text = new
    BY DEF IsFile, File
  <2> HIDE DEF new
  <2>4. \A s \in DOMAIN catalog' : s \in Session /\ IsFile(catalog'[s]) /\ catalog'[s].text \in [Field -> BOOLEAN]
    BY <2>1, <2>2, <2>3 DEF CatalogInv, new
  <2>5. CASE Len(call[h].todo) = 1
    <3>1. Turn(h, CatalogKinds) /\ call'[h] = Idle
      BY <1>4, <2>1, <2>5, TurnFails DEF SaveCatalog
    <3>2. CatalogKnows(call[h])'
      BY <3>1, IdleProgrammed DEF CatalogKnows
    <3> QED BY <1>i, <2>4, <3>1, <3>2
  <2>6. CASE Len(call[h].todo) # 1
    <3> DEFINE c == [call[h] EXCEPT !.rest = UpdateSteps, !.todo = Tail(@)]
    <3>1. Stays(h, c)
      BY <1>4, <2>6 DEF SaveCatalog
    <3>2. /\ DOMAIN c = Fields /\ c.kind = call[h].kind /\ c.solo = call[h].solo /\ c.rest = UpdateSteps
          /\ c.todo = Tail(call[h].todo) /\ c.ask = call[h].ask
      BY <1>c DEF Fields
    <3> HIDE DEF c
    <3>3. Turn(h, CatalogKinds) /\ call'[h] = c
      BY <2>1, <3>1, <3>2, Programs, TurnStays
    <3>4. Items(Session, c.todo)
      BY <1>c, <2>1, <2>6, <3>2, ItemsTail DEF CatalogKnows
    <3>5. Head(UpdateSteps) = "load"
      BY DEF UpdateSteps
    <3>6. CatalogKnows(call[h])'
      BY <1>c, <2>1, <3>2, <3>3, <3>4, <3>5 DEF CatalogKnows
    <3> QED BY <1>i, <2>4, <3>3, <3>6
  <2> QED BY <2>5, <2>6
<1> QED BY <1>1, <1>2, <1>3, <1>4 DEF ServeCatalog

\* What an update that nothing overlapped leaves alone.
LEMMA SaveIsLocal ==
  ASSUME Orderly, CatalogInv, NEW h \in Handler, call[h].solo, ~call[h].blind, SaveCatalog(h)
  PROVE  LET s == Head(call[h].todo)
         IN  \A f \in Field \ DOMAIN call[h].ask : catalog'[s].text[f] = catalog[s].text[f]
<1>1. At(h, "save") /\ call[h].kind = "catalog"
  BY KindOfStep, TailChained DEF At, Orderly, Programmed, SaveCatalog, CatalogKinds
<1>2. /\ Head(call[h].todo) \in DOMAIN catalog /\ catalog[Head(call[h].todo)].text = call[h].hold
      /\ call[h].hold \in [Field -> BOOLEAN]
  BY <1>1 DEF CatalogInv, CatalogKnows, At
<1>3. catalog'[Head(call[h].todo)] = File(Updated(call[h].hold, call[h].ask))
  BY <1>2 DEF SaveCatalog
<1> QED BY <1>2, <1>3 DEF File, Updated

-----------------------------------------------------------------------------
\* Jobs.
JobInv ==
  /\ job \in [Job -> Status] /\ failed \in [Job -> 0..MaxLetters] /\ latest \in Job \cup {None}
  /\ latest # None => job[latest] # "absent"

\* The history only grows, and only by as many entries as are counted.
LEMMA HistoryGrows ==
  ASSUME JobInv, NEW j \in Job, AnyTime(j)
  PROVE  failed' \in [Job -> 0..MaxLetters] /\ \A i \in Job : failed[i] >= 2 => failed'[i] >= 2
<1>1. CASE Archived(j)
  <2>1. /\ failed \in [Job -> 0..MaxLetters] /\ failed[j] < MaxLetters /\ MaxLetters \in Nat
        /\ failed' = [failed EXCEPT ![j] = failed[j] + 1] /\ failed[j] + 1 \in 0..MaxLetters
    BY <1>1, SessionAssumption DEF Archived, JobInv
  <2>2. failed' \in [Job -> 0..MaxLetters]
    BY <2>1
  <2>3. \A i \in Job : failed[i] \in Nat /\ failed'[i] = IF i = j THEN failed[i] + 1 ELSE failed[i]
    BY <2>1
  <2> QED BY <2>2, <2>3
<1>2. CASE UNCHANGED failed
  BY <1>2 DEF JobInv
<1> QED BY <1>1, <1>2 DEF AnyTime

\* Selection and linkage.
IsHistory(s) == \E n \in Nat : DOMAIN s = 1..n /\ s \in Seq({s[i] : i \in 1..n})

IsLinkage(text) ==
  /\ IsHistory(text.history) /\ text.index \in Nat
  /\ text.history # <<>> => text.index < Len(text.history)

EditKnows(c) == c.kind \in EditKinds =>
  /\ c.ask.job \in Job \cup {None} /\ c.ask.index \in Nat
  /\ c.kind = "refresh" => c.ask.job \in Job
  /\ c.ask.history # None => IsHistory(c.ask.history)
  /\ Head(c.rest) \in {"chosen", "tearLinkage", "link"} => IsLinkage(c.hold)
  /\ c.solo /\ (Head(c.rest) \in {"tearLinkage", "link"} \/ (c.kind = "apply" /\ Head(c.rest) \in {"prior", "chosen"}))
       => c.chosen = selection.state.text

EditFiles ==
  /\ DOMAIN selection = {"images", "state"} /\ IsFile(selection.state)
  /\ IsFile(linkage) /\ IsLinkage(linkage.text)

EditInv == EditFiles /\ \A h \in Handler : EditKnows(call[h])

\* What requests know of selection and linkage they know as long as they are spared and nobody writes there.
LEMMA EditSpared ==
  ASSUME EditInv, Spares(EditKinds), UNCHANGED edit
  PROVE  EditInv'
BY DEF EditInv, EditFiles, EditKnows, Spares, Same, EditKinds, edit

LEMMA EditOvertaken ==
  ASSUME EditInv, NEW h \in Handler, Besides(h), EditKnows(call[h])', NEW g \in Handler
  PROVE  EditKnows(call[g])'
BY DEF EditInv, EditKnows, Besides, Same, EditKinds

\* A history without its repetitions is still a history.
LEMMA DeduplicatedHistory ==
  ASSUME NEW s, IsHistory(s)
  PROVE  IsHistory(Deduplicated(s)) /\ Len(Deduplicated(s)) \in Nat
         /\ (Deduplicated(s) # <<>> => Len(Deduplicated(s)) > 0)
<1>1. PICK n \in Nat : DOMAIN s = 1..n
  BY DEF IsHistory
<1> DEFINE keeps == {i \in DOMAIN s : \A k \in 1..(i - 1) : s[k] # s[i]}
           k == Cardinality(keeps)
<1>2. IsFiniteSet(1..n) /\ keeps \subseteq 1..n
  BY <1>1, FS_Interval
<1>3. k \in Nat
  BY <1>2, FS_Subset, FS_CardinalityType
<1> DEFINE at == [m \in 1..k |-> s[CHOOSE i \in keeps : Cardinality({j \in keeps : j <= i}) = m]]
<1>4. Deduplicated(s) = at
  BY DEF Deduplicated
<1>5. DOMAIN at = 1..k
  OBVIOUS
<1> HIDE DEF k, at
<1>6. at \in Seq({at[i] : i \in 1..k}) /\ Len(at) = k
  <2>1. \A i \in 1..k : at[i] \in {at[j] : j \in 1..k}
    OBVIOUS
  <2>2. at = [i \in 1..k |-> at[i]]
    BY <1>5 DEF at
  <2>3. at \in [1..k -> {at[i] : i \in 1..k}]
    BY <2>1, <2>2
  <2> QED BY <1>3, <2>3, ItemsOfOrder
<1>7. IsHistory(at)
  BY <1>3, <1>5, <1>6 DEF IsHistory
<1>8. at # <<>> => Len(at) > 0
  BY <1>3, <1>6
<1> QED BY <1>3, <1>4, <1>6, <1>7, <1>8

\* What is linked has a history, and an index into it.
LEMMA LinkedIsLinkage ==
  ASSUME NEW ask, NEW prior, NEW chosen, IsLinkage(prior), ask.index \in Nat,
         ask.history # None => IsHistory(ask.history)
  PROVE  LET new == Linked(ask, prior, chosen)
         IN  IsLinkage(new) /\ (chosen.mask # None => new.mask = chosen.mask)
<1> DEFINE new  == Linked(ask, prior, chosen)
           past == Deduplicated(IF ask.history # None THEN ask.history ELSE prior.history)
           place == IF ask.history # None THEN ask.index ELSE prior.index
<1>1. /\ new.history = past
      /\ new.index = IF past = <<>> THEN 0 ELSE IF place > Len(past) - 1 THEN Len(past) - 1 ELSE place
      /\ new.mask = IF chosen.mask # None THEN chosen.mask ELSE prior.mask
  BY DEF Linked
<1>2. IsHistory(past) /\ Len(past) \in Nat /\ (past # <<>> => Len(past) > 0)
  BY DeduplicatedHistory DEF IsLinkage
<1>3. place \in Nat
  BY DEF IsLinkage
<1> HIDE DEF new, past, place
<1>4. new.index \in Nat /\ (past # <<>> => new.index < Len(past))
  BY <1>1, <1>2, <1>3
<1>5. IsLinkage(new)
  BY <1>1, <1>2, <1>4 DEF IsLinkage
<1>6. chosen.mask # None => new.mask = chosen.mask
  BY <1>1
<1> QED BY <1>5, <1>6 DEF new

LEMMA NoLinkageIsLinkage == IsLinkage(NoLinkage)
<1>1. <<>> \in Seq({<<>>[i] : i \in 1..0}) /\ DOMAIN <<>> = 1..0
  OBVIOUS
<1>2. IsHistory(<<>>)
  BY <1>1 DEF IsHistory
<1> QED BY <1>2 DEF IsLinkage, NoLinkage

LEMMA FinishIsRefresh ==
  ASSUME NEW k, "finish" \in StepsOf(k)
  PROVE  k = "refresh"
BY DEF StepsOf, Linking, Packing, Staging

ApplySteps   == <<"images", "tearState", "state">> \o LinkSteps
RefreshSteps == <<"finish">> \o LinkSteps

LEMMA SyncHistory == IsHistory(<<"original", "candidate", "original">>)
<1> DEFINE s == <<"original", "candidate", "original">>
<1>1. DOMAIN s = 1..3 /\ s \in Seq({"original", "candidate"}) /\ s[1] = "original" /\ s[2] = "candidate" /\ s[3] = "original"
  OBVIOUS
<1> HIDE DEF s
<1>2. s \in Seq({s[i] : i \in 1..3})
  <2>1. \A i \in 1..3 : s[i] \in {s[j] : j \in 1..3}
    OBVIOUS
  <2>2. {"original", "candidate"} \subseteq {s[j] : j \in 1..3}
    BY <1>1
  <2> QED BY <1>1, <2>2
<1>3. 3 \in Nat
  OBVIOUS
<1>4. IsHistory(s)
  BY <1>1, <1>2, <1>3 DEF IsHistory
<1> QED BY <1>4 DEF s

\* The programs of apply, sync and refresh.
LEMMA EditPrograms ==
  /\ Chained(StepsOf("apply"), ApplySteps) /\ ApplySteps # <<>> /\ Head(ApplySteps) = "images"
  /\ Chained(StepsOf("refresh"), RefreshSteps) /\ RefreshSteps # <<>> /\ Head(RefreshSteps) = "finish"
  /\ Chained(StepsOf("sync"), LinkSteps) /\ LinkSteps # <<>> /\ Head(LinkSteps) = "prior"
<1>1. {"images", "tearState", "state"} \subseteq StepsOf("apply") /\ "finish" \in StepsOf("refresh")
  BY DEF StepsOf
<1>2. Follows("images", "tearState") /\ Follows("tearState", "state") /\ Follows("state", "prior") /\ Follows("finish", "prior")
  BY DEF Follows
<1> DEFINE three == <<"images", "tearState", "state">>
           one == <<"finish">>
<1>3. Ordered(StepsOf("apply"), three) /\ three # <<>> /\ three[1] = "images" /\ three[Len(three)] = "state"
  BY <1>1, <1>2, Three
<1>4. Ordered(StepsOf("refresh"), one) /\ one # <<>> /\ one[1] = "finish" /\ one[Len(one)] = "finish"
  BY <1>1, One
<1> HIDE DEF three, one, ApplySteps, RefreshSteps
<1>5. Ordered(StepsOf("apply"), three \o LinkSteps) /\ three \o LinkSteps # <<>> /\ (three \o LinkSteps)[1] = "images"
      /\ (three \o LinkSteps)[Len(three \o LinkSteps)] = "link"
  BY <1>2, <1>3, Programs, Joined
<1>6. Ordered(StepsOf("refresh"), one \o LinkSteps) /\ one \o LinkSteps # <<>> /\ (one \o LinkSteps)[1] = "finish"
      /\ (one \o LinkSteps)[Len(one \o LinkSteps)] = "link"
  BY <1>2, <1>4, Programs, Joined
<1>7. \A r : Head(r) = r[1]
  OBVIOUS
<1>8. Chained(StepsOf("apply"), three \o LinkSteps) /\ Chained(StepsOf("refresh"), one \o LinkSteps)
      /\ Chained(StepsOf("sync"), LinkSteps)
  BY <1>5, <1>6, Programs DEF Chained, Ends
<1>9. Head(LinkSteps) = "prior" /\ LinkSteps # <<>>
  BY <1>7, Programs
<1>10. Head(three \o LinkSteps) = "images" /\ three \o LinkSteps # <<>>
  BY <1>5, <1>7
<1>11. Head(one \o LinkSteps) = "finish" /\ one \o LinkSteps # <<>>
  BY <1>6, <1>7
<1> QED BY <1>8, <1>9, <1>10, <1>11 DEF three, one, ApplySteps, RefreshSteps

\* A step of apply, sync or refresh keeps selection, linkage and what such requests know.
LEMMA EditStep ==
  ASSUME Orderly, EditInv, JobInv, NEW h \in Handler, ServeEdit(h)
  PROVE  Turn(h, EditKinds) /\ EditInv' /\ JobInv'
<1> DEFINE Kept == Turn(h, EditKinds) /\ EditInv' /\ JobInv'
<1>c. /\ DOMAIN call[h] = Fields /\ call[h].solo \in BOOLEAN /\ EditKnows(call[h])
  BY DEF Orderly, Programmed, EditInv
<1>k. \A s \in {"images", "tearState", "state", "finish", "prior", "chosen", "tearLinkage", "link"} :
        At(h, s) => call[h].kind \in EditKinds
  BY KindOfStep, TailChained DEF At, Orderly, Programmed
<1>i. ASSUME Turn(h, EditKinds), EditKnows(call[h])', EditFiles', JobInv' PROVE Kept
  BY <1>i, EditOvertaken DEF Turn, Goal, EditInv
<1>f. EditFiles
  BY DEF EditInv
<1>e. ASSUME UNCHANGED edit PROVE EditFiles'
  BY <1>e, <1>f DEF EditFiles, edit
<1>j. ASSUME UNCHANGED jobs PROVE JobInv'
  BY <1>j DEF JobInv, jobs
<1>z. ASSUME call'[h] = Idle PROVE EditKnows(call[h])'
  BY <1>z, IdleProgrammed DEF EditKnows, EditKinds
<1>b. ASSUME NEW c, Begins(h, c), DOMAIN c = Fields, c.kind \in EditKinds,
             Chained(StepsOf(c.kind), c.rest), c.rest # <<>>,
             c.ask.job \in Job \cup {None}, c.ask.index \in Nat,
             c.kind = "refresh" => c.ask.job \in Job,
             c.ask.history # None => IsHistory(c.ask.history),
             Head(c.rest) \in {"images", "finish"} \/ (Head(c.rest) = "prior" /\ c.kind # "apply"),
             EditFiles', JobInv'
      PROVE  Kept
  <2>1. Turn(h, EditKinds) /\ call'[h] = [c EXCEPT !.solo = call'[h].solo]
    BY <1>b, TurnBegins DEF EditKinds
  <2>2. call'[h].kind = c.kind /\ call'[h].rest = c.rest /\ call'[h].ask = c.ask
    BY <1>b, <2>1 DEF Fields
  <2>3. EditKnows(call[h])'
    BY <1>b, <2>2 DEF EditKnows
  <2> QED BY <1>b, <1>i, <2>1, <2>3
<1>g. ASSUME NEW s \in {"images", "tearState", "state", "finish", "prior", "chosen", "tearLinkage"}, At(h, s), NEW c, DOMAIN c = Fields,
             c.kind = call[h].kind, c.rest = call[h].rest, c.solo = call[h].solo, Goes(h, c), c.ask = call[h].ask,
             \A t : Follows(s, t) /\ t \in {"chosen", "tearLinkage", "link"} => IsLinkage(c.hold),
             \A t : Follows(s, t) /\ c.solo /\ (t \in {"tearLinkage", "link"} \/ (c.kind = "apply" /\ t \in {"prior", "chosen"}))
                    => c.chosen = selection'.state.text
      PROVE  Turn(h, EditKinds) /\ EditKnows(call[h])'
  <2>1. call[h].kind \in EditKinds
    BY <1>g, <1>k
  <2>2. /\ Turn(h, EditKinds)
        /\ \/ call'[h] = Idle
           \/ /\ call'[h] = [c EXCEPT !.rest = Tail(c.rest)]
              /\ Follows(s, Head(call'[h].rest))
    BY <1>g, <2>1, TurnGoes
  <2>3. CASE call'[h] = [c EXCEPT !.rest = Tail(c.rest)] /\ Follows(s, Head(call'[h].rest))
    <3>1. /\ call'[h].kind = c.kind /\ call'[h].solo = c.solo /\ call'[h].ask = c.ask
          /\ call'[h].hold = c.hold /\ call'[h].chosen = c.chosen
      BY <1>g, <2>3 DEF Fields
    <3> DEFINE t == Head(call'[h].rest)
    <3>2. Follows(s, t)
      BY <2>3
    <3>3. t \in {"chosen", "tearLinkage", "link"} => IsLinkage(c.hold)
      BY <1>g, <3>2
    <3>4. c.solo /\ (t \in {"tearLinkage", "link"} \/ (c.kind = "apply" /\ t \in {"prior", "chosen"}))
                    => c.chosen = selection'.state.text
      BY <1>g, <3>2
    <3>5. c.ask = call[h].ask /\ c.kind = call[h].kind
      BY <1>g
    <3>6. /\ c.ask.job \in Job \cup {None} /\ c.ask.index \in Nat
          /\ c.kind = "refresh" => c.ask.job \in Job
          /\ c.ask.history # None => IsHistory(c.ask.history)
      BY <1>c, <2>1, <3>5 DEF EditKnows
    <3> HIDE DEF t
    <3>7. /\ c.kind = call'[h].kind /\ c.solo = call'[h].solo /\ c.ask = call'[h].ask
          /\ c.hold = call'[h].hold /\ c.chosen = call'[h].chosen
      BY <3>1
    <3>8. Head(call'[h].rest) = t
      BY DEF t
    <3> QED BY <2>2, <3>3, <3>4, <3>6, <3>7, <3>8 DEF EditKnows
  <2> QED BY <1>z, <2>2, <2>3
<1>1. ASSUME BeginApply(h) PROVE Kept
  <2>0. EditFiles' /\ JobInv'
    BY <1>1, <1>e, <1>j DEF BeginApply, sfiles
  <2>1. ASSUME NEW c, Begins(h, c), DOMAIN c = Fields, c.kind = "apply", c.rest = ApplySteps,
               c.ask.job = None, c.ask.index = 0, c.ask.history = None
        PROVE  Kept
    BY <2>0, <2>1, <1>b, EditPrograms, SyncHistory DEF EditKinds
  <2> HIDE DEF Kept
  <2> QED BY <1>1, <2>1 DEF BeginApply, Idle, Fields, ApplySteps, RefreshSteps
<1>5. ASSUME BeginSync(h) PROVE Kept
  <2>0. EditFiles' /\ JobInv'
    BY <1>5, <1>e, <1>j DEF BeginSync, sfiles
  <2>1. ASSUME NEW c, Begins(h, c), DOMAIN c = Fields, c.kind = "sync", c.rest = LinkSteps,
               c.ask.job \in Job \cup {None}, c.ask.index \in {0, 2},
               c.ask.history \in {None, <<"original", "candidate", "original">>}
        PROVE  Kept
    BY <2>0, <2>1, <1>b, EditPrograms, SyncHistory DEF EditKinds
  <2> HIDE DEF Kept
  <2> QED BY <1>5, <2>1 DEF BeginSync, Idle, Fields, ApplySteps, RefreshSteps
<1>6. ASSUME BeginRefresh(h) PROVE Kept
  <2>0. EditFiles' /\ JobInv'
    BY <1>6, <1>e, <1>j DEF BeginRefresh, sfiles
  <2>1. ASSUME NEW c, Begins(h, c), DOMAIN c = Fields, c.kind = "refresh", c.rest = RefreshSteps,
               c.ask.job \in Job, c.ask.index = 0, c.ask.history = None
        PROVE  Kept
    BY <2>0, <2>1, <1>b, EditPrograms, SyncHistory DEF EditKinds
  <2> HIDE DEF Kept
  <2> QED BY <1>6, <2>1 DEF BeginRefresh, Idle, Fields, ApplySteps, RefreshSteps
<1>2. ASSUME WriteImages(h) PROVE Kept
  <2>1. At(h, "images") /\ UNCHANGED jobs
    BY <1>2 DEF WriteImages, sfiles
  <2>2. EditFiles'
    BY <1>2, <1>f DEF WriteImages, EditFiles
  <2>3. Goes(h, call[h]) /\ \A t : Follows("images", t) => t = "tearState"
    BY <1>2 DEF WriteImages, Follows
  <2>4. Turn(h, EditKinds) /\ EditKnows(call[h])'
    BY <1>c, <1>g, <2>1, <2>3
  <2> QED BY <1>i, <1>j, <2>1, <2>2, <2>4
<1>3. ASSUME TearState(h) PROVE Kept
  <2>1. At(h, "tearState") /\ UNCHANGED jobs
    BY <1>3 DEF TearState, sfiles
  <2>2. EditFiles'
    BY <1>3, <1>f DEF TearState, EditFiles, Torn, IsFile
  <2>3. Goes(h, call[h]) /\ \A t : Follows("tearState", t) => t = "state"
    BY <1>3 DEF TearState, Follows
  <2>4. Turn(h, EditKinds) /\ EditKnows(call[h])'
    BY <1>c, <1>g, <2>1, <2>3
  <2> QED BY <1>i, <1>j, <2>1, <2>2, <2>4
<1>4. ASSUME WriteState(h) PROVE Kept
  <2>1. At(h, "state") /\ UNCHANGED jobs
    BY <1>4 DEF WriteState, sfiles
  <2>2. EditFiles'
    BY <1>4, <1>f DEF WriteState, EditFiles, File, IsFile
  <2>3. Goes(h, call[h]) /\ \A t : Follows("state", t) => t = "prior"
    BY <1>4 DEF WriteState, Follows
  <2>5. selection'.state.text = call[h].chosen
    BY <1>4, <1>f DEF WriteState, EditFiles, File
  <2>4. Turn(h, EditKinds) /\ EditKnows(call[h])'
    BY <1>c, <1>g, <2>1, <2>3, <2>5
  <2> QED BY <1>i, <1>j, <2>1, <2>2, <2>4
<1>7. ASSUME FinishJob(h) PROVE Kept
  <2>1. At(h, "finish") /\ UNCHANGED edit /\ call[h].kind = "refresh"
    BY <1>7, FinishIsRefresh, TailChained DEF FinishJob, At, Orderly, Programmed
  <2>2. EditFiles' /\ call[h].ask.job \in Job
    BY <1>e, <1>c, <2>1 DEF EditKnows, EditKinds
  <2> DEFINE j == call[h].ask.job
  <2>6. PICK status \in {"done", "error"} : job' = [job EXCEPT ![j] = status]
    BY <1>7 DEF FinishJob
  <2>7. AnyTime(j) /\ latest' = j
    BY <1>7 DEF FinishJob, AnyTime
  <2>8. failed' \in [Job -> 0..MaxLetters]
    BY <2>2, <2>7, HistoryGrows
  <2>3. JobInv'
    <3>1. job \in [Job -> Status] /\ status \in Status \ {"absent"}
      BY <1>e DEF JobInv, Status, Failing
    <3>2. job' \in [Job -> Status] /\ job'[j] = status
      BY <2>2, <2>6, <3>1
    <3> QED BY <2>2, <2>7, <2>8, <3>1, <3>2 DEF JobInv
  <2>4. \A t : Follows("finish", t) => t = "prior"
    BY DEF Follows
  <2>5. Goes(h, call[h]) \/ Fails(h)
    BY <1>7 DEF FinishJob
  <2>9. CASE Goes(h, call[h])
    <3>1. Turn(h, EditKinds) /\ EditKnows(call[h])'
      BY <1>c, <1>g, <2>1, <2>4, <2>9
    <3> QED BY <1>i, <2>2, <2>3, <3>1
  <2>10. CASE Fails(h)
    <3>1. Turn(h, EditKinds) /\ call'[h] = Idle
      BY <1>k, <2>1, <2>10, TurnFails
    <3> QED BY <1>i, <1>z, <2>2, <2>3, <3>1
  <2> QED BY <2>5, <2>9, <2>10
<1>8. ASSUME ReadPrior(h) PROVE Kept
  <2>1. At(h, "prior") /\ UNCHANGED edit /\ UNCHANGED jobs
    BY <1>8 DEF ReadPrior, sfiles
  <2> DEFINE c == [call[h] EXCEPT !.hold = Read(linkage, NoLinkage)]
  <2>2. Goes(h, c)
    BY <1>8 DEF ReadPrior
  <2>3. /\ DOMAIN c = Fields /\ c.kind = call[h].kind /\ c.rest = call[h].rest /\ c.solo = call[h].solo
        /\ c.ask = call[h].ask /\ c.chosen = call[h].chosen /\ c.hold = Read(linkage, NoLinkage)
    BY <1>c DEF Fields
  <2> HIDE DEF c
  <2>4. IsLinkage(c.hold)
    BY <1>f, <2>3, NoLinkageIsLinkage DEF EditFiles, Read
  <2>5. \A t : Follows("prior", t) => t = "chosen"
    BY DEF Follows
  <2>6. c.solo /\ c.kind = "apply" => c.chosen = selection'.state.text
    BY <1>c, <2>1, <2>3 DEF EditKnows, EditKinds, At, edit
  <2>7. Turn(h, EditKinds) /\ EditKnows(call[h])'
    BY <1>g, <2>1, <2>2, <2>3, <2>4, <2>5, <2>6
  <2> QED BY <1>e, <1>i, <1>j, <2>1, <2>7
<1>9. ASSUME ReadChosen(h) PROVE Kept
  <2>1. At(h, "chosen") /\ UNCHANGED edit /\ UNCHANGED jobs /\ call[h].kind \in EditKinds
    BY <1>9, <1>k DEF ReadChosen, sfiles
  <2> DEFINE c == [call[h] EXCEPT !.chosen = IF call[h].kind = "apply" THEN @ ELSE selection.state.text]
  <2>2. CASE Fails(h)
    <3>1. Turn(h, EditKinds) /\ call'[h] = Idle
      BY <2>1, <2>2, TurnFails
    <3> QED BY <1>e, <1>i, <1>j, <1>z, <2>1, <3>1
  <2>3. CASE Goes(h, c)
    <3>3. /\ DOMAIN c = Fields /\ c.kind = call[h].kind /\ c.rest = call[h].rest /\ c.solo = call[h].solo
          /\ c.ask = call[h].ask /\ c.hold = call[h].hold
          /\ c.chosen = IF call[h].kind = "apply" THEN call[h].chosen ELSE selection.state.text
      BY <1>c DEF Fields
    <3> HIDE DEF c
    <3>4. IsLinkage(c.hold)
      BY <1>c, <2>1, <3>3 DEF EditKnows, At
    <3>5. \A t : Follows("chosen", t) => t = "tearLinkage"
      BY DEF Follows
    <3>6. c.solo => c.chosen = selection'.state.text
      BY <1>c, <2>1, <3>3 DEF EditKnows, EditKinds, At, edit
    <3>7. Turn(h, EditKinds) /\ EditKnows(call[h])'
      BY <1>g, <2>1, <2>3, <3>3, <3>4, <3>5, <3>6
    <3> QED BY <1>e, <1>i, <1>j, <2>1, <3>7
  <2> QED BY <1>9, <2>2, <2>3 DEF ReadChosen
<1>10. ASSUME TearLinkage(h) PROVE Kept
  <2>1. At(h, "tearLinkage") /\ UNCHANGED jobs /\ call[h].kind \in EditKinds /\ selection' = selection
    BY <1>10, <1>k DEF TearLinkage, sfiles
  <2>2. EditFiles'
    BY <1>10, <1>f DEF TearLinkage, EditFiles, Torn, IsFile
  <2>3. Goes(h, call[h]) /\ \A t : Follows("tearLinkage", t) => t = "link"
    BY <1>10 DEF TearLinkage, Follows
  <2>4. IsLinkage(call[h].hold) /\ (call[h].solo => call[h].chosen = selection'.state.text)
    BY <1>c, <2>1 DEF EditKnows, At
  <2>5. Turn(h, EditKinds) /\ EditKnows(call[h])'
    BY <1>c, <1>g, <2>1, <2>3, <2>4
  <2> QED BY <1>i, <1>j, <2>1, <2>2, <2>5
<1>11. ASSUME Link(h) PROVE Kept
  <2>1. At(h, "link") /\ UNCHANGED jobs /\ call[h].kind \in EditKinds /\ selection' = selection /\ Goes(h, call[h])
        /\ linkage' = File(Linked(call[h].ask, call[h].hold, call[h].chosen))
    BY <1>11, <1>k DEF Link
  <2>2. IsLinkage(Linked(call[h].ask, call[h].hold, call[h].chosen))
    BY <1>c, <2>1, LinkedIsLinkage DEF EditKnows, At
  <2>3. EditFiles'
    BY <1>f, <2>1, <2>2 DEF EditFiles, File, IsFile
  <2>4. \A t : ~Follows("link", t)
    BY DEF Follows
  <2>5. Turn(h, EditKinds) /\ call'[h] = Idle
    BY <1>c, <2>1, <2>4, TurnGoes
  <2> QED BY <1>i, <1>j, <1>z, <2>1, <2>3, <2>5
<1> QED BY <1>1, <1>2, <1>3, <1>4, <1>5, <1>6, <1>7, <1>8, <1>9, <1>10, <1>11 DEF ServeEdit

\* Linkage that an undisturbed request writes has the mask of the selection on file.
LEMMA LinkFollows ==
  ASSUME Orderly, EditInv, NEW h \in Handler, call[h].solo, Link(h), selection.state.text.mask # None
  PROVE  linkage'.text.mask = selection.state.text.mask
<1>1. At(h, "link") /\ call[h].kind \in EditKinds /\ EditKnows(call[h])
  BY KindOfStep, TailChained DEF At, Orderly, Programmed, Link, EditInv
<1>2. call[h].chosen = selection.state.text
  BY <1>1 DEF EditKnows, At
<1>3. linkage' = File(Linked(call[h].ask, call[h].hold, call[h].chosen))
  BY DEF Link
<1>4. Linked(call[h].ask, call[h].hold, call[h].chosen).mask = call[h].chosen.mask
  BY <1>2 DEF Linked
<1> QED BY <1>2, <1>3, <1>4 DEF File

-----------------------------------------------------------------------------
\* Dead letters: what a request to investigate one knows, and one to retry some.
InvestigateKnows(c) == c.kind = "investigate" =>
  /\ c.ask.assigned \in {None, TRUE} /\ c.ask.acknowledged \in BOOLEAN /\ c.ask.status \in {None, "resolved"}
  /\ Items(Letter, c.todo)
  /\ Head(c.rest) \in {"tearLetters", "note"} =>
       /\ c.hold \in [Letter -> Investigation]
       /\ c.solo /\ ~c.blind => c.hold = letters.text

\* What is left of a list of failures s, when the jobs in seen have been answered and, unless
\* all is said, the first is being retried: whoever is still on it is failing or has been
\* met before, and whoever is met more than once has failed more than once.
Due(s, seen, all, status, times) ==
  /\ \A i, k \in 1..Len(s) : i # k /\ s[i] = s[k] => times[s[i]] >= 2
  /\ \A i \in 1..Len(s) :
       /\ s[i] \in seen => times[s[i]] >= 2
       /\ all \/ i > 1 => status[s[i]] \in Failing \/ s[i] \in seen \/ (i > 1 /\ s[i] = s[1])

RetryKnows(c) == c.kind = "retry" =>
  /\ c.ask # None => Items(Job, c.ask)
  /\ Head(c.rest) = "list" => c.hold = {}
  /\ Head(c.rest) \in {"reset", "requeue"} =>
       /\ Items(Job, c.todo)
       /\ c.ask = None /\ c.solo => Due(c.todo, c.hold, Head(c.rest) = "reset", job, failed)

LettersKnow(c) == InvestigateKnows(c) /\ RetryKnows(c)

LettersFile == IsFile(letters) /\ letters.text \in [Letter -> Investigation]

LettersInv == LettersFile /\ \A h \in Handler : LettersKnow(call[h])

\* A job that fails does so until somebody retries it, and the history keeps its entries.
FailuresStay == \A j \in Job : /\ job[j] \in Failing => job'[j] \in Failing
                               /\ failed[j] >= 2 => failed'[j] >= 2

\* What is due stays so while failures do.
LEMMA DueStays ==
  ASSUME NEW s, NEW seen, NEW all, Items(Job, s), NEW status, NEW times, Due(s, seen, all, status, times),
         NEW status2, NEW times2,
         \A j \in Job : status[j] \in Failing => status2[j] \in Failing,
         \A j \in Job : times[j] >= 2 => times2[j] >= 2
  PROVE  Due(s, seen, all, status2, times2)
<1>1. \A i \in 1..Len(s) : s[i] \in Job
  BY ItemsTail
<1> QED BY <1>1 DEF Due

\* It stays so but for the first, whatever becomes of that.
LEMMA DueWithoutFirst ==
  ASSUME NEW s, NEW seen, NEW all, Items(Job, s), NEW status, NEW times, Due(s, seen, all, status, times),
         NEW status2, \A i \in 1..Len(s) : s[i] # Head(s) => status2[s[i]] = status[s[i]]
  PROVE  Due(s, seen, FALSE, status2, times)
<1>1. Head(s) = s[1]
  BY ItemsTail
<1> QED BY <1>1 DEF Due

\* When the first has been answered the others are still due.
LEMMA DueOnwards ==
  ASSUME NEW s, NEW seen, NEW status, NEW times, Items(Job, s), Due(s, seen, FALSE, status, times), Len(s) # 1
  PROVE  Due(Tail(s), seen \cup {Head(s)}, TRUE, status, times)
<1>1. /\ Head(s) = s[1] /\ Len(s) \in Nat \ {0} /\ Items(Job, Tail(s))
      /\ \A i \in 1..Len(Tail(s)) : Tail(s)[i] = s[i + 1] /\ i + 1 \in 1..Len(s)
  BY ItemsTail
<1>2. \A i \in 1..Len(Tail(s)) : i \in Nat /\ i + 1 > 1 /\ i + 1 # 1
  BY <1>1 DEF Items
<1>3. 1 \in 1..Len(s)
  BY <1>1
<1>4. ASSUME NEW i \in 1..Len(Tail(s)), NEW k \in 1..Len(Tail(s)), i # k, Tail(s)[i] = Tail(s)[k]
      PROVE  times[Tail(s)[i]] >= 2
  <2>1. i + 1 # k + 1
    BY <1>2, <1>4
  <2> QED BY <1>1, <1>4, <2>1 DEF Due
<1>5. ASSUME NEW i \in 1..Len(Tail(s)), Tail(s)[i] \in seen \cup {Head(s)} PROVE times[Tail(s)[i]] >= 2
  BY <1>1, <1>2, <1>3, <1>5 DEF Due
<1>6. ASSUME NEW i \in 1..Len(Tail(s)) PROVE status[Tail(s)[i]] \in Failing \/ Tail(s)[i] \in seen \cup {Head(s)}
  BY <1>1, <1>2 DEF Due
<1> QED BY <1>4, <1>5, <1>6 DEF Due

\* What requests know of the dead letters they know as long as they are spared, nobody writes there and failures stay.
LEMMA LettersSpared ==
  ASSUME LettersInv, Spares(LettersKinds), letters' = letters, Overlaps(LettersKinds) \/ FailuresStay
  PROVE  LettersInv'
<1>1. LettersFile'
  BY DEF LettersInv, LettersFile
<1>2. ASSUME NEW h \in Handler PROVE InvestigateKnows(call[h])'
  <2> SUFFICES ASSUME call'[h].kind = "investigate" PROVE InvestigateKnows(call[h])'
    BY DEF InvestigateKnows
  <2>1. Same(call'[h], call[h]) /\ (call'[h].solo => call[h].solo)
    BY DEF Spares, LettersKinds
  <2> QED BY <2>1 DEF LettersInv, LettersKnow, InvestigateKnows, Same
<1>3. ASSUME NEW h \in Handler PROVE RetryKnows(call[h])'
  <2> SUFFICES ASSUME call'[h].kind = "retry" PROVE RetryKnows(call[h])'
    BY DEF RetryKnows
  <2>1. Same(call'[h], call[h]) /\ (call'[h].solo => call[h].solo /\ FailuresStay)
    BY DEF Spares, Overlaps, LettersKinds
  <2>2. RetryKnows(call[h])
    BY DEF LettersInv, LettersKnow
  <2> DEFINE c == call[h]
  <2>3. ASSUME Items(Job, c.todo), Due(c.todo, c.hold, Head(c.rest) = "reset", job, failed), FailuresStay
        PROVE  Due(c.todo, c.hold, Head(c.rest) = "reset", job', failed')
    <3>1. /\ \A j \in Job : job[j] \in Failing => job'[j] \in Failing
          /\ \A j \in Job : failed[j] >= 2 => failed'[j] >= 2
      BY <2>3 DEF FailuresStay
    <3> QED BY <2>3, <3>1, DueStays
  <2> QED BY <2>1, <2>2, <2>3 DEF RetryKnows, Same
<1> QED BY <1>1, <1>2, <1>3 DEF LettersInv, LettersKnow

LEMMA LettersOvertaken ==
  ASSUME LettersInv, NEW h \in Handler, Besides(h), LettersKnow(call[h])', NEW g \in Handler
  PROVE  LettersKnow(call[g])'
<1> SUFFICES ASSUME g # h PROVE LettersKnow(call[g])'
  OBVIOUS
<1>1. Same(call'[g], call[g]) /\ (call'[g].kind # "none" => ~call'[g].solo)
  BY DEF Besides
<1>2. InvestigateKnows(call[g])'
  BY <1>1 DEF LettersInv, LettersKnow, InvestigateKnows, Same
<1>3. RetryKnows(call[g])'
  BY <1>1 DEF LettersInv, LettersKnow, RetryKnows, Same
<1> QED BY <1>2, <1>3 DEF LettersKnow

\* Which steps have to do with dead letters.
LEMMA LetterKinds ==
  ASSUME Orderly, NEW h \in Handler
  PROVE  /\ At(h, "open") \/ At(h, "tearLetters") \/ At(h, "note") => call[h].kind = "investigate"
         /\ At(h, "list") \/ At(h, "reset") \/ At(h, "requeue") => call[h].kind = "retry"
<1>1. \A k : /\ "open" \in StepsOf(k) \/ "tearLetters" \in StepsOf(k) \/ "note" \in StepsOf(k) => k = "investigate"
             /\ "list" \in StepsOf(k) \/ "reset" \in StepsOf(k) \/ "requeue" \in StepsOf(k) => k = "retry"
  BY DEF StepsOf, Linking, Packing, Staging
<1>2. \A s : At(h, s) => s \in StepsOf(call[h].kind)
  BY TailChained DEF At, Orderly, Programmed
<1> QED BY <1>1, <1>2

Investigates(h) == BeginInvestigate(h) \/ OpenLetters(h) \/ TearLetters(h) \/ Note(h)

\* A step of an investigation keeps the file of investigations and what such requests know.
LEMMA InvestigateStep ==
  ASSUME Orderly, LettersInv, JobInv, NEW h \in Handler, Investigates(h)
  PROVE  Turn(h, LettersKinds) /\ LettersInv' /\ JobInv'
<1> DEFINE Kept == Turn(h, LettersKinds) /\ LettersInv' /\ JobInv'
<1>c. /\ DOMAIN call[h] = Fields /\ call[h].solo \in BOOLEAN /\ InvestigateKnows(call[h]) /\ LettersFile
  BY DEF Orderly, Programmed, LettersInv, LettersKnow
<1>i. ASSUME Turn(h, LettersKinds), InvestigateKnows(call[h])', call'[h].kind # "retry", LettersFile', UNCHANGED jobs PROVE Kept
  <2>1. RetryKnows(call[h])'
    BY <1>i DEF RetryKnows
  <2>2. JobInv'
    BY <1>i DEF JobInv, jobs
  <2>3. \A g \in Handler : LettersKnow(call[g])'
    BY <1>i, <2>1, LettersOvertaken DEF LettersKnow, Turn, Goal
  <2> QED BY <1>i, <2>2, <2>3 DEF LettersInv
<1>z. ASSUME call'[h] = Idle PROVE InvestigateKnows(call[h])' /\ call'[h].kind # "retry"
  BY <1>z, IdleProgrammed DEF InvestigateKnows
<1>1. ASSUME BeginInvestigate(h) PROVE Kept
  <2>0. LettersFile' /\ UNCHANGED jobs
    <3>1. UNCHANGED <<letters, jobs>>
      BY <1>1 DEF BeginInvestigate, sfiles
    <3> QED BY <3>1, <1>c DEF LettersFile
  <2>1. ASSUME NEW c, NEW j, NEW a, NEW k, NEW s,
               j \in Letters, a \in {None, TRUE}, k \in BOOLEAN, s \in {None, "resolved"},
               Begins(h, c), DOMAIN c = Fields, c.kind = "investigate", c.todo = <<j>>,
               c.ask = [assigned |-> a, acknowledged |-> k, status |-> s], c.rest = <<"open", "tearLetters", "note">>
        PROVE  Kept
    <3>1. {"open", "tearLetters", "note"} \subseteq StepsOf("investigate")
          /\ Follows("open", "tearLetters") /\ Follows("tearLetters", "note")
      BY DEF StepsOf, Follows
    <3>2. Ordered(StepsOf("investigate"), c.rest) /\ c.rest # <<>> /\ c.rest[1] = "open" /\ c.rest[Len(c.rest)] = "note"
      BY <2>1, <3>1, Three
    <3>3. Chained(StepsOf(c.kind), c.rest) /\ c.rest # <<>> /\ c.kind \in LettersKinds \ {"none"} /\ Head(c.rest) = "open"
      BY <2>1, <3>2 DEF Chained, Ends, LettersKinds
    <3>4. Items(Letter, c.todo)
      <4>1. j \in Letter
        BY <2>1 DEF Letters
      <4> QED BY <2>1, <4>1 DEF Items
    <3>5. Turn(h, LettersKinds) /\ call'[h] = [c EXCEPT !.solo = call'[h].solo]
      BY <2>1, <3>3, TurnBegins
    <3>6. call'[h].kind = c.kind /\ call'[h].rest = c.rest /\ call'[h].ask = c.ask /\ call'[h].todo = c.todo
      BY <2>1, <3>5 DEF Fields
    <3>7. InvestigateKnows(call[h])' /\ call'[h].kind # "retry"
      <4>1. c.ask.assigned \in {None, TRUE} /\ c.ask.acknowledged \in BOOLEAN /\ c.ask.status \in {None, "resolved"}
        <5>1. c.ask = [assigned |-> a, acknowledged |-> k, status |-> s] => c.ask.assigned = a
          OBVIOUS
        <5>2. c.ask = [assigned |-> a, acknowledged |-> k, status |-> s] => c.ask.acknowledged = k
          OBVIOUS
        <5>3. c.ask = [assigned |-> a, acknowledged |-> k, status |-> s] => c.ask.status = s
          OBVIOUS
        <5> QED BY <2>1, <5>1, <5>2, <5>3, Zenon
      <4>2. call'[h].kind = "investigate" /\ Head(call'[h].rest) = "open"
        BY <2>1, <3>3, <3>6
      <4> QED BY <3>4, <3>6, <4>1, <4>2 DEF InvestigateKnows
    <3> QED BY <1>i, <2>0, <3>5, <3>7
  <2> HIDE DEF Kept
  <2> QED BY <1>1, <2>1 DEF BeginInvestigate, Idle, Fields
<1>2. ASSUME OpenLetters(h) PROVE Kept
  <2>1. At(h, "open") /\ UNCHANGED jobs /\ letters' = letters /\ call[h].kind = "investigate"
    BY <1>2, LetterKinds DEF OpenLetters, sfiles
  <2> DEFINE c == [call[h] EXCEPT !.hold = Read(letters, Unopened), !.blind = letters.torn]
  <2>2. Goes(h, c)
    BY <1>2 DEF OpenLetters
  <2>3. /\ DOMAIN c = Fields /\ c.kind = call[h].kind /\ c.rest = call[h].rest /\ c.solo = call[h].solo
        /\ c.ask = call[h].ask /\ c.todo = call[h].todo /\ c.blind = letters.torn
        /\ c.hold = Read(letters, Unopened)
    BY <1>c DEF Fields
  <2> HIDE DEF c
  <2>4. Open \in Investigation
    BY DEF Open, Investigation
  <2>5. c.hold \in [Letter -> Investigation] /\ (~c.blind => c.hold = letters.text)
    BY <1>c, <2>3, <2>4 DEF Read, LettersFile, IsFile, Unopened
  <2>6. /\ Turn(h, LettersKinds)
        /\ \/ call'[h] = Idle
           \/ call'[h] = [c EXCEPT !.rest = Tail(c.rest)]
    BY <2>1, <2>2, <2>3, TurnGoes DEF LettersKinds
  <2>7. CASE call'[h] = [c EXCEPT !.rest = Tail(c.rest)]
    <3>1. /\ call'[h].kind = c.kind /\ call'[h].solo = c.solo /\ call'[h].ask = c.ask /\ call'[h].todo = c.todo
          /\ call'[h].hold = c.hold /\ call'[h].blind = c.blind
      BY <2>3, <2>7 DEF Fields
    <3>2. InvestigateKnows(call[h])' /\ call'[h].kind # "retry"
      BY <1>c, <2>1, <2>3, <2>5, <3>1 DEF InvestigateKnows
    <3> QED BY <1>i, <1>c, <2>1, <2>6, <3>2 DEF LettersFile
  <2> QED BY <1>i, <1>c, <1>z, <2>1, <2>6, <2>7 DEF LettersFile
<1>3. ASSUME TearLetters(h) PROVE Kept
  <2>1. At(h, "tearLetters") /\ UNCHANGED jobs /\ letters' = Torn(letters) /\ call[h].kind = "investigate" /\ Goes(h, call[h])
    BY <1>3, LetterKinds DEF TearLetters
  <2>2. LettersFile' /\ letters'.text = letters.text
    BY <1>c, <2>1 DEF LettersFile, IsFile, Torn
  <2>3. /\ Turn(h, LettersKinds)
        /\ \/ call'[h] = Idle
           \/ call'[h] = [call[h] EXCEPT !.rest = Tail(call[h].rest)]
    BY <1>c, <2>1, TurnGoes DEF LettersKinds
  <2>4. CASE call'[h] = [call[h] EXCEPT !.rest = Tail(call[h].rest)]
    <3>1. /\ call'[h].kind = call[h].kind /\ call'[h].solo = call[h].solo /\ call'[h].ask = call[h].ask /\ call'[h].todo = call[h].todo
          /\ call'[h].hold = call[h].hold /\ call'[h].blind = call[h].blind
      BY <1>c, <2>4 DEF Fields
    <3>2. InvestigateKnows(call[h])' /\ call'[h].kind # "retry"
      BY <1>c, <2>1, <2>2, <3>1 DEF InvestigateKnows, At
    <3> QED BY <1>i, <2>1, <2>2, <2>3, <3>2
  <2> QED BY <1>i, <1>z, <2>1, <2>2, <2>3, <2>4
<1>4. ASSUME Note(h) PROVE Kept
  <2>1. At(h, "note") /\ UNCHANGED jobs /\ call[h].kind = "investigate" /\ Goes(h, call[h])
        /\ letters' = File([call[h].hold EXCEPT ![Head(call[h].todo)] = Investigated(@, call[h].ask)])
    BY <1>4, LetterKinds DEF Note
  <2>2. call[h].hold \in [Letter -> Investigation]
    BY <1>c, <2>1 DEF InvestigateKnows, At
  <2>3. \A old \in Investigation : Investigated(old, call[h].ask) \in Investigation
    <3> SUFFICES ASSUME NEW old \in Investigation
                 PROVE  Investigated(old, call[h].ask) \in Investigation
      OBVIOUS
    <3>1. call[h].ask.assigned \in {None, TRUE} /\ call[h].ask.acknowledged \in BOOLEAN /\ call[h].ask.status \in {None, "resolved"}
      BY <1>c, <2>1 DEF InvestigateKnows
    <3> QED BY <3>1 DEF Investigated, Investigation
  <2>4. [call[h].hold EXCEPT ![Head(call[h].todo)] = Investigated(@, call[h].ask)] \in [Letter -> Investigation]
    <3>1. Head(call[h].todo) \in Letter
      BY <1>c, <2>1, ItemsTail DEF InvestigateKnows
    <3> DEFINE new == Investigated(call[h].hold[Head(call[h].todo)], call[h].ask)
    <3>2. new \in Investigation
      BY <2>2, <2>3, <3>1
    <3> HIDE DEF new
    <3>3. [call[h].hold EXCEPT ![Head(call[h].todo)] = new] \in [Letter -> Investigation]
      BY <2>2, <3>2
    <3> QED BY <3>3 DEF new
  <2>5. LettersFile'
    BY <2>1, <2>4 DEF LettersFile, IsFile, File
  <2>6. \A t : ~Follows("note", t)
    BY DEF Follows
  <2>7. Turn(h, LettersKinds) /\ call'[h] = Idle
    BY <1>c, <2>1, <2>6, TurnGoes DEF LettersKinds
  <2> QED BY <1>i, <1>z, <2>1, <2>5, <2>7
<1> QED BY <1>1, <1>2, <1>3, <1>4 DEF Investigates

Retries(h) == BeginRetry(h) \/ ListLetters(h) \/ Reset(h) \/ RequeueLetter(h)

\* There are only so many dead letters.
LEMMA LettersFinite == ASSUME JobInv PROVE IsFiniteSet(DeadLetters) /\ DeadLetters \subseteq Letter
<1>1. IsFiniteSet(1..MaxLetters) /\ IsFiniteSet(Job)
  BY FS_Interval, SessionAssumption
<1>2. IsFiniteSet(Letter)
  BY <1>1, FS_Product DEF Letter
<1>3. DeadLetters \subseteq Letter
  BY DEF DeadLetters, Letters
<1> QED BY <1>2, <1>3, FS_Subset

\* The jobs of an order of dead letters are due: two letters of one job are two failures.
LEMMA OrdersDue ==
  ASSUME JobInv, NEW o \in Orders(DeadLetters), NEW s, s = [i \in DOMAIN o |-> o[i][1]]
  PROVE  s \in Seq(Job) /\ Due(s, {}, TRUE, job, failed)
<1> DEFINE n == Cardinality(DeadLetters)
<1>1. n \in Nat /\ DeadLetters \subseteq Letter
  BY LettersFinite, FS_CardinalityType
<1>2. o \in [1..n -> DeadLetters] /\ IsInjective(o)
  BY DEF Orders
<1> HIDE DEF n
<1>3. DOMAIN o = 1..n
  BY <1>2
<1>4. \A i \in 1..n : /\ s[i] = o[i][1] /\ s[i] \in Job /\ job[s[i]] \in Failing
                      /\ o[i] = <<o[i][1], o[i][2]>> /\ o[i][2] \in 1..MaxLetters /\ o[i][2] <= failed[s[i]]
  <2> SUFFICES ASSUME NEW i \in 1..n
               PROVE  /\ s[i] = o[i][1] /\ s[i] \in Job /\ job[s[i]] \in Failing
                      /\ o[i] = <<o[i][1], o[i][2]>> /\ o[i][2] \in 1..MaxLetters /\ o[i][2] <= failed[s[i]]
    OBVIOUS
  <2>1. o[i] \in DeadLetters /\ s[i] = o[i][1]
    BY <1>2, <1>3
  <2>2. o[i] \in Job \X (1..MaxLetters) /\ job[o[i][1]] \in Failing /\ o[i][2] <= failed[o[i][1]]
    BY <2>1 DEF DeadLetters, Letters, Letter
  <2> QED BY <2>1, <2>2
<1>5. s \in [1..n -> Job]
  BY <1>3, <1>4
<1>6. s \in Seq(Job) /\ Len(s) = n
  BY <1>1, <1>5, ItemsOfOrder
<1>7. ASSUME NEW i \in 1..n, NEW k \in 1..n, i # k, s[i] = s[k] PROVE failed[s[i]] >= 2
  <2>1. o[i] # o[k]
    BY <1>2, <1>3, <1>7 DEF IsInjective
  <2>2. o[i][2] # o[k][2]
    BY <1>4, <1>7, <2>1
  <2>3. /\ o[i][2] \in 1..MaxLetters /\ o[k][2] \in 1..MaxLetters /\ s[i] \in Job
        /\ o[i][2] <= failed[s[i]] /\ o[k][2] <= failed[s[i]]
    BY <1>4, <1>7
  <2>4. failed[s[i]] \in 0..MaxLetters /\ MaxLetters \in Nat
    BY <2>3, SessionAssumption DEF JobInv
  <2> QED BY <2>2, <2>3, <2>4
<1> QED BY <1>4, <1>6, <1>7 DEF Due

\* A step of a retry keeps what retries know: an undisturbed one lists failures only.
LEMMA RetryStep ==
  ASSUME Orderly, LettersInv, JobInv, NEW h \in Handler, Retries(h)
  PROVE  Turn(h, LettersKinds) /\ LettersInv' /\ JobInv'
<1> DEFINE Kept == Turn(h, LettersKinds) /\ LettersInv' /\ JobInv'
<1>c. /\ DOMAIN call[h] = Fields /\ call[h].solo \in BOOLEAN /\ RetryKnows(call[h]) /\ LettersFile
  BY DEF Orderly, Programmed, LettersInv, LettersKnow
<1>l. letters' = letters
  <2>1. CASE BeginRetry(h)
    BY <2>1, Zenon DEF BeginRetry, sfiles
  <2>2. CASE ListLetters(h)
    BY <2>2, Zenon DEF ListLetters, sfiles
  <2>3. CASE Reset(h)
    BY <2>3, Zenon DEF Reset
  <2>4. CASE RequeueLetter(h)
    BY <2>4, Zenon DEF RequeueLetter
  <2> QED BY <2>1, <2>2, <2>3, <2>4 DEF Retries
<1>i. ASSUME Turn(h, LettersKinds), RetryKnows(call[h])', call'[h].kind # "investigate", JobInv' PROVE Kept
  <2>1. InvestigateKnows(call[h])'
    BY <1>i DEF InvestigateKnows
  <2>2. LettersFile'
    BY <1>c, <1>l DEF LettersFile
  <2>3. \A g \in Handler : LettersKnow(call[g])'
    BY <1>i, <2>1, LettersOvertaken DEF LettersKnow, Turn, Goal
  <2> QED BY <1>i, <2>2, <2>3 DEF LettersInv
<1>z. ASSUME call'[h] = Idle PROVE RetryKnows(call[h])' /\ call'[h].kind # "investigate"
  BY <1>z, IdleProgrammed DEF RetryKnows
<1>1. ASSUME BeginRetry(h) PROVE Kept
  <2>0. JobInv'
    <3>1. UNCHANGED jobs
      BY <1>1 DEF BeginRetry, sfiles
    <3> QED BY <3>1 DEF JobInv, jobs
  <2>1. ASSUME NEW c, NEW items, items \in {None} \cup {<<j>> : j \in Job},
               Begins(h, c), DOMAIN c = Fields, c.kind = "retry", c.rest = <<"list">>, c.ask = items, c.hold = {}
        PROVE  Kept
    <3>1. "list" \in StepsOf("retry")
      BY DEF StepsOf
    <3>2. Ordered(StepsOf("retry"), c.rest) /\ c.rest # <<>> /\ c.rest[1] = "list" /\ c.rest[Len(c.rest)] = "list"
      BY <2>1, <3>1, One
    <3>3. Chained(StepsOf(c.kind), c.rest) /\ c.rest # <<>> /\ c.kind \in LettersKinds \ {"none"} /\ Head(c.rest) = "list"
      BY <2>1, <3>2 DEF Chained, Ends, LettersKinds
    <3>4. c.ask # None => Items(Job, c.ask)
      <4>1. c.ask # None => \E j \in Job : c.ask = <<j>>
        BY <2>1, Zenon
      <4>2. \A j \in Job : Items(Job, <<j>>)
        BY DEF Items
      <4> QED BY <4>1, <4>2, Zenon
    <3>5. Turn(h, LettersKinds) /\ call'[h] = [c EXCEPT !.solo = call'[h].solo]
      BY <2>1, <3>3, TurnBegins
    <3>6. call'[h].kind = c.kind /\ call'[h].rest = c.rest /\ call'[h].ask = c.ask /\ call'[h].hold = c.hold
      BY <2>1, <3>5 DEF Fields
    <3>7. RetryKnows(call[h])' /\ call'[h].kind # "investigate"
      BY <2>1, <3>3, <3>4, <3>6 DEF RetryKnows
    <3> QED BY <1>i, <2>0, <3>5, <3>7
  <2> HIDE DEF Kept
  <2> QED BY <1>1, <2>1 DEF BeginRetry, Idle, Fields
<1>2. ASSUME ListLetters(h) PROVE Kept
  <2>0. At(h, "list") /\ call[h].kind = "retry"
    BY <1>2, LetterKinds DEF ListLetters
  <2>1. JobInv'
    <3>1. UNCHANGED jobs
      BY <1>2 DEF ListLetters, sfiles
    <3> QED BY <3>1 DEF JobInv, jobs
  <2>j. job' = job /\ failed' = failed
    BY <1>2 DEF ListLetters, sfiles, jobs
  <2>2. PICK items \in (IF call[h].ask # None THEN {call[h].ask}
                     ELSE {[i \in DOMAIN o |-> o[i][1]] : o \in Orders(DeadLetters)}) :
          IF items = <<>> THEN Fails(h) ELSE Stays(h, [call[h] EXCEPT !.rest = <<"reset">>, !.todo = items])
    BY <1>2, Zenon DEF ListLetters
  <2>3. CASE items = <<>>
    <3>1. Turn(h, LettersKinds) /\ call'[h] = Idle
      BY <2>0, <2>2, <2>3, TurnFails DEF LettersKinds
    <3> QED BY <1>i, <1>z, <2>1, <3>1
  <2>4. CASE items # <<>>
    <3> DEFINE c == [call[h] EXCEPT !.rest = <<"reset">>, !.todo = items]
    <3>1. Stays(h, c)
      BY <2>2, <2>4
    <3>2. /\ DOMAIN c = Fields /\ c.kind = call[h].kind /\ c.solo = call[h].solo /\ c.rest = <<"reset">>
          /\ c.todo = items /\ c.ask = call[h].ask /\ c.hold = call[h].hold /\ call[h].hold = {}
      BY <1>c, <2>0 DEF Fields, RetryKnows, At
    <3> HIDE DEF c
    <3>3. Chained(StepsOf("retry"), c.rest) /\ c.rest # <<>> /\ Head(c.rest) = "reset"
      <4>1. "reset" \in StepsOf("retry")
        BY DEF StepsOf
      <4>2. Ordered(StepsOf("retry"), c.rest) /\ c.rest # <<>> /\ c.rest[1] = "reset" /\ c.rest[Len(c.rest)] = "reset"
        BY <3>2, <4>1, One
      <4> QED BY <3>2, <4>2 DEF Chained, Ends
    <3>4. Turn(h, LettersKinds) /\ call'[h] = c
      BY <2>0, <3>1, <3>2, <3>3, TurnStays DEF LettersKinds
    <3>5. CASE call[h].ask # None
      <4>1. Items(Job, items)
        BY <1>c, <2>0, <2>2, <3>5 DEF RetryKnows
      <4>2. RetryKnows(call[h])' /\ call'[h].kind # "investigate"
        BY <1>c, <2>0, <3>2, <3>4, <3>5, <4>1 DEF RetryKnows
      <4> QED BY <1>i, <2>1, <3>4, <4>2
    <3>6. CASE call[h].ask = None
      <4>1. PICK o \in Orders(DeadLetters) : items = [i \in DOMAIN o |-> o[i][1]]
        BY <2>2, <3>6
      <4>2. items \in Seq(Job) /\ Due(items, {}, TRUE, job, failed)
        BY <4>1, OrdersDue
      <4>3. Items(Job, items)
        BY <2>4, <4>2 DEF Items
      <4>6. RetryKnows(call[h])' /\ call'[h].kind # "investigate"
        BY <2>0, <2>j, <3>2, <3>3, <3>4, <3>6, <4>2, <4>3 DEF RetryKnows
      <4> QED BY <1>i, <2>1, <3>4, <4>6
    <3> QED BY <3>5, <3>6
  <2> QED BY <2>3, <2>4
\* To the next item, while those left keep failing.
<1>n. ASSUME NEW s \in {"reset", "requeue"}, At(h, s), call[h].kind = "retry", NextItem(h), JobInv', failed' = failed,
             \A i \in 1..Len(call[h].todo) : call[h].todo[i] # Head(call[h].todo) => job'[call[h].todo[i]] = job[call[h].todo[i]]
      PROVE  Kept
  <2>1. CASE Len(call[h].todo) = 1
    <3>1. Turn(h, LettersKinds) /\ call'[h] = Idle
      BY <1>n, <2>1, TurnFails DEF NextItem, LettersKinds
    <3> QED BY <1>i, <1>n, <1>z, <3>1
  <2>2. CASE Len(call[h].todo) # 1
    <3> DEFINE c == [call[h] EXCEPT !.rest = <<"reset">>, !.todo = Tail(@), !.hold = @ \cup {Head(call[h].todo)}]
               t == call[h].todo
    <3>1. Stays(h, c)
      BY <1>n, <2>2 DEF NextItem
    <3>2. /\ DOMAIN c = Fields /\ c.kind = call[h].kind /\ c.solo = call[h].solo /\ c.rest = <<"reset">>
          /\ c.todo = Tail(t) /\ c.ask = call[h].ask /\ c.hold = call[h].hold \cup {Head(t)}
      BY <1>c DEF Fields
    <3> HIDE DEF c
    <3>3. Chained(StepsOf("retry"), c.rest) /\ c.rest # <<>> /\ Head(c.rest) = "reset"
      <4>1. "reset" \in StepsOf("retry")
        BY DEF StepsOf
      <4>2. Ordered(StepsOf("retry"), c.rest) /\ c.rest # <<>> /\ c.rest[1] = "reset" /\ c.rest[Len(c.rest)] = "reset"
        BY <3>2, <4>1, One
      <4> QED BY <3>2, <4>2 DEF Chained, Ends
    <3>4. Turn(h, LettersKinds) /\ call'[h] = c
      BY <1>n, <3>1, <3>2, <3>3, TurnStays DEF LettersKinds
    <3>5. /\ Items(Job, t) /\ (call[h].ask # None => Items(Job, call[h].ask))
          /\ call[h].ask = None /\ call[h].solo => Due(t, call[h].hold, s = "reset", job, failed)
      BY <1>c, <1>n DEF RetryKnows, At
    <3>6. Items(Job, Tail(t))
      BY <2>2, <3>5, ItemsTail
    <3>7. ASSUME call[h].ask = None, call[h].solo
          PROVE  Due(Tail(t), call[h].hold \cup {Head(t)}, TRUE, job', failed')
      <4>2. Due(t, call[h].hold, TRUE, job, failed) \/ Due(t, call[h].hold, FALSE, job, failed)
        <5>1. CASE s = "reset"
          BY <3>5, <3>7, <5>1
        <5>2. CASE s = "requeue"
          BY <3>5, <3>7, <5>2
        <5> QED BY <5>1, <5>2
      <4>4. Items(Job, t) /\ Len(t) # 1
        BY <2>2, <3>5
      <4>3. \A i \in 1..Len(t) : t[i] # Head(t) => job'[t[i]] = job[t[i]]
        BY <1>n
      <4> HIDE DEF t
      <4>1. Due(t, call[h].hold, FALSE, job', failed)
        <5>1. CASE Due(t, call[h].hold, TRUE, job, failed)
          BY <4>3, <4>4, <5>1, DueWithoutFirst
        <5>2. CASE Due(t, call[h].hold, FALSE, job, failed)
          BY <4>3, <4>4, <5>2, DueWithoutFirst
        <5> QED BY <4>2, <5>1, <5>2
      <4>5. Due(Tail(t), call[h].hold \cup {Head(t)}, TRUE, job', failed)
        BY <4>1, <4>4, DueOnwards
      <4> QED BY <1>n, <4>5
    <3>8. RetryKnows(call[h])' /\ call'[h].kind # "investigate"
      BY <1>n, <3>2, <3>3, <3>4, <3>5, <3>6, <3>7 DEF RetryKnows
    <3> QED BY <1>i, <1>n, <3>4, <3>8
  <2> QED BY <2>1, <2>2
<1>3. ASSUME Reset(h) PROVE Kept
  <2>0. At(h, "reset") /\ call[h].kind = "retry"
    BY <1>3, LetterKinds DEF Reset
  <2> DEFINE j == Head(call[h].todo)
  <2>1. Items(Job, call[h].todo) /\ j \in Job
    BY <1>c, <2>0, ItemsTail DEF RetryKnows, At
  <2>2. CASE job[j] \in Active \cup {"absent"}
    <3>1. NextItem(h) /\ UNCHANGED jobs
      BY <1>3, <2>2 DEF Reset
    <3>2. JobInv' /\ job' = job /\ failed' = failed
      BY <3>1 DEF JobInv, jobs
    <3> QED BY <1>n, <2>0, <3>1, <3>2
  <2>3. CASE job[j] \notin Active \cup {"absent"}
    <3> DEFINE c == [call[h] EXCEPT !.rest = <<"requeue">>]
    <3>1. Stays(h, c) /\ job' = [job EXCEPT ![j] = "planned"] /\ latest' = j /\ UNCHANGED failed
      BY <1>3, <2>3 DEF Reset
    <3>2. /\ DOMAIN c = Fields /\ c.kind = call[h].kind /\ c.solo = call[h].solo /\ c.rest = <<"requeue">>
          /\ c.todo = call[h].todo /\ c.ask = call[h].ask /\ c.hold = call[h].hold
      BY <1>c DEF Fields
    <3> HIDE DEF c
    <3>3. Chained(StepsOf("retry"), c.rest) /\ c.rest # <<>> /\ Head(c.rest) = "requeue"
      <4>1. "requeue" \in StepsOf("retry")
        BY DEF StepsOf
      <4>2. Ordered(StepsOf("retry"), c.rest) /\ c.rest # <<>> /\ c.rest[1] = "requeue" /\ c.rest[Len(c.rest)] = "requeue"
        BY <3>2, <4>1, One
      <4> QED BY <3>2, <4>2 DEF Chained, Ends
    <3>4. Turn(h, LettersKinds) /\ call'[h] = c
      BY <2>0, <3>1, <3>2, <3>3, TurnStays DEF LettersKinds
    <3>5. JobInv'
      BY <2>1, <3>1 DEF JobInv, Status
    <3>6. /\ call[h].ask # None => Items(Job, call[h].ask)
          /\ call[h].ask = None /\ call[h].solo => Due(call[h].todo, call[h].hold, TRUE, job, failed)
      BY <1>c, <2>0 DEF RetryKnows, At
    <3>7. \A i \in 1..Len(call[h].todo) : call[h].todo[i] # j => job'[call[h].todo[i]] = job[call[h].todo[i]]
      BY <3>1
    <3>9. ASSUME call[h].ask = None, call[h].solo PROVE Due(call[h].todo, call[h].hold, FALSE, job', failed')
      BY <2>1, <3>1, <3>6, <3>7, <3>9, DueWithoutFirst
    <3>10. RetryKnows(call[h])' /\ call'[h].kind # "investigate"
      BY <2>0, <2>1, <3>2, <3>3, <3>4, <3>6, <3>9 DEF RetryKnows
    <3> QED BY <1>i, <3>4, <3>5, <3>10
  <2> QED BY <2>2, <2>3
<1>4. ASSUME RequeueLetter(h) PROVE Kept
  <2>0. At(h, "requeue") /\ call[h].kind = "retry" /\ NextItem(h)
    BY <1>4, LetterKinds DEF RequeueLetter
  <2> DEFINE j == Head(call[h].todo)
  <2>1. j \in Job
    BY <1>c, <2>0, ItemsTail DEF RetryKnows, At
  <2>2. PICK status \in {"queued", "blocked"} : job' = [job EXCEPT ![j] = status]
    BY <1>4 DEF RequeueLetter
  <2>3. latest' = j /\ failed' = failed
    BY <1>4 DEF RequeueLetter
  <2>4. JobInv'
    BY <2>1, <2>2, <2>3 DEF JobInv, Status, Active, Failing
  <2>5. \A i \in 1..Len(call[h].todo) : call[h].todo[i] # j => job'[call[h].todo[i]] = job[call[h].todo[i]]
    BY <2>2
  <2> QED BY <1>n, <2>0, <2>3, <2>4, <2>5
<1> QED BY <1>1, <1>2, <1>3, <1>4 DEF Retries

\* A lone request to retry what is dead resets what is failing, or what it has met before.
LEMMA ResetTakesFailures ==
  ASSUME Orderly, LettersInv, NEW h \in Handler, call[h].solo, Reset(h), call[h].ask = None
  PROVE  LET j == Head(call[h].todo)
         IN  job[j] \in Failing \/ (j \in call[h].hold /\ failed[j] >= 2)
<1>1. At(h, "reset") /\ call[h].kind = "retry"
  BY LetterKinds DEF Reset
<1>2. Items(Job, call[h].todo) /\ Due(call[h].todo, call[h].hold, TRUE, job, failed)
  BY <1>1 DEF LettersInv, LettersKnow, RetryKnows, At
<1>3. 1 \in 1..Len(call[h].todo) /\ Head(call[h].todo) = call[h].todo[1]
  <2> DEFINE todo == call[h].todo
  <2>1. Items(Job, todo)
    BY <1>2
  <2> HIDE DEF todo
  <2>2. Head(todo) = todo[1] /\ Len(todo) \in Nat \ {0}
    BY <2>1, ItemsTail
  <2> QED BY <2>2 DEF todo
<1> QED BY <1>2, <1>3 DEF Due

\* What a note that nothing overlapped leaves alone.
LEMMA NoteIsLocal ==
  ASSUME Orderly, LettersInv, NEW h \in Handler, call[h].solo, ~call[h].blind, Note(h)
  PROVE  \A l \in Letter \ {Head(call[h].todo)} : letters'.text[l] = letters.text[l]
<1>1. At(h, "note") /\ call[h].kind = "investigate"
      /\ letters' = File([call[h].hold EXCEPT ![Head(call[h].todo)] = Investigated(@, call[h].ask)])
  BY LetterKinds DEF Note
<1>2. call[h].hold \in [Letter -> Investigation] /\ call[h].hold = letters.text
  BY <1>1 DEF LettersInv, LettersKnow, InvestigateKnows, At
<1> QED BY <1>1, <1>2 DEF File

-----------------------------------------------------------------------------
\* Compare decisions: those that are filed and have no line yet.
Filed == {h \in Handler : call[h].kind = "decision" /\ Head(call[h].rest) = "line"}

CompareInv ==
  /\ DOMAIN decisions = {"files", "lines"} /\ decisions.files \in Nat /\ decisions.lines \in Nat
  /\ IsFiniteSet(Filed) /\ decisions.lines + Cardinality(Filed) <= decisions.files

\* Where fewer decisions wait for their line, no line is missing.
LEMMA FewerFiled ==
  ASSUME CompareInv, Filed' \subseteq Filed, decisions' = decisions
  PROVE  CompareInv'
<1>1. IsFiniteSet(Filed)' /\ Cardinality(Filed)' <= Cardinality(Filed)
      /\ Cardinality(Filed)' \in Nat /\ Cardinality(Filed) \in Nat
  BY FS_Subset, FS_CardinalityType DEF CompareInv
<1> QED BY <1>1 DEF CompareInv

LEMMA CompareSpared ==
  ASSUME CompareInv, Spares(CompareKinds), decisions' = decisions
  PROVE  CompareInv'
<1>1. \A h \in Handler : call'[h].kind = "decision" /\ Head(call'[h].rest) = "line"
                           => call[h].kind = "decision" /\ Head(call[h].rest) = "line"
  BY DEF Spares, CompareKinds, Same
<1>2. Filed' \subseteq Filed
  BY <1>1 DEF Filed
<1> QED BY <1>2, FewerFiled

\* A decision is filed before its line is written.
LEMMA CompareStep ==
  ASSUME Orderly, CompareInv, NEW h \in Handler, ServeCompare(h)
  PROVE  Turn(h, CompareKinds) /\ CompareInv'
<1> DEFINE Kept == Turn(h, CompareKinds) /\ CompareInv'
<1>c. DOMAIN call[h] = Fields /\ call[h].solo \in BOOLEAN
  BY DEF Orderly, Programmed
<1>k. \A s \in {"file", "line"} : At(h, s) => call[h].kind = "decision"
  <2>1. \A k : \A s \in {"file", "line"} : s \in StepsOf(k) => k = "decision"
    BY DEF StepsOf, Linking, Packing, Staging
  <2>2. \A s : At(h, s) => s \in StepsOf(call[h].kind)
    BY TailChained DEF At, Orderly, Programmed
  <2> QED BY <2>1, <2>2
<1>o. ASSUME Turn(h, CompareKinds) PROVE \A g \in Handler \ {h} : g \in Filed' <=> g \in Filed
  BY <1>o DEF Turn, Goal, Besides, Same, Filed
<1>1. ASSUME BeginDecision(h) PROVE Kept
  <2>0. decisions' = decisions
    BY <1>1 DEF BeginDecision, sfiles, cards
  <2>1. ASSUME NEW c, Begins(h, c), DOMAIN c = Fields, c.kind = "decision", c.rest = <<"file", "line">>
        PROVE  Kept
    <3>1. {"file", "line"} \subseteq StepsOf("decision") /\ Follows("file", "line")
      BY DEF StepsOf, Follows
    <3>2. Ordered(StepsOf("decision"), c.rest) /\ c.rest # <<>> /\ c.rest[1] = "file" /\ c.rest[Len(c.rest)] = "line"
      BY <2>1, <3>1, Two
    <3>3. Chained(StepsOf(c.kind), c.rest) /\ c.rest # <<>> /\ c.kind \in CompareKinds \ {"none"} /\ Head(c.rest) = "file"
      BY <2>1, <3>2 DEF Chained, Ends, CompareKinds
    <3>4. Turn(h, CompareKinds) /\ call'[h] = [c EXCEPT !.solo = call'[h].solo]
      BY <2>1, <3>3, TurnBegins
    <3>5. call'[h].rest = c.rest
      BY <2>1, <3>4 DEF Fields
    <3>6. h \notin Filed'
      BY <3>3, <3>5 DEF Filed
    <3>7. Filed' \subseteq Filed
      BY <1>o, <3>4, <3>6 DEF Filed
    <3> QED BY <2>0, <3>4, <3>7, FewerFiled
  <2> HIDE DEF Kept
  <2> QED BY <1>1, <2>1 DEF BeginDecision, Idle, Fields
<1>2. ASSUME FileDecision(h) PROVE Kept
  <2>1. At(h, "file") /\ call[h].kind = "decision" /\ Goes(h, call[h])
        /\ decisions' = [decisions EXCEPT !.files = @ + 1]
    BY <1>2, <1>k DEF FileDecision
  <2>2. Turn(h, CompareKinds)
    BY <1>c, <2>1, TurnGoes DEF CompareKinds
  <2>3. h \notin Filed
    BY <2>1 DEF Filed, At
  <2>4. Filed' \subseteq Filed \cup {h}
    BY <1>o, <2>2 DEF Filed
  <2>5. IsFiniteSet(Filed \cup {h}) /\ Cardinality(Filed \cup {h}) = Cardinality(Filed) + 1
    BY <2>3, FS_AddElement DEF CompareInv
  <2>6. /\ IsFiniteSet(Filed)' /\ Cardinality(Filed)' <= Cardinality(Filed) + 1
        /\ Cardinality(Filed)' \in Nat /\ Cardinality(Filed) \in Nat
    BY <2>4, <2>5, FS_Subset, FS_CardinalityType DEF CompareInv
  <2>7. decisions'.files = decisions.files + 1 /\ decisions'.lines = decisions.lines /\ DOMAIN decisions' = {"files", "lines"}
    BY <2>1 DEF CompareInv
  <2> QED BY <2>2, <2>6, <2>7 DEF CompareInv
<1>3. ASSUME AppendDecision(h) PROVE Kept
  <2>1. At(h, "line") /\ call[h].kind = "decision" /\ Goes(h, call[h])
        /\ decisions' = [decisions EXCEPT !.lines = @ + 1]
    BY <1>3, <1>k DEF AppendDecision
  <2>2. \A t : ~Follows("line", t)
    BY DEF Follows
  <2>3. Turn(h, CompareKinds) /\ call'[h] = Idle
    BY <1>c, <2>1, <2>2, TurnGoes DEF CompareKinds
  <2>4. h \in Filed
    BY <2>1 DEF Filed, At
  <2>5. Filed' \subseteq Filed \ {h}
    BY <1>o, <2>3, IdleProgrammed DEF Filed
  <2>6. IsFiniteSet(Filed \ {h}) /\ Cardinality(Filed \ {h}) = Cardinality(Filed) - 1
    BY <2>4, FS_RemoveElement DEF CompareInv
  <2>7. /\ IsFiniteSet(Filed)' /\ Cardinality(Filed)' <= Cardinality(Filed) - 1
        /\ Cardinality(Filed)' \in Nat /\ Cardinality(Filed) \in Nat
    BY <2>5, <2>6, FS_Subset, FS_CardinalityType DEF CompareInv
  <2>8. decisions'.lines = decisions.lines + 1 /\ decisions'.files = decisions.files /\ DOMAIN decisions' = {"files", "lines"}
    BY <2>1 DEF CompareInv
  <2> QED BY <2>3, <2>7, <2>8 DEF CompareInv
<1> QED BY <1>1, <1>2, <1>3 DEF ServeCompare

-----------------------------------------------------------------------------
\* Delivery: what is in the directories, and what a request knows of its own.
Files == SUBSET (Handler \X Item)

Packed(h, items) == {<<h, i>> : i \in items}

Zip == [closed : BOOLEAN, files : Files]

IsHold(hold) ==
  DOMAIN hold = {"items", "room", "zip"} /\ hold.items \subseteq Item /\ hold.room \in Room \cup {None}

\* At step s, which is its last or not; quiet: there was no crash.
Informed(h, c, s, last, rooms, built, quiet) ==
  LET archived == s \in {"packet", "pause"} \/ (s = "clear" /\ ~last)
      own      == c.kind # "package" /\ c.ask # None
  IN  /\ c.kind # "package" => (s = "find" => c.ask = None) /\ (s \in Packing => c.ask = "master_archive")
      /\ s \notin {"items", "find"} => IsHold(c.hold) /\ (own => {"staged", "working"} \subseteq c.hold.items)
      /\ s \in {"room", "copy", "manifest"} => c.hold.zip = 0
      /\ s \in {"copy", "manifest", "zip"} => c.hold.room \in Room
      /\ s = "zip" \/ archived => c.hold.zip \in 0..Len(built)
      /\ s = "pause" => c.hold.zip # 0
      /\ archived /\ own => c.hold.zip # 0 /\ built[c.hold.zip].closed
      /\ archived /\ c.kind # "package" /\ c.solo /\ quiet /\ c.hold.zip # 0 => built[c.hold.zip].closed
      /\ c.solo =>
           /\ s = "copy" => rooms[c.hold.room] = {}
           /\ s = "manifest" => rooms[c.hold.room] = Packed(h, c.hold.items)
           /\ s = "zip" => rooms[c.hold.room] = Packed(h, c.hold.items \cup {Manifest})
           /\ archived /\ own => built[c.hold.zip].files = Packed(h, c.hold.items \cup {Manifest})

DeliveryKnows(h) == call[h].kind \in DeliveryKinds =>
  Informed(h, call[h], Head(call[h].rest), Tail(call[h].rest) = <<>>, room, zips, changes = 0)

DeliveryFiles ==
  /\ raw \subseteq RawItem
  /\ DOMAIN room = Room /\ \A r \in Room : room[r] = None \/ room[r] \in Files
  /\ zips \in Seq(Zip) /\ newest \in 0..Len(zips) /\ changes \in Nat

\* A zip that is not closed is being filled, unless a crash came between.
Zipping(g, z) == call[g].kind \in DeliveryKinds /\ Head(call[g].rest) = "zip" /\ call[g].hold.zip = z

OpenHeld == \A z \in 1..Len(zips) : zips[z].closed \/ changes # 0 \/ \E g \in Handler : Zipping(g, z)

DeliveryInv == DeliveryFiles /\ OpenHeld /\ \A h \in Handler : DeliveryKnows(h)

\* There are only more zips, and what is closed stays closed.
Grown ==
  /\ Len(zips') \in Nat /\ Len(zips') >= Len(zips)
  /\ \A z \in 1..Len(zips) : zips[z].closed => zips'[z].closed

\* What a request knows of its package depends on no other directory.
LEMMA InformedBy ==
  ASSUME NEW h, NEW c, NEW d, NEW s, NEW last, NEW rooms, NEW built, NEW quiet, NEW still,
         Informed(h, c, s, last, rooms, built, quiet),
         d.kind = c.kind, d.ask = c.ask, d.hold = c.hold, d.solo => c.solo, still => quiet
  PROVE  Informed(h, d, s, last, rooms, built, still)
BY DEF Informed

\* What requests know of their packages they know as long as they are spared and nobody touches a directory.
LEMMA DeliverySpared ==
  ASSUME DeliveryInv, Spares(DeliveryKinds), UNCHANGED <<room, zips, newest>>, raw' \subseteq RawItem,
         changes' \in Nat \ {0} \/ (changes' = changes /\ Keeps(DeliveryKinds))
  PROVE  DeliveryInv'
<1>1. DeliveryFiles'
  BY DEF DeliveryInv, DeliveryFiles
<1>2. ASSUME NEW g \in Handler, call'[g].kind \in DeliveryKinds
      PROVE  Informed(g, call'[g], Head(call'[g].rest), Tail(call'[g].rest) = <<>>, room', zips', changes' = 0)
  <2>1. Same(call'[g], call[g]) /\ (call'[g].solo => call[g].solo)
    BY <1>2 DEF Spares
  <2>2. Informed(g, call[g], Head(call[g].rest), Tail(call[g].rest) = <<>>, room, zips, changes = 0)
    BY <1>2, <2>1 DEF DeliveryInv, DeliveryKnows, Same
  <2>3. changes' = 0 => changes = 0
    OBVIOUS
  <2>4. Informed(g, call'[g], Head(call[g].rest), Tail(call[g].rest) = <<>>, room, zips, changes' = 0)
    BY <2>1, <2>2, <2>3, InformedBy DEF Same
  <2> QED BY <2>1, <2>4 DEF Same
<1>3. OpenHeld'
  <2> SUFFICES ASSUME NEW z \in 1..Len(zips), ~zips[z].closed, changes' = 0 PROVE \E g \in Handler : Zipping(g, z)'
    BY DEF OpenHeld
  <2>1. PICK g \in Handler : Zipping(g, z)
    BY DEF DeliveryInv, OpenHeld
  <2>2. Same(call'[g], call[g])
    BY <2>1 DEF Keeps, Zipping
  <2> QED BY <2>1, <2>2 DEF Zipping, Same
<1> QED BY <1>1, <1>2, <1>3 DEF DeliveryInv, DeliveryKnows

\* What the others know stays true while packages are added.
LEMMA DeliveryOvertaken ==
  ASSUME DeliveryInv, NEW h \in Handler, Besides(h), DeliveryKnows(h)', NEW g \in Handler, Grown
  PROVE  DeliveryKnows(g)'
<1> SUFFICES ASSUME g # h, call'[g].kind \in DeliveryKinds
             PROVE  Informed(g, call'[g], Head(call'[g].rest), Tail(call'[g].rest) = <<>>, room', zips', changes' = 0)
  BY DEF DeliveryKnows
<1>1. Same(call'[g], call[g]) /\ ~call'[g].solo
  BY DEF Besides, DeliveryKinds
<1>2. Informed(g, call[g], Head(call[g].rest), Tail(call[g].rest) = <<>>, room, zips, changes = 0)
  BY <1>1 DEF DeliveryInv, DeliveryKnows, Same
<1>3. Len(zips) \in Nat
  BY DEF DeliveryInv, DeliveryFiles
<1>4. 0..Len(zips) \subseteq 0..Len(zips') /\ \A z \in 0..Len(zips) : z # 0 => z \in 1..Len(zips)
  BY <1>3 DEF Grown
<1>5. \A z \in 0..Len(zips) : z # 0 /\ zips[z].closed => zips'[z].closed
  BY <1>4 DEF Grown
<1> HIDE DEF Packing
<1> QED BY <1>1, <1>2, <1>4, <1>5 DEF Informed, Same

-----------------------------------------------------------------------------
\* What recoveries and pauses have to do.
RecoverySteps(kind, fresh) ==
  (IF fresh THEN PackSteps ELSE <<"find">>) \o <<"packet">> \o IF kind = "pause" THEN <<"pause">> ELSE <<>>

LEMMA AndNothing == \A S, s : s \in Seq(S) => s \o <<>> = s
OBVIOUS

\* The programs of package, recovery and pause.
LEMMA DeliveryPrograms ==
  /\ Chained(StepsOf("package"), PackSteps) /\ PackSteps # <<>> /\ Head(PackSteps) = "items"
  /\ Chained(StepsOf("package"), Tail(PackSteps)) /\ Tail(PackSteps) # <<>> /\ Head(Tail(PackSteps)) = "room"
  /\ \A kind \in {"recovery", "pause"}, fresh \in BOOLEAN :
       LET r == RecoverySteps(kind, fresh)
       IN  Chained(StepsOf(kind), r) /\ r # <<>> /\ Head(r) = IF fresh THEN "items" ELSE "find"
<1>1. Chained(StepsOf("package"), PackSteps) /\ PackSteps # <<>>
  BY Programs DEF Chained, Ends
<1>2. Head(PackSteps) = "items" /\ Tail(PackSteps) = <<"room", "copy", "manifest", "zip", "clear">>
  BY DEF PackSteps
<1>3. Tail(PackSteps) # <<>> /\ Head(Tail(PackSteps)) = "room"
  <2> DEFINE t == <<"room", "copy", "manifest", "zip", "clear">>
  <2>1. Len(t) = 5 /\ Head(t) = "room" /\ Len(<<>>) = 0
    OBVIOUS
  <2> HIDE DEF t
  <2>2. t # <<>>
    <3> SUFFICES ASSUME t = <<>> PROVE FALSE
      OBVIOUS
    <3> QED BY <2>1
  <2> QED BY <1>2, <2>1, <2>2 DEF t
<1>4. Chained(StepsOf("package"), Tail(PackSteps))
  BY <1>1, TailChained
<1>5. ASSUME NEW kind \in {"recovery", "pause"}, NEW fresh \in BOOLEAN
      PROVE  LET r == RecoverySteps(kind, fresh)
             IN  Chained(StepsOf(kind), r) /\ r # <<>> /\ Head(r) = IF fresh THEN "items" ELSE "find"
  <2> DEFINE S    == StepsOf(kind)
             one  == IF fresh THEN PackSteps ELSE <<"find">>
             two  == one \o <<"packet">>
             more == IF kind = "pause" THEN <<"pause">> ELSE <<>>
             r    == two \o more
             a    == IF fresh THEN "items" ELSE "find"
  <2>1. {"find", "packet"} \subseteq S /\ (kind = "pause" => "pause" \in S)
    <3>1. {"find", "packet"} \subseteq StepsOf("recovery") /\ {"find", "packet", "pause"} \subseteq StepsOf("pause")
      BY DEF StepsOf
    <3> QED BY <3>1
  <2>2. Follows("clear", "packet") /\ Follows("find", "packet") /\ Follows("packet", "pause")
    BY DEF Follows
  <2> HIDE DEF S
  <2>3. Ordered(S, <<"packet">>) /\ <<"packet">> # <<>> /\ <<"packet">>[1] = "packet" /\ <<"packet">>[Len(<<"packet">>)] = "packet"
    BY <2>1, One
  <2>4. Ordered(S, <<"find">>) /\ <<"find">> # <<>> /\ <<"find">>[1] = "find" /\ <<"find">>[Len(<<"find">>)] = "find"
    BY <2>1, One
  <2>5. Ordered(S, PackSteps) /\ PackSteps # <<>> /\ PackSteps[Len(PackSteps)] = "clear" /\ PackSteps[1] = "items"
    BY <1>2, Programs DEF S, PackSteps
  <2>6. Ordered(S, one) /\ one # <<>> /\ one[1] = a /\ one[Len(one)] \in {"clear", "find"}
    BY <2>4, <2>5
  <2> HIDE DEF one, a
  <2> DEFINE p == <<"packet">>
  <2>7. Ordered(S, p) /\ p # <<>> /\ p[1] = "packet" /\ p[Len(p)] = "packet"
    BY <2>3
  <2> HIDE DEF p
  <2>8. Ordered(S, one \o p) /\ one \o p # <<>> /\ (one \o p)[1] = one[1] /\ (one \o p)[Len(one \o p)] = p[Len(p)]
    BY <2>2, <2>6, <2>7, Joined
  <2> DEFINE q == <<"pause">>
  <2>9. ASSUME kind = "pause" PROVE Ordered(S, q) /\ q # <<>> /\ q[1] = "pause" /\ q[Len(q)] = "pause"
    BY <2>1, <2>9, One
  <2> HIDE DEF q
  <2> DEFINE w == one \o p
  <2>10. Ordered(S, w) /\ w # <<>> /\ w[1] = a /\ w[Len(w)] = "packet"
    BY <2>6, <2>7, <2>8
  <2> HIDE DEF w
  <2>11. \A u : Head(u) = u[1]
    OBVIOUS
  <2>12. CASE kind = "pause"
    <3>1. Ordered(S, w \o q) /\ w \o q # <<>> /\ (w \o q)[1] = w[1] /\ (w \o q)[Len(w \o q)] = q[Len(q)]
      BY <2>2, <2>9, <2>10, <2>12, Joined
    <3>2. Chained(S, w \o q) /\ w \o q # <<>> /\ Head(w \o q) = a
      BY <2>9, <2>10, <2>11, <2>12, <3>1 DEF Chained, Ends
    <3> QED BY <2>12, <3>2 DEF RecoverySteps, S, w, p, q, one, a
  <2>13. CASE kind # "pause"
    <3>1. w \o <<>> = w
      BY <2>10, AndNothing DEF Ordered
    <3>2. Chained(S, w) /\ w # <<>> /\ Head(w) = a
      BY <2>10, <2>11 DEF Chained, Ends
    <3>3. RecoverySteps(kind, fresh) = w
      BY <2>13, <3>1 DEF RecoverySteps, w, p, one
    <3> QED BY <3>2, <3>3 DEF S, a
  <2> QED BY <2>12, <2>13
<1> QED BY <1>1, <1>2, <1>3, <1>4, <1>5

\* What a list has after something was appended.
LEMMA AppendFile ==
  ASSUME NEW S, NEW s, s \in Seq(S), NEW x \in S
  PROVE  /\ Append(s, x) \in Seq(S) /\ Len(Append(s, x)) = Len(s) + 1 /\ Len(s) \in Nat
         /\ Append(s, x)[Len(s) + 1] = x
         /\ \A i \in 1..Len(s) : Append(s, x)[i] = s[i]
OBVIOUS

\* What it has after something was replaced.
LEMMA ReplaceFile ==
  ASSUME NEW S, NEW s, s \in Seq(S), NEW x \in S, NEW k \in 1..Len(s)
  PROVE  LET r == [s EXCEPT ![k] = x]
         IN  r \in Seq(S) /\ Len(r) = Len(s) /\ r[k] = x /\ \A i \in 1..Len(s) : i # k => r[i] = s[i]
OBVIOUS

\* Files of one owner are files, and not the lack of a directory.
LEMMA PackedFiles ==
  ASSUME NEW h \in Handler, NEW items, items \subseteq Item
  PROVE  /\ Packed(h, items) \in Files
         /\ Packed(h, items) # None
         /\ {f \in Packed(h, items) : f[2] # Manifest} \cup {<<h, Manifest>>} = Packed(h, items \cup {Manifest})
<1>1. Packed(h, items) \in Files
  BY DEF Packed, Files
<1>2. Packed(h, items) # None
  BY <1>1, DeliveryAssumption DEF Files
<1>3. \A i : <<h, i>>[2] = i
  OBVIOUS
<1>4. {f \in Packed(h, items) : f[2] # Manifest} = {<<h, i>> : i \in items \ {Manifest}}
  BY <1>3 DEF Packed
<1>5. {<<h, i>> : i \in items \ {Manifest}} \cup {<<h, Manifest>>} = Packed(h, items \cup {Manifest})
  BY DEF Packed
<1> QED BY <1>1, <1>2, <1>4, <1>5

\* What a preset's package is of: items, the photo and its copy in an archive, and the result shown if it is done.
LEMMA LatestIsItem ==
  ASSUME JobInv, raw \subseteq RawItem
  PROVE  /\ \A p : PresetItems(p) \subseteq Item
         /\ {"staged", "working"} \subseteq PresetItems("master_archive")
         /\ \A p : latest # None /\ job[latest] = "done" => latest \in PresetItems(p)
<1>1. Outputs \subseteq Job /\ (latest # None /\ job[latest] = "done" => latest \in Outputs)
  BY DEF Outputs, JobInv
<1>2. LatestResult \subseteq Item
  BY <1>1 DEF LatestResult, Item, RawItem
<1>3. latest # None /\ job[latest] = "done" => latest \in LatestResult
  BY <1>1 DEF LatestResult
<1> HIDE DEF LatestResult, Outputs
<1>4. \A p : PresetItems(p) \subseteq Item
  BY <1>1, <1>2 DEF PresetItems, Item, RawItem
<1>5. {"staged", "working"} \subseteq PresetItems("master_archive")
  BY DEF PresetItems
<1>6. \A p : LatestResult \subseteq PresetItems(p)
  BY DEF PresetItems
<1> QED BY <1>3, <1>4, <1>5, <1>6

\* What a request for an assessment may do.
Judges(h) == BeginAssess(h) \/ ShowJudge(h) \/ JudgeAnswers(h) \/ Measure(h) \/ Gather(h) \/ Calibrate(h)

\* No request counts as a change.
LEMMA ChangesStay ==
  ASSUME NEW h, \/ ServeCatalog(h) \/ ServeEdit(h) \/ ServeLetters(h) \/ ServeCompare(h)
                \/ ServeDelivery(h) \/ ServeIntake(h) \/ Judges(h)
  PROVE  changes' = changes
<1>0. UNCHANGED scounts => changes' = changes
  BY DEF scounts
<1>1. ASSUME ServeCatalog(h) PROVE changes' = changes
  <2>1. CASE BeginUpdate(h)
    BY <2>1, Zenon DEF BeginUpdate
  <2>2. CASE LoadCatalog(h) \/ TearCatalog(h) \/ SaveCatalog(h)
    BY <1>0, <2>2, Zenon DEF LoadCatalog, TearCatalog, SaveCatalog
  <2> QED BY <1>1, <2>1, <2>2 DEF ServeCatalog
<1>2. ASSUME ServeEdit(h) PROVE changes' = changes
  <2>1. CASE BeginApply(h)
    BY <2>1, Zenon DEF BeginApply
  <2>2. CASE BeginSync(h)
    BY <2>2, Zenon DEF BeginSync
  <2>3. CASE BeginRefresh(h)
    BY <2>3, Zenon DEF BeginRefresh
  <2>4. CASE WriteImages(h) \/ TearState(h) \/ WriteState(h)
    BY <1>0, <2>4, Zenon DEF WriteImages, TearState, WriteState
  <2>5. CASE FinishJob(h) \/ ReadPrior(h) \/ ReadChosen(h)
    BY <1>0, <2>5, Zenon DEF FinishJob, ReadPrior, ReadChosen
  <2>6. CASE TearLinkage(h) \/ Link(h)
    BY <1>0, <2>6, Zenon DEF TearLinkage, Link
  <2> QED BY <1>2, <2>1, <2>2, <2>3, <2>4, <2>5, <2>6 DEF ServeEdit
<1>3. ASSUME ServeLetters(h) PROVE changes' = changes
  <2>1. CASE BeginInvestigate(h)
    BY <2>1, Zenon DEF BeginInvestigate
  <2>2. CASE BeginRetry(h)
    BY <2>2, Zenon DEF BeginRetry
  <2>3. CASE OpenLetters(h) \/ TearLetters(h) \/ Note(h)
    BY <1>0, <2>3, Zenon DEF OpenLetters, TearLetters, Note
  <2>4. CASE ListLetters(h) \/ Reset(h) \/ RequeueLetter(h)
    BY <1>0, <2>4, Zenon DEF ListLetters, Reset, RequeueLetter
  <2> QED BY <1>3, <2>1, <2>2, <2>3, <2>4 DEF ServeLetters
<1>4. ASSUME ServeCompare(h) PROVE changes' = changes
  <2>1. CASE BeginDecision(h)
    BY <2>1, Zenon DEF BeginDecision
  <2>2. CASE FileDecision(h) \/ AppendDecision(h)
    BY <1>0, <2>2, Zenon DEF FileDecision, AppendDecision
  <2> QED BY <1>4, <2>1, <2>2 DEF ServeCompare
<1>5. ASSUME ServeDelivery(h) PROVE changes' = changes
  <2>1. CASE BeginPackage(h)
    BY <2>1, Zenon DEF BeginPackage
  <2>2. CASE BeginRecovery(h)
    BY <2>2, Zenon DEF BeginRecovery
  <2>3. CASE ChooseItems(h) \/ OpenRoom(h) \/ CopyItems(h)
    BY <1>0, <2>3, Zenon DEF ChooseItems, OpenRoom, CopyItems
  <2>4. CASE WriteManifest(h) \/ OpenZip(h) \/ FillZip(h)
    BY <1>0, <2>4, Zenon DEF WriteManifest, OpenZip, FillZip
  <2>5. CASE LoseRoom(h) \/ ClearRoom(h) \/ FindArchive(h)
    BY <1>0, <2>5, Zenon DEF LoseRoom, ClearRoom, FindArchive
  <2>6. CASE WritePacket(h) \/ PauseUponPacket(h)
    BY <1>0, <2>6, Zenon DEF WritePacket, PauseUponPacket
  <2> QED BY <1>5, <2>1, <2>2, <2>3, <2>4, <2>5, <2>6 DEF ServeDelivery
<1>6. ASSUME ServeIntake(h) PROVE changes' = changes
  <2>1. CASE BeginIntake(h)
    BY <2>1, Zenon DEF BeginIntake
  <2>2. CASE BeginDevelop(h)
    BY <2>2, Zenon DEF BeginDevelop
  <2>3. CASE OpenUploads(h) \/ Receive(h)
    BY <1>0, <2>3, Zenon DEF OpenUploads, Receive
  <2>4. CASE Stage(h) \/ PrepareEditable(h) \/ DecodeRaw(h)
    BY <1>0, <2>4, Zenon DEF Stage, PrepareEditable, DecodeRaw
  <2>5. CASE HandToISP(h) \/ TearPlan(h) \/ WritePlan(h)
    BY <1>0, <2>5, Zenon DEF HandToISP, TearPlan, WritePlan
  <2>6. CASE ClearUploads(h) \/ OpenPlan(h) \/ Render(h)
    BY <1>0, <2>6, Zenon DEF ClearUploads, OpenPlan, Render
  <2> QED BY <1>6, <2>1, <2>2, <2>3, <2>4, <2>5, <2>6 DEF ServeIntake
<1>7. ASSUME Judges(h) PROVE changes' = changes
  <2>1. CASE BeginAssess(h)
    BY <2>1, Zenon DEF BeginAssess
  <2>2. CASE ShowJudge(h) \/ JudgeAnswers(h) \/ Measure(h)
    BY <1>0, <2>2, Zenon DEF ShowJudge, JudgeAnswers, Measure
  <2>3. CASE Gather(h) \/ Calibrate(h)
    BY <1>0, <2>3, Zenon DEF Gather, Calibrate
  <2> QED BY <1>7, <2>1, <2>2, <2>3 DEF Judges
<1> QED BY <1>1, <1>2, <1>3, <1>4, <1>5, <1>6, <1>7

\* A step of a delivery keeps directories, packages and what such requests know of them.
LEMMA DeliverStep ==
  ASSUME Orderly, DeliveryInv, JobInv, NEW h \in Handler, ServeDelivery(h)
  PROVE  Turn(h, DeliveryKinds) /\ DeliveryInv'
<1> DEFINE Kept == Turn(h, DeliveryKinds) /\ DeliveryInv'
           s == Head(call[h].rest)
           last == Tail(call[h].rest) = <<>>
           Calm == zips' = zips /\ (Head(call[h].rest) # "zip" \/ call[h].kind = "none")
<1>c. DOMAIN call[h] = Fields /\ call[h].solo \in BOOLEAN /\ DeliveryFiles
  BY DEF Orderly, Programmed, DeliveryInv
<1>l. Len(zips) \in Nat
  BY <1>c DEF DeliveryFiles
<1>h. changes' = changes
  BY ChangesStay
<1>u. UNCHANGED delivery => DeliveryFiles' /\ UNCHANGED <<room, zips>>
  BY <1>c, <1>h DEF DeliveryFiles, delivery
<1>m. \A t : At(h, t) /\ t # "zip" /\ zips' = zips => Calm
  BY DEF At
\* A zip that others fill they go on filling.
<1>o. ASSUME Turn(h, DeliveryKinds), Calm PROVE OpenHeld'
  <2> SUFFICES ASSUME NEW z \in 1..Len(zips), ~zips[z].closed, changes = 0 PROVE \E g \in Handler : Zipping(g, z)'
    BY <1>h, <1>o DEF OpenHeld
  <2>1. PICK g \in Handler : Zipping(g, z)
    BY DEF DeliveryInv, OpenHeld
  <2>2. g # h
    BY <1>o, <2>1 DEF Zipping, DeliveryKinds
  <2>3. Same(call'[g], call[g])
    BY <1>o, <2>2 DEF Turn, Goal, Besides
  <2> QED BY <2>1, <2>3 DEF Zipping, Same
<1>i. ASSUME Turn(h, DeliveryKinds), DeliveryKnows(h)', DeliveryFiles', Calm \/ (Grown /\ OpenHeld') PROVE Kept
  <2>1. Grown /\ OpenHeld'
    BY <1>i, <1>l, <1>o DEF Grown
  <2>2. \A g \in Handler : DeliveryKnows(g)'
    BY <1>i, <2>1, DeliveryOvertaken DEF Turn, Goal
  <2> QED BY <1>i, <2>1, <2>2 DEF DeliveryInv
<1>z. ASSUME call'[h] = Idle PROVE DeliveryKnows(h)'
  BY <1>z, IdleProgrammed DEF DeliveryKnows, DeliveryKinds
<1>b. ASSUME NEW c, Begins(h, c), DOMAIN c = Fields, c.kind \in DeliveryKinds, Chained(StepsOf(c.kind), c.rest),
             c.rest # <<>>, UNCHANGED delivery,
             \A d : d.kind = c.kind /\ d.ask = c.ask /\ d.hold = c.hold
                      => Informed(h, d, Head(c.rest), Tail(c.rest) = <<>>, room, zips, changes = 0)
      PROVE  Kept
  <2>1. Turn(h, DeliveryKinds) /\ call'[h] = [c EXCEPT !.solo = call'[h].solo]
    BY <1>b, TurnBegins DEF DeliveryKinds
  <2>2. call'[h].kind = c.kind /\ call'[h].ask = c.ask /\ call'[h].hold = c.hold /\ call'[h].rest = c.rest
    BY <1>b, <2>1 DEF Fields
  <2>5. Informed(h, call'[h], Head(c.rest), Tail(c.rest) = <<>>, room, zips, changes = 0)
    BY <1>b, <2>2
  <2>6. DeliveryKnows(h)'
    BY <1>b, <1>h, <1>u, <2>2, <2>5 DEF DeliveryKnows
  <2>7. Calm
    BY <1>b, <1>u DEF Begins
  <2> QED BY <1>b, <1>i, <1>u, <2>1, <2>6, <2>7
\* A step that goes on as c, which then knows what it needs for what may come.
<1>g. ASSUME NEW t, At(h, t), t \in {"items", "room", "copy", "manifest", "zip", "clear", "find", "packet", "pause"},
             NEW c, DOMAIN c = Fields, c.kind = call[h].kind, c.rest = call[h].rest, c.solo = call[h].solo, Goes(h, c),
             \A u : Follows(t, u) /\ u \in StepsOf(c.kind) => \A end \in BOOLEAN : Informed(h, c, u, end, room', zips', changes' = 0),
             DeliveryFiles', Calm \/ (Turn(h, DeliveryKinds) => Grown /\ OpenHeld')
      PROVE  Kept
  <2>0. call[h].kind \in DeliveryKinds
    BY <1>g, TailChained, KindOfStep DEF At, Orderly, Programmed
  <2>1. /\ Turn(h, DeliveryKinds)
        /\ \/ call'[h] = Idle
           \/ /\ call'[h] = [c EXCEPT !.rest = Tail(c.rest)]
              /\ call'[h].rest # <<>> /\ Follows(t, Head(call'[h].rest))
    BY <1>g, <2>0, TurnGoes
  <2>2. CASE call'[h] = Idle
    BY <1>g, <1>i, <1>z, <2>1, <2>2
  <2>3. CASE call'[h] # Idle
    <3>1. call'[h].kind = c.kind /\ call'[h].ask = c.ask /\ call'[h].hold = c.hold /\ call'[h].solo = c.solo
      BY <1>g, <2>1, <2>3 DEF Fields
    <3> DEFINE u == Head(call'[h].rest)
               end == Tail(call'[h].rest) = <<>>
    <3>2. u \in StepsOf(c.kind)
      BY <2>1, <2>3, <3>1, TailChained DEF Turn, Goal, Orderly, Programmed
    <3>3. Informed(h, c, u, end, room', zips', changes' = 0)
      BY <1>g, <2>1, <2>3, <3>2
    <3> HIDE DEF u, end
    <3>4. Informed(h, call'[h], u, end, room', zips', changes' = 0)
      BY <3>1, <3>3, InformedBy
    <3>5. DeliveryKnows(h)'
      BY <3>4 DEF DeliveryKnows, u, end
    <3> QED BY <1>g, <1>i, <2>1, <3>5
  <2> QED BY <2>2, <2>3
\* A failure in the directory, which is removed next.
<1>f. ASSUME NEW t, At(h, t), t \in {"copy", "manifest", "zip"}, FailsInRoom(h), DeliveryFiles',
             Calm \/ (Turn(h, DeliveryKinds) => Grown /\ OpenHeld')
      PROVE  Kept
  <2>0. call[h].kind \in DeliveryKinds
    BY <1>f, TailChained, KindOfStep DEF At, Orderly, Programmed
  <2>1. Informed(h, call[h], t, last, room, zips, changes = 0)
    BY <1>f, <2>0 DEF DeliveryInv, DeliveryKnows, At
  <2> DEFINE c == [call[h] EXCEPT !.rest = <<"clear">>]
  <2>2. Stays(h, c)
    BY <1>f DEF FailsInRoom
  <2>3. /\ DOMAIN c = Fields /\ c.kind = call[h].kind /\ c.solo = call[h].solo /\ c.rest = <<"clear">>
        /\ c.ask = call[h].ask /\ c.hold = call[h].hold
    BY <1>c DEF Fields
  <2> HIDE DEF c
  <2>4. Chained(StepsOf(c.kind), c.rest) /\ c.rest # <<>> /\ Head(c.rest) = "clear"
    <3>1. "clear" \in StepsOf(c.kind)
      BY <2>0, <2>3 DEF StepsOf, DeliveryKinds, Packing
    <3> QED BY <2>3, <3>1, LastStep DEF Ends
  <2>5. Tail(c.rest) = <<>>
    BY <2>3
  <2>6. Turn(h, DeliveryKinds) /\ call'[h] = c
    BY <1>f, <2>0, <2>2, <2>3, <2>4, TurnStays
  <2>7. Informed(h, c, "clear", Tail(c.rest) = <<>>, room', zips', changes' = 0)
    BY <1>f, <2>1, <2>3, <2>5 DEF Informed, Packing
  <2>8. DeliveryKnows(h)'
    BY <1>f, <2>4, <2>6, <2>7 DEF DeliveryKnows
  <2> QED BY <1>f, <1>i, <2>6, <2>8
<1>1. ASSUME BeginPackage(h) PROVE Kept
  <2>0. UNCHANGED delivery
    BY <1>1, Zenon DEF BeginPackage
  <2>1. ASSUME NEW c, NEW p, p \in Preset, Begins(h, c), DOMAIN c = Fields, c.kind = "package", c.rest = PackSteps, c.ask = p
        PROVE  Kept
    <3>1. \A d : d.kind = c.kind => Informed(h, d, "items", FALSE, room, zips, changes = 0) /\ Informed(h, d, "items", TRUE, room, zips, changes = 0)
      BY <2>1 DEF Informed
    <3> QED BY <2>0, <2>1, <3>1, <1>b, DeliveryPrograms DEF DeliveryKinds
  <2>2. ASSUME NEW c, Begins(h, c), DOMAIN c = Fields, c.kind = "package", c.rest = Tail(PackSteps), c.ask = "files",
               c.hold = [items |-> {"staged"}, room |-> None, zip |-> 0]
        PROVE  Kept
    <3>1. IsHold(c.hold)
      BY <2>2 DEF IsHold, Item
    <3>2. \A d : d.kind = c.kind /\ d.hold = c.hold
                   => Informed(h, d, "room", FALSE, room, zips, changes = 0) /\ Informed(h, d, "room", TRUE, room, zips, changes = 0)
      BY <2>2, <3>1 DEF Informed
    <3> QED BY <2>0, <2>2, <3>2, <1>b, DeliveryPrograms DEF DeliveryKinds
  <2> HIDE DEF Kept
  <2>3. ASSUME NEW p \in Preset, Begins(h, [Idle EXCEPT !.kind = "package", !.rest = PackSteps, !.ask = p]) PROVE Kept
    BY <2>1, <2>3 DEF Idle, Fields
  <2>4. ASSUME Begins(h, [Idle EXCEPT !.kind = "package", !.rest = Tail(PackSteps), !.ask = "files",
                               !.hold = [items |-> {"staged"}, room |-> None, zip |-> 0]]) PROVE Kept
    BY <2>2, <2>4 DEF Idle, Fields
  <2> QED BY <1>1, <2>3, <2>4, Zenon DEF BeginPackage
<1>2. ASSUME BeginRecovery(h) PROVE Kept
  <2>0. UNCHANGED delivery
    BY <1>2 DEF BeginRecovery
  <2>1. ASSUME NEW c, NEW fresh, NEW kind, fresh \in BOOLEAN, kind \in {"recovery", "pause"}, Begins(h, c),
               DOMAIN c = Fields, c.kind = kind, c.ask = (IF fresh THEN "master_archive" ELSE None),
               c.rest = RecoverySteps(kind, fresh)
        PROVE  Kept
    <3>1. \A d : d.kind = c.kind /\ d.ask = c.ask => \A end \in BOOLEAN :
                   Informed(h, d, IF fresh THEN "items" ELSE "find", end, room, zips, changes = 0)
      <4>1. CASE fresh
        BY <2>1, <4>1 DEF Informed
      <4>2. CASE ~fresh
        BY <2>1, <4>2 DEF Informed, Packing
      <4> QED BY <4>1, <4>2
    <3>2. Chained(StepsOf(kind), c.rest) /\ c.rest # <<>> /\ Head(c.rest) = IF fresh THEN "items" ELSE "find"
      BY <2>1, DeliveryPrograms
    <3> QED BY <2>0, <2>1, <3>1, <3>2, <1>b DEF DeliveryKinds
  <2> HIDE DEF Kept
  <2>2. ASSUME NEW fresh \in BOOLEAN, NEW kind \in {"recovery", "pause"},
               Begins(h, [Idle EXCEPT !.kind = kind, !.ask = IF fresh THEN "master_archive" ELSE None,
                                      !.rest = RecoverySteps(kind, fresh)])
        PROVE  Kept
    <3> DEFINE a == IF fresh THEN "master_archive" ELSE None
               c == [Idle EXCEPT !.kind = kind, !.ask = a, !.rest = RecoverySteps(kind, fresh)]
    <3>1. Begins(h, c)
      BY <2>2
    <3> HIDE DEF a
    <3>2. DOMAIN c = Fields /\ c.kind = kind /\ c.ask = a /\ c.rest = RecoverySteps(kind, fresh)
      BY DEF Idle, Fields
    <3> HIDE DEF c
    <3> QED BY <2>1, <3>1, <3>2 DEF a
  <2> QED BY <1>2, <2>2, Zenon DEF BeginRecovery, RecoverySteps
<1>k. \A t : At(h, t) /\ t \in {"items", "room", "copy", "manifest", "zip", "clear", "find", "packet", "pause"} =>
        /\ call[h].kind \in DeliveryKinds /\ Informed(h, call[h], t, last, room, zips, changes = 0)
        /\ call[h].kind # "none" /\ t \in StepsOf(call[h].kind)
  <2>1. ASSUME NEW t, At(h, t), t \in {"items", "room", "copy", "manifest", "zip", "clear", "find", "packet", "pause"}
        PROVE  call[h].kind \in DeliveryKinds /\ t \in StepsOf(call[h].kind)
    BY <2>1, TailChained, KindOfStep DEF At, Orderly, Programmed
  <2>2. ASSUME NEW t, At(h, t), call[h].kind \in DeliveryKinds PROVE Informed(h, call[h], t, last, room, zips, changes = 0)
    BY <2>2 DEF DeliveryInv, DeliveryKnows, At
  <2> QED BY <2>1, <2>2 DEF DeliveryKinds
<1> HIDE DEF Kept
<1>3. ASSUME ChooseItems(h) PROVE Kept
  <2>1. At(h, "items") /\ UNCHANGED delivery
    BY <1>3 DEF ChooseItems
  <2> DEFINE c == [call[h] EXCEPT !.hold = [items |-> PresetItems(call[h].ask), room |-> None, zip |-> 0]]
  <2>2. Goes(h, c)
    BY <1>3 DEF ChooseItems
  <2>3. /\ DOMAIN c = Fields /\ c.kind = call[h].kind /\ c.rest = call[h].rest /\ c.solo = call[h].solo
        /\ c.ask = call[h].ask /\ c.hold = [items |-> PresetItems(call[h].ask), room |-> None, zip |-> 0]
    BY <1>c DEF Fields
  <2> HIDE DEF c
  <2>4. Informed(h, call[h], "items", last, room, zips, changes = 0)
    BY <1>k, <2>1
  <2>5. IsHold(c.hold) /\ c.hold.items = PresetItems(call[h].ask)
    BY <1>c, <2>3, LatestIsItem DEF IsHold, DeliveryFiles
  <2>6. c.kind # "package" => c.ask = "master_archive" /\ {"staged", "working"} \subseteq c.hold.items
    <3>1. c.kind # "package" => call[h].ask = "master_archive"
      BY <2>3, <2>4 DEF Informed, Packing
    <3>2. {"staged", "working"} \subseteq PresetItems("master_archive")
      BY <1>c, LatestIsItem DEF DeliveryFiles
    <3> QED BY <2>3, <2>5, <3>1, <3>2
  <2>7. \A u : Follows("items", u) => u = "room"
    BY DEF Follows
  <2>8. \A end \in BOOLEAN : Informed(h, c, "room", end, room', zips', changes' = 0)
    BY <2>3, <2>5, <2>6 DEF Informed, Packing
  <2>9. Calm
    BY <1>m, <1>u, <2>1
  <2> QED BY <1>g, <1>u, <2>1, <2>2, <2>3, <2>7, <2>8, <2>9
<1>4. ASSUME OpenRoom(h) PROVE Kept
  <2>1. At(h, "room") /\ UNCHANGED <<raw, zips, newest>>
    BY <1>4 DEF OpenRoom
  <2>2. PICK r \in Room :
          /\ \/ room[r] = None /\ \A g \in Handler : ~InRoom(g, r)
             \/ \E g \in Handler \ {h} : InRoom(g, r) /\ SameLabel(g, h)
          /\ room' = [room EXCEPT ![r] = IF @ = None THEN {} ELSE @]
          /\ Goes(h, [call[h] EXCEPT !.hold.room = r])
    BY <1>4 DEF OpenRoom
  <2> DEFINE c == [call[h] EXCEPT !.hold.room = r]
  <2>3. Informed(h, call[h], "room", last, room, zips, changes = 0) /\ call[h].kind # "none"
    BY <1>k, <2>1
  <2>4. IsHold(call[h].hold)
    BY <2>3 DEF Informed
  <2>5. /\ DOMAIN c = Fields /\ c.kind = call[h].kind /\ c.rest = call[h].rest /\ c.solo = call[h].solo
        /\ c.ask = call[h].ask /\ IsHold(c.hold) /\ c.hold.room = r /\ c.hold.items = call[h].hold.items
        /\ c.hold.zip = call[h].hold.zip
    BY <1>c, <2>4 DEF Fields, IsHold
  <2>6. Goes(h, c)
    BY <2>2
  <2> HIDE DEF c
  <2>7. call[h].solo => room'[r] = {}
    <3> SUFFICES ASSUME call[h].solo PROVE room'[r] = {}
      OBVIOUS
    <3>1. \A g \in Handler \ {h} : call[g].kind = "none"
      BY <2>3 DEF Orderly
    <3>2. room[r] = None
      BY <2>2, <3>1 DEF InRoom
    <3> QED BY <1>c, <2>2, <3>2 DEF DeliveryFiles
  <2>8. DeliveryFiles'
    <3>1. {} \in Files
      BY DEF Files
    <3> QED BY <1>c, <1>h, <2>1, <2>2, <3>1 DEF DeliveryFiles
  <2>9. \A u : Follows("room", u) => u = "copy"
    BY DEF Follows
  <2>10. \A end \in BOOLEAN : Informed(h, c, "copy", end, room', zips', changes' = 0)
    BY <2>2, <2>3, <2>5, <2>7 DEF Informed, Packing
  <2>11. Calm
    BY <1>m, <2>1
  <2> QED BY <1>g, <2>1, <2>5, <2>6, <2>8, <2>9, <2>10, <2>11
<1>5. ASSUME CopyItems(h) PROVE Kept
  <2>1. At(h, "copy") /\ UNCHANGED <<raw, zips, newest, packet, paused>>
    BY <1>5 DEF CopyItems
  <2>c. Calm
    BY <1>m, <2>1
  <2>2. Informed(h, call[h], "copy", last, room, zips, changes = 0)
    BY <1>k, <2>1
  <2>3. IsHold(call[h].hold) /\ call[h].hold.room \in Room
    BY <2>2 DEF Informed
  <2> DEFINE mine == MyRoom(h)
             more == Packed(h, call[h].hold.items)
  <2>4. CASE room[mine] # None /\ call[h].hold.items # {}
    <3>1. room' = [room EXCEPT ![mine] = @ \cup more] /\ Goes(h, call[h])
      BY <1>5, <2>4 DEF CopyItems, Packed
    <3>2. more \in Files
      BY <2>3, PackedFiles DEF IsHold
    <3> HIDE DEF more
    <3>3. room[mine] \in Files /\ mine \in Room /\ room'[mine] = room[mine] \cup more /\ room'[mine] \in Files
      BY <1>c, <2>3, <2>4, <3>1, <3>2 DEF DeliveryFiles, MyRoom, Files
    <3>4. DeliveryFiles'
      BY <1>c, <1>h, <2>1, <3>1, <3>3 DEF DeliveryFiles
    <3>5. call[h].solo => room'[call[h].hold.room] = Packed(h, call[h].hold.items)
      BY <2>2, <3>3 DEF Informed, MyRoom, more
    <3>6. \A u : Follows("copy", u) => u = "manifest"
      BY DEF Follows
    <3>7. \A end \in BOOLEAN : Informed(h, call[h], "manifest", end, room', zips', changes' = 0)
      BY <2>2, <3>5 DEF Informed, Packing
    <3>8. \A u : Follows("copy", u) /\ u \in StepsOf(call[h].kind) => \A end \in BOOLEAN : Informed(h, call[h], u, end, room', zips', changes' = 0)
      BY <3>6, <3>7
    <3> QED BY <1>c, <1>g, <2>1, <2>c, <3>1, <3>4, <3>8
  <2>5. CASE ~(room[mine] # None /\ call[h].hold.items # {})
    <3>1. FailsInRoom(h) /\ UNCHANGED room
      BY <1>5, <2>5 DEF CopyItems
    <3>2. DeliveryFiles'
      BY <1>c, <1>h, <2>1, <3>1 DEF DeliveryFiles
    <3> QED BY <1>f, <2>1, <2>c, <3>1, <3>2
  <2> QED BY <2>4, <2>5
<1>6. ASSUME WriteManifest(h) PROVE Kept
  <2>1. At(h, "manifest") /\ UNCHANGED <<raw, zips, newest, packet, paused>>
    BY <1>6 DEF WriteManifest
  <2>c. Calm
    BY <1>m, <2>1
  <2>2. Informed(h, call[h], "manifest", last, room, zips, changes = 0)
    BY <1>k, <2>1
  <2>3. IsHold(call[h].hold) /\ call[h].hold.room \in Room
    BY <2>2 DEF Informed
  <2> DEFINE mine == MyRoom(h)
  <2>4. CASE room[mine] # None
    <3> DEFINE new == {f \in room[mine] : f[2] # Manifest} \cup {<<h, Manifest>>}
    <3>1. room' = [room EXCEPT ![mine] = new] /\ Goes(h, call[h])
      BY <1>6, <2>4 DEF WriteManifest
    <3>2. mine \in Room /\ room[mine] \in Files
      BY <1>c, <2>3, <2>4 DEF DeliveryFiles, MyRoom
    <3>3. new \in Files
      BY <3>2 DEF Files, Item
    <3>4. call[h].solo => new = Packed(h, call[h].hold.items \cup {Manifest})
      <4>1. call[h].solo => room[mine] = Packed(h, call[h].hold.items)
        BY <2>2 DEF Informed, MyRoom
      <4> QED BY <2>3, <4>1, PackedFiles DEF IsHold
    <3> HIDE DEF new
    <3>5. room'[mine] = new
      BY <1>c, <3>1, <3>2 DEF DeliveryFiles
    <3>6. DeliveryFiles'
      BY <1>c, <1>h, <2>1, <3>1, <3>2, <3>3 DEF DeliveryFiles
    <3>7. \A u : Follows("manifest", u) => u = "zip"
      BY DEF Follows
    <3>8. call[h].solo => room'[call[h].hold.room] = Packed(h, call[h].hold.items \cup {Manifest})
      BY <3>4, <3>5 DEF MyRoom
    <3>9. \A end \in BOOLEAN : Informed(h, call[h], "zip", end, room', zips', changes' = 0)
      BY <1>l, <2>1, <2>2, <3>8 DEF Informed, Packing
    <3>10. \A u : Follows("manifest", u) /\ u \in StepsOf(call[h].kind) => \A end \in BOOLEAN : Informed(h, call[h], u, end, room', zips', changes' = 0)
      BY <3>7, <3>9
    <3> QED BY <1>c, <1>g, <2>1, <2>c, <3>1, <3>6, <3>10
  <2>5. CASE ~(room[mine] # None)
    <3>1. FailsInRoom(h) /\ UNCHANGED room
      BY <1>6, <2>5 DEF WriteManifest
    <3>2. DeliveryFiles'
      BY <1>c, <1>h, <2>1, <3>1 DEF DeliveryFiles
    <3> QED BY <1>f, <2>1, <2>c, <3>1, <3>2
  <2> QED BY <2>4, <2>5
<1>7. ASSUME OpenZip(h) PROVE Kept
  <2> DEFINE new == [closed |-> FALSE, files |-> {}]
             z   == Len(zips) + 1
             c   == [call[h] EXCEPT !.hold.zip = z]
  <2>1. /\ At(h, "zip") /\ call[h].hold.zip = 0 /\ UNCHANGED <<raw, room>>
        /\ zips' = Append(zips, new) /\ newest' = z /\ Stays(h, c)
    BY <1>7 DEF OpenZip
  <2>2. Informed(h, call[h], "zip", last, room, zips, changes = 0) /\ call[h].kind \in DeliveryKinds
    BY <1>k, <2>1
  <2>3. IsHold(call[h].hold) /\ call[h].hold.room \in Room
    BY <2>2 DEF Informed
  <2>4. /\ DOMAIN c = Fields /\ c.kind = call[h].kind /\ c.rest = call[h].rest /\ c.solo = call[h].solo
        /\ c.ask = call[h].ask /\ IsHold(c.hold) /\ c.hold.zip = z
        /\ c.hold.room = call[h].hold.room /\ c.hold.items = call[h].hold.items
    BY <1>c, <2>3 DEF Fields, IsHold
  <2>5. new \in Zip
    <3>1. {} \in Files
      BY DEF Files
    <3> QED BY <3>1 DEF Zip
  <2> HIDE DEF new, c, z
  <2>6. /\ zips' \in Seq(Zip) /\ Len(zips') = z /\ \A i \in 1..Len(zips) : zips'[i] = zips[i]
        /\ z \in Nat /\ z = Len(zips) + 1
    BY <1>c, <1>l, <2>1, <2>5, AppendFile DEF DeliveryFiles, z
  <2>7. DeliveryFiles'
    BY <1>c, <1>h, <2>1, <2>6 DEF DeliveryFiles
  <2>8. c.rest # <<>> /\ Chained(StepsOf(c.kind), c.rest) /\ Head(c.rest) = "zip"
    BY <2>1, <2>4 DEF At, Orderly, Programmed
  <2>9. Turn(h, DeliveryKinds) /\ call'[h] = c
    BY <2>1, <2>2, <2>4, <2>8, TurnStays
  <2>10. Informed(h, c, "zip", last, room', zips', changes' = 0)
    BY <1>h, <1>l, <2>1, <2>2, <2>4, <2>6 DEF Informed, Packing
  <2>11. DeliveryKnows(h)'
    BY <2>4, <2>8, <2>9, <2>10 DEF DeliveryKnows
  <2>12. Grown
    BY <1>l, <2>6 DEF Grown
  <2>13. OpenHeld'
    <3> SUFFICES ASSUME NEW i \in 1..Len(zips'), ~zips'[i].closed, changes = 0 PROVE \E g \in Handler : Zipping(g, i)'
      BY <1>h DEF OpenHeld
    <3>1. CASE i = z
      BY <2>2, <2>4, <2>8, <2>9, <3>1 DEF Zipping
    <3>2. CASE i # z
      <4>1. i \in 1..Len(zips) /\ ~zips[i].closed /\ i # 0
        BY <1>l, <2>6, <3>2
      <4>2. PICK g \in Handler : Zipping(g, i)
        BY <4>1 DEF DeliveryInv, OpenHeld
      <4>3. g # h
        BY <2>1, <4>1, <4>2 DEF Zipping
      <4>4. Same(call'[g], call[g])
        BY <2>9, <4>3 DEF Turn, Goal, Besides
      <4> QED BY <4>2, <4>4 DEF Zipping, Same
    <3> QED BY <3>1, <3>2
  <2> QED BY <1>i, <2>7, <2>9, <2>11, <2>12, <2>13
\* The zip is filled and closed.
<1>x. ASSUME NEW files \in Files, At(h, "zip"), call[h].hold.zip # 0, Filled(h, files), raw' = raw,
             DOMAIN room' = Room, \A r \in Room : room'[r] = None \/ room'[r] \in Files
      PROVE  /\ DeliveryFiles' /\ Len(zips') = Len(zips)
             /\ call[h].hold.zip \in 1..Len(zips) /\ zips'[call[h].hold.zip] = [closed |-> TRUE, files |-> files]
             /\ (Turn(h, DeliveryKinds) => Grown /\ OpenHeld')
  <2> DEFINE z   == call[h].hold.zip
             new == [closed |-> TRUE, files |-> files]
  <2>1. Informed(h, call[h], "zip", last, room, zips, changes = 0)
    BY <1>k, <1>x
  <2>2. z \in 0..Len(zips)
    BY <2>1 DEF Informed
  <2>3. z \in 1..Len(zips) /\ z \in 0..Len(zips)
    BY <1>l, <1>x, <2>2
  <2>4. zips' = [zips EXCEPT ![z] = new] /\ newest' = z /\ new \in Zip
    BY <1>x DEF Filled, Zip
  <2> HIDE DEF z, new
  <2>5. /\ zips' \in Seq(Zip) /\ Len(zips') = Len(zips) /\ zips'[z] = new
        /\ \A i \in 1..Len(zips) : i # z => zips'[i] = zips[i]
    BY <1>c, <2>3, <2>4, ReplaceFile DEF DeliveryFiles
  <2>6. DeliveryFiles'
    BY <1>c, <1>h, <1>x, <2>3, <2>4, <2>5 DEF DeliveryFiles
  <2>7. new.closed
    BY DEF new
  <2>8. Grown
    BY <1>l, <2>5, <2>7 DEF Grown
  <2>9. ASSUME Turn(h, DeliveryKinds) PROVE OpenHeld'
    <3> SUFFICES ASSUME NEW i \in 1..Len(zips), ~zips'[i].closed, changes = 0 PROVE \E g \in Handler : Zipping(g, i)'
      BY <1>h, <2>5 DEF OpenHeld
    <3>1. i # z /\ ~zips[i].closed
      BY <2>5, <2>7
    <3>2. PICK g \in Handler : Zipping(g, i)
      BY <3>1 DEF DeliveryInv, OpenHeld
    <3>3. g # h
      BY <3>1, <3>2 DEF Zipping, z
    <3>4. Same(call'[g], call[g])
      BY <2>9, <3>3 DEF Turn, Goal, Besides
    <3> QED BY <3>2, <3>4 DEF Zipping, Same
  <2> QED BY <2>3, <2>5, <2>6, <2>8, <2>9 DEF z, new
<1>12. ASSUME FillZip(h) PROVE Kept
  <2> DEFINE files == IF room[MyRoom(h)] = None THEN {} ELSE room[MyRoom(h)]
             z     == call[h].hold.zip
  <2>1. At(h, "zip") /\ z # 0 /\ UNCHANGED <<raw, room>> /\ Filled(h, files) /\ Goes(h, call[h])
    BY <1>12 DEF FillZip
  <2>2. Informed(h, call[h], "zip", last, room, zips, changes = 0)
    BY <1>k, <2>1
  <2>3. IsHold(call[h].hold) /\ call[h].hold.room \in Room /\ call[h].hold.items \subseteq Item
    BY <2>2 DEF Informed, IsHold
  <2>4. files \in Files
    <3>1. {} \in Files
      BY DEF Files
    <3> QED BY <1>c, <2>3, <3>1 DEF DeliveryFiles, MyRoom
  <2>5. call[h].solo => files = Packed(h, call[h].hold.items \cup {Manifest})
    <3>1. call[h].solo => room[MyRoom(h)] = Packed(h, call[h].hold.items \cup {Manifest})
      BY <2>2 DEF Informed, MyRoom
    <3>2. call[h].hold.items \cup {Manifest} \subseteq Item
      BY <2>3 DEF Item
    <3>3. Packed(h, call[h].hold.items \cup {Manifest}) # None
      BY <3>2, PackedFiles
    <3> QED BY <3>1, <3>3
  <2> HIDE DEF files, z
  <2>6. /\ DOMAIN room' = Room /\ \A r \in Room : room'[r] = None \/ room'[r] \in Files
    BY <1>c, <2>1 DEF DeliveryFiles
  <2>7. /\ DeliveryFiles' /\ Len(zips') = Len(zips) /\ z \in 1..Len(zips) /\ zips'[z] = [closed |-> TRUE, files |-> files]
        /\ (Turn(h, DeliveryKinds) => Grown /\ OpenHeld')
    BY <1>x, <2>1, <2>4, <2>6 DEF z
  <2>8. zips'[z].closed /\ zips'[z].files = files /\ z \in 0..Len(zips') /\ z = call[h].hold.zip
    BY <1>l, <2>7 DEF z
  <2>9. \A u : Follows("zip", u) => u = "clear"
    BY DEF Follows
  <2>10. \A end \in BOOLEAN : Informed(h, call[h], "clear", end, room', zips', changes' = 0)
    BY <2>1, <2>2, <2>5, <2>8 DEF Informed, Packing
  <2> QED BY <1>c, <1>g, <2>1, <2>7, <2>9, <2>10
<1>13. ASSUME LoseRoom(h) PROVE Kept
  <2> DEFINE mine == MyRoom(h)
  <2>1. /\ At(h, "zip") /\ call[h].hold.zip # 0 /\ room[mine] # None /\ raw' = raw /\ FailsInRoom(h)
        /\ room' = [room EXCEPT ![mine] = None]
    BY <1>13 DEF LoseRoom
  <2>2. PICK o \in Handler : Filled(h, {f \in room[mine] : f[1] = o})
    BY <1>13 DEF LoseRoom
  <2>3. Informed(h, call[h], "zip", last, room, zips, changes = 0)
    BY <1>k, <2>1
  <2>4. mine \in Room /\ room[mine] \in Files
    BY <1>c, <2>1, <2>3 DEF DeliveryFiles, Informed, MyRoom
  <2>5. {f \in room[mine] : f[1] = o} \in Files
    BY <2>4 DEF Files
  <2> HIDE DEF mine
  <2>6. DOMAIN room' = Room /\ \A r \in Room : room'[r] = None \/ room'[r] \in Files
    BY <1>c, <2>1, <2>4 DEF DeliveryFiles
  <2>7. DeliveryFiles' /\ (Turn(h, DeliveryKinds) => Grown /\ OpenHeld')
    BY <1>x, <2>1, <2>2, <2>5, <2>6
  <2> QED BY <1>f, <2>1, <2>7
<1>8. ASSUME ClearRoom(h) PROVE Kept
  <2> DEFINE c == [call[h] EXCEPT !.hold.room = None]
  <2>1. At(h, "clear") /\ UNCHANGED <<raw, zips, newest>> /\ room' = [room EXCEPT ![MyRoom(h)] = None] /\ Goes(h, c)
    BY <1>8 DEF ClearRoom
  <2>2. Informed(h, call[h], "clear", last, room, zips, changes = 0)
    BY <1>k, <2>1
  <2>3. IsHold(call[h].hold)
    BY <2>2 DEF Informed
  <2>4. /\ DOMAIN c = Fields /\ c.kind = call[h].kind /\ c.rest = call[h].rest /\ c.solo = call[h].solo
        /\ c.ask = call[h].ask /\ IsHold(c.hold) /\ c.hold.zip = call[h].hold.zip
        /\ c.hold.items = call[h].hold.items
    BY <1>c, <2>3 DEF Fields, IsHold
  <2> HIDE DEF c
  <2>c. Calm
    BY <1>m, <2>1
  <2>5. DeliveryFiles'
    BY <1>c, <1>h, <2>1 DEF DeliveryFiles
  <2>6. \A u : Follows("clear", u) => u = "packet"
    BY DEF Follows
  <2>7. CASE last
    <3>1. Goes(h, c) /\ Tail(c.rest) = <<>>
      BY <2>1, <2>4, <2>7
    <3>2. call' = [call EXCEPT ![h] = Idle]
      BY <3>1, Zenon DEF Goes, Stays
    <3>3. call'[h] = Idle
      BY <3>2 DEF Orderly
    <3>4. Turn(h, DeliveryKinds)
      BY <2>1, <2>4, <1>k, TurnGoes
    <3> QED BY <1>i, <1>z, <2>c, <2>5, <3>3, <3>4
  <2>8. CASE ~last
    <3>1. \A end \in BOOLEAN : Informed(h, c, "packet", end, room', zips', changes' = 0)
      BY <1>h, <2>1, <2>2, <2>4, <2>8 DEF Informed, Packing
    <3>2. \A u : Follows("clear", u) /\ u \in StepsOf(c.kind) => \A end \in BOOLEAN : Informed(h, c, u, end, room', zips', changes' = 0)
      BY <2>6, <3>1
    <3> QED BY <1>g, <2>1, <2>4, <2>5, <2>c, <3>2
  <2> QED BY <2>7, <2>8
<1>9. ASSUME FindArchive(h) PROVE Kept
  <2> DEFINE c == [call[h] EXCEPT !.hold = [items |-> {}, room |-> None, zip |-> newest]]
  <2>1. At(h, "find") /\ UNCHANGED delivery /\ Goes(h, c)
    BY <1>9 DEF FindArchive
  <2>2. Informed(h, call[h], "find", last, room, zips, changes = 0) /\ "find" \in StepsOf(call[h].kind)
    BY <1>k, <2>1
  <2>3. /\ DOMAIN c = Fields /\ c.kind = call[h].kind /\ c.rest = call[h].rest /\ c.solo = call[h].solo
        /\ c.ask = call[h].ask /\ c.hold = [items |-> {}, room |-> None, zip |-> newest]
    BY <1>c DEF Fields
  <2> HIDE DEF c
  <2>4. IsHold(c.hold) /\ c.hold.zip \in 0..Len(zips) /\ c.hold.zip = newest
    BY <1>c, <2>3 DEF IsHold, DeliveryFiles
  <2>5. call[h].kind # "package"
    BY <2>2 DEF StepsOf, Packing
  <2>6. call[h].ask = None
    BY <2>2, <2>5 DEF Informed
  <2>7. \A u : Follows("find", u) => u = "packet"
    BY DEF Follows
  <2>8. UNCHANGED <<room, zips>> /\ Calm
    BY <1>m, <1>u, <2>1
  <2>10. ASSUME call[h].solo, changes = 0, newest # 0 PROVE zips[newest].closed
    <3> SUFFICES ASSUME ~zips[newest].closed PROVE FALSE
      OBVIOUS
    <3>1. newest \in 1..Len(zips)
      BY <1>c, <1>l, <2>10 DEF DeliveryFiles
    <3>2. PICK g \in Handler : Zipping(g, newest)
      BY <2>10, <3>1 DEF DeliveryInv, OpenHeld
    <3>3. g # h
      BY <2>1, <3>2 DEF Zipping, At
    <3>4. call[h].kind # "none"
      BY <1>k, <2>1
    <3>5. call[g].kind = "none"
      BY <2>10, <3>3, <3>4 DEF Orderly
    <3> QED BY <3>2, <3>5 DEF Zipping, DeliveryKinds
  <2>9. \A end \in BOOLEAN : Informed(h, c, "packet", end, room', zips', changes' = 0)
    BY <1>h, <2>3, <2>4, <2>6, <2>8, <2>10 DEF Informed, Packing
  <2> QED BY <1>g, <1>u, <2>1, <2>3, <2>7, <2>8, <2>9
<1>10. ASSUME WritePacket(h) PROVE Kept
  <2>1. At(h, "packet") /\ UNCHANGED <<raw, room, zips, newest>>
    BY <1>10 DEF WritePacket
  <2>2. Informed(h, call[h], "packet", last, room, zips, changes = 0) /\ call[h].kind \in DeliveryKinds
    BY <1>k, <2>1
  <2>3. DeliveryFiles' /\ Calm
    BY <1>c, <1>h, <1>m, <2>1 DEF DeliveryFiles
  <2>4. CASE call[h].kind = "pause" /\ call[h].hold.zip = 0
    <3>1. Fails(h)
      BY <1>10, <2>4 DEF WritePacket
    <3>2. Turn(h, DeliveryKinds) /\ call'[h] = Idle
      BY <2>1, <2>2, <3>1, TurnFails
    <3> QED BY <1>i, <1>z, <2>3, <3>2
  <2>5. CASE ~(call[h].kind = "pause" /\ call[h].hold.zip = 0)
    <3>1. Goes(h, call[h])
      BY <1>10, <2>5 DEF WritePacket
    <3>2. \A u : Follows("packet", u) => u = "pause"
      BY DEF Follows
    <3>3. "pause" \in StepsOf(call[h].kind) => call[h].kind = "pause"
      BY <2>2 DEF StepsOf, DeliveryKinds, Packing
    <3>4. call[h].kind = "pause" => \A end \in BOOLEAN : Informed(h, call[h], "pause", end, room', zips', changes' = 0)
      BY <1>h, <2>1, <2>2, <2>5 DEF Informed, Packing
    <3> QED BY <1>c, <1>g, <2>1, <2>3, <3>1, <3>2, <3>3, <3>4
  <2> QED BY <2>4, <2>5
<1>11. ASSUME PauseUponPacket(h) PROVE Kept
  <2>1. At(h, "pause") /\ UNCHANGED <<raw, room, zips, newest>> /\ Goes(h, call[h])
    BY <1>11 DEF PauseUponPacket
  <2>2. \A u : ~Follows("pause", u)
    BY DEF Follows
  <2>3. DeliveryFiles' /\ Calm
    BY <1>c, <1>h, <1>m, <2>1 DEF DeliveryFiles
  <2> QED BY <1>c, <1>g, <2>1, <2>2, <2>3
<1> QED BY <1>1, <1>2, <1>3, <1>4, <1>5, <1>6, <1>7, <1>8, <1>9, <1>10, <1>11, <1>12, <1>13 DEF ServeDelivery, Kept

\* At a delivery step a request knows what it needs there.
LEMMA AtDelivery ==
  ASSUME Orderly, DeliveryInv, NEW h \in Handler, NEW t, At(h, t),
         t \in {"items", "room", "copy", "manifest", "zip", "clear", "find", "packet", "pause"}
  PROVE  /\ DOMAIN call[h] = Fields /\ call[h].kind \in DeliveryKinds /\ t \in StepsOf(call[h].kind)
         /\ Informed(h, call[h], t, Tail(call[h].rest) = <<>>, room, zips, changes = 0)
<1>1. call[h].kind \in DeliveryKinds /\ t \in StepsOf(call[h].kind) /\ DOMAIN call[h] = Fields
  BY TailChained, KindOfStep DEF At, Orderly, Programmed
<1>2. Informed(h, call[h], t, Tail(call[h].rest) = <<>>, room, zips, changes = 0)
  BY <1>1 DEF DeliveryInv, DeliveryKnows, At
<1> QED BY <1>1, <1>2

\* A package that nothing overlapped is whole.
LEMMA ZipIsComplete ==
  ASSUME Orderly, DeliveryInv, NEW h \in Handler, call[h].solo, FillZip(h)
  PROVE  zips'[call[h].hold.zip].files = {<<h, i>> : i \in call[h].hold.items \cup {Manifest}}
<1> DEFINE items == call[h].hold.items \cup {Manifest}
           z     == call[h].hold.zip
           files == IF room[MyRoom(h)] = None THEN {} ELSE room[MyRoom(h)]
<1>1. At(h, "zip") /\ z # 0 /\ zips' = [zips EXCEPT ![z] = [closed |-> TRUE, files |-> files]]
  BY DEF FillZip, Filled
<1>2. Informed(h, call[h], "zip", Tail(call[h].rest) = <<>>, room, zips, changes = 0)
  BY <1>1, AtDelivery
<1>3. room[MyRoom(h)] = Packed(h, items) /\ IsHold(call[h].hold) /\ z \in 0..Len(zips)
  BY <1>2 DEF Informed, MyRoom
<1>4. items \subseteq Item
  BY <1>3 DEF IsHold, Item
<1> HIDE DEF items
<1>5. Packed(h, items) # None
  BY <1>4, PackedFiles
<1>6. files = Packed(h, items)
  BY <1>3, <1>5
<1> HIDE DEF files, z
<1>7. DOMAIN zips = 1..Len(zips) /\ Len(zips) \in Nat
  BY DEF DeliveryInv, DeliveryFiles
<1>8. z \in DOMAIN zips
  BY <1>1, <1>3, <1>7
<1>9. zips'[z] = [closed |-> TRUE, files |-> files]
  BY <1>1, <1>8
<1>10. zips'[z].files = files
  BY <1>9
<1> QED BY <1>6, <1>10 DEF Packed, items, z

\* The choice for a package has the newest result.
LEMMA ChosenHasResult ==
  ASSUME Orderly, DeliveryInv, JobInv, NEW h \in Handler, ChooseItems(h), latest # None, job[latest] = "done"
  PROVE  latest \in call'[h].hold.items
<1> DEFINE c == [call[h] EXCEPT !.hold = [items |-> PresetItems(call[h].ask), room |-> None, zip |-> 0]]
<1>1. At(h, "items") /\ Goes(h, c)
  BY DEF ChooseItems
<1>2. DOMAIN call[h] = Fields /\ call[h].kind \in DeliveryKinds
  BY <1>1, AtDelivery
<1>3. /\ DOMAIN c = Fields /\ c.kind = call[h].kind /\ c.rest = call[h].rest /\ c.solo = call[h].solo
      /\ c.hold = [items |-> PresetItems(call[h].ask), room |-> None, zip |-> 0]
  BY <1>2 DEF Fields
<1> HIDE DEF c
<1>4. call'[h] = [c EXCEPT !.rest = Tail(c.rest)]
  <2>1. "items" \notin Ends
    BY DEF Ends
  <2>2. /\ Turn(h, DeliveryKinds)
        /\ \/ call'[h] = Idle /\ "items" \in Ends
           \/ /\ call'[h] = [c EXCEPT !.rest = Tail(c.rest)]
              /\ call'[h].rest # <<>> /\ Follows("items", Head(call'[h].rest))
    <3>1. call[h].kind \in DeliveryKinds /\ At(h, "items")
      BY <1>1, <1>2
    <3> QED BY <1>1, <1>3, <3>1, TurnGoes
  <2> QED BY <2>1, <2>2
<1>5. call'[h].hold.items = PresetItems(call[h].ask)
  BY <1>3, <1>4 DEF Fields
<1>6. latest \in PresetItems(call[h].ask)
  BY LatestIsItem DEF DeliveryInv, DeliveryFiles
<1> QED BY <1>5, <1>6

\* Whoever stops the pod has a package.
LEMMA PauserHasPackage ==
  ASSUME Orderly, DeliveryInv, NEW h \in Handler, PauseUponPacket(h)
  PROVE  /\ call[h].hold.zip \in DOMAIN zips
         /\ LET zip == zips[call[h].hold.zip]
            IN  /\ call[h].ask # None \/ (call[h].solo /\ changes = 0) => zip.closed
                /\ call[h].ask # None /\ call[h].solo => {"staged", "working"} \subseteq {f[2] : f \in zip.files}
<1> DEFINE zip == zips[call[h].hold.zip]
<1>1. At(h, "pause")
  BY DEF PauseUponPacket
<1>2. /\ Informed(h, call[h], "pause", Tail(call[h].rest) = <<>>, room, zips, changes = 0)
      /\ "pause" \in StepsOf(call[h].kind) /\ call[h].kind \in DeliveryKinds
  BY <1>1, AtDelivery
<1>3. call[h].kind # "package"
  BY <1>2 DEF StepsOf, Packing
<1>4. call[h].hold.zip \in 0..Len(zips) /\ call[h].hold.zip # 0
  BY <1>2 DEF Informed
<1>5. zips \in Seq(Zip) /\ DOMAIN zips = 1..Len(zips) /\ Len(zips) \in Nat
  BY DEF DeliveryInv, DeliveryFiles
<1>6. call[h].hold.zip \in DOMAIN zips
  BY <1>4, <1>5
<1>7. call[h].ask # None \/ (call[h].solo /\ changes = 0) => zip.closed
  BY <1>2, <1>3, <1>4 DEF Informed
<1>8. ASSUME call[h].solo, call[h].ask # None
      PROVE  {"staged", "working"} \subseteq {f[2] : f \in zip.files}
  <2>1. /\ zip.files = Packed(h, call[h].hold.items \cup {Manifest})
        /\ {"staged", "working"} \subseteq call[h].hold.items
    BY <1>2, <1>3, <1>8 DEF Informed
  <2> HIDE DEF zip
  <2>2. \A i \in call[h].hold.items : <<h, i>> \in zip.files /\ <<h, i>>[2] = i
    BY <2>1 DEF Packed
  <2>3. \A i \in call[h].hold.items : \E f \in zip.files : i = f[2]
    BY <2>2, Zenon
  <2> QED BY <2>1, <2>3
<1> QED BY <1>6, <1>7, <1>8

-----------------------------------------------------------------------------
\* Intake: whose photos are where, as a request that nobody interfered with knows.
Content(text, d) ==
  CASE text.editable = "staged" -> d.staged
    [] text.editable = "proxy" -> d.proxy
    [] text.editable = "preview" -> d.preview
    [] text.editable = "rendered" -> d.rendered
    [] text.editable = "none" -> text.of

InPhotos(text, d) ==
  /\ d.staged = text.of /\ Content(text, d) = text.of
  /\ text.isp => d.linear = text.of

IsPlan(text) == DOMAIN text = {"of", "entry", "single", "editable", "isp"} /\ text.isp \in BOOLEAN

IsDisk(d) == DOMAIN d = {"uploads", "received", "staged", "proxy", "preview", "linear", "rendered"}

Taking == {"editable", "decode", "isp", "tearPlan", "plan"}

\* An intake, or an upload, that is at step s.
Takes(c, s, d) ==
  /\ c.hold.of \in Nat \ {0}
  /\ s \in {"openUploads", "receive", "stage", "editable", "decode", "isp"} => ~c.hold.isp
  /\ c.solo =>
       /\ s = "stage" /\ c.kind = "upload" => d.received = c.hold.of
       /\ s \in Taking => d.staged = c.hold.of
       /\ s = "decode" => c.hold.editable \in {"proxy", "staged"}
       /\ s \in {"decode", "isp", "tearPlan", "plan"} => Content(c.hold, d) = c.hold.of
       /\ s = "isp" => (HandsOver(c.hold.single) => d.linear = c.hold.of)
       /\ s \in {"tearPlan", "plan"} => InPhotos(c.hold, d)

\* DreamISP, of the plan it read.
Develops(c, s, d, text) ==
  /\ s = "render" => c.hold.isp
  /\ c.solo =>
       /\ s = "render" => c.hold = text
       /\ s \in {"tearPlan", "plan"} => (InPhotos(text, d) => InPhotos(c.hold, d))

Staged(c, s, d, text) ==
  /\ s # "openPlan" => IsPlan(c.hold)
  /\ c.kind # "develop" => Takes(c, s, d)
  /\ c.kind = "develop" => Develops(c, s, d, text)

IntakeKnows(h) == call[h].kind \in IntakeKinds =>
  Staged(call[h], Head(call[h].rest), disk, plan.text)

IntakeFiles == IsDisk(disk) /\ IsFile(plan) /\ IsPlan(plan.text) /\ requests \in Nat

IntakeInv == IntakeFiles /\ \A h \in Handler : IntakeKnows(h)

\* What a request knows of its photos depends on the disk and the plan only.
LEMMA StagedBy ==
  ASSUME NEW c, NEW d, NEW s, NEW there, NEW text, Staged(c, s, there, text),
         d.kind = c.kind, d.hold = c.hold, d.solo => c.solo
  PROVE  Staged(d, s, there, text)
<1>1. d.kind # "develop" => Takes(d, s, there)
  BY DEF Staged, Takes
<1>2. d.kind = "develop" => Develops(d, s, there, text)
  BY DEF Staged, Develops
<1> QED BY <1>1, <1>2 DEF Staged

\* What requests know of the photos they know as long as they are spared and nobody touches disk and plan.
LEMMA IntakeSpared ==
  ASSUME IntakeInv, Spares(IntakeKinds), UNCHANGED intake, requests' \in Nat
  PROVE  IntakeInv'
<1>1. IntakeFiles' /\ disk' = disk /\ plan' = plan
  BY DEF IntakeInv, IntakeFiles, intake
<1>2. ASSUME NEW g \in Handler, call'[g].kind \in IntakeKinds
      PROVE  Staged(call'[g], Head(call'[g].rest), disk', plan'.text)
  <2>1. Same(call'[g], call[g]) /\ (call'[g].solo => call[g].solo)
    BY <1>2 DEF Spares
  <2>2. Staged(call[g], Head(call[g].rest), disk, plan.text)
    BY <1>2, <2>1 DEF IntakeInv, IntakeKnows, Same
  <2>3. Staged(call'[g], Head(call[g].rest), disk, plan.text)
    BY <2>1, <2>2, StagedBy DEF Same
  <2> QED BY <1>1, <2>1, <2>3 DEF Same
<1> QED BY <1>1, <1>2 DEF IntakeInv, IntakeKnows

LEMMA IntakeOvertaken ==
  ASSUME IntakeInv, NEW h \in Handler, Besides(h), IntakeKnows(h)', NEW g \in Handler
  PROVE  IntakeKnows(g)'
<1> SUFFICES ASSUME g # h, call'[g].kind \in IntakeKinds
             PROVE  Staged(call'[g], Head(call'[g].rest), disk', plan'.text)
  BY DEF IntakeKnows
<1>1. Same(call'[g], call[g]) /\ ~call'[g].solo
  BY DEF Besides, IntakeKinds
<1>2. Staged(call[g], Head(call[g].rest), disk, plan.text)
  BY <1>1 DEF IntakeInv, IntakeKnows, Same
<1> DEFINE s == Head(call[g].rest)
<1>3. Head(call'[g].rest) = s
  BY <1>1 DEF Same
<1>4. call[g].kind # "develop" => Takes(call'[g], s, disk')
  BY <1>1, <1>2 DEF Staged, Takes, Same
<1>5. call[g].kind = "develop" => Develops(call'[g], s, disk', plan'.text)
  BY <1>1, <1>2 DEF Staged, Develops, Same
<1>6. s # "openPlan" => IsPlan(call'[g].hold)
  BY <1>1, <1>2 DEF Staged, Same
<1>7. call'[g].kind = call[g].kind
  BY <1>1 DEF Same
<1> QED BY <1>3, <1>4, <1>5, <1>6, <1>7 DEF Staged

-----------------------------------------------------------------------------
UploadSteps == <<"openUploads", "receive">> \o IntakeSteps \o <<"clearUploads">>
DevelopSteps == <<"openPlan", "render", "tearPlan", "plan">>

\* The programs of intake, upload and development.
LEMMA IntakePrograms ==
  /\ Chained(StepsOf("intake"), IntakeSteps) /\ IntakeSteps # <<>> /\ Head(IntakeSteps) = "stage"
  /\ Chained(StepsOf("upload"), UploadSteps) /\ UploadSteps # <<>> /\ Head(UploadSteps) = "openUploads"
  /\ Chained(StepsOf("develop"), DevelopSteps) /\ DevelopSteps # <<>> /\ Head(DevelopSteps) = "openPlan"
<1>1. \A r : Head(r) = r[1]
  OBVIOUS
<1>2. Chained(StepsOf("intake"), IntakeSteps) /\ IntakeSteps # <<>> /\ Head(IntakeSteps) = "stage"
  BY <1>1, Programs DEF Chained, Ends
<1>3. /\ {"openUploads", "receive", "clearUploads"} \subseteq StepsOf("upload")
      /\ {"openPlan", "render", "tearPlan", "plan"} \subseteq StepsOf("develop")
  BY DEF StepsOf
<1>4. /\ Follows("openUploads", "receive") /\ Follows("receive", "stage") /\ Follows("plan", "clearUploads")
      /\ Follows("openPlan", "render") /\ Follows("render", "tearPlan") /\ Follows("tearPlan", "plan")
  BY DEF Follows
<1> DEFINE two == <<"openUploads", "receive">>
           one == <<"clearUploads">>
<1>5. Ordered(StepsOf("upload"), two) /\ two # <<>> /\ two[1] = "openUploads" /\ two[Len(two)] = "receive"
  BY <1>3, <1>4, Two
<1>6. Ordered(StepsOf("upload"), one) /\ one # <<>> /\ one[1] = "clearUploads" /\ one[Len(one)] = "clearUploads"
  BY <1>3, One
<1>7. /\ Ordered(StepsOf("upload"), IntakeSteps) /\ IntakeSteps # <<>>
      /\ IntakeSteps[1] = "stage" /\ IntakeSteps[Len(IntakeSteps)] = "plan"
  BY Programs
<1> HIDE DEF two, one, DevelopSteps
<1> DEFINE w == two \o IntakeSteps
<1>8. Ordered(StepsOf("upload"), w) /\ w # <<>> /\ w[1] = "openUploads" /\ w[Len(w)] = "plan"
  BY <1>4, <1>5, <1>7, Joined
<1> HIDE DEF w
<1>9. /\ Ordered(StepsOf("upload"), w \o one) /\ w \o one # <<>> /\ (w \o one)[1] = "openUploads"
      /\ (w \o one)[Len(w \o one)] = "clearUploads"
  BY <1>4, <1>6, <1>8, Joined
<1>10. UploadSteps = w \o one
  BY DEF UploadSteps, w, two, one
<1>11. Chained(StepsOf("upload"), UploadSteps) /\ UploadSteps # <<>> /\ Head(UploadSteps) = "openUploads"
  BY <1>1, <1>9, <1>10 DEF Chained, Ends
<1>12. /\ Ordered(StepsOf("develop"), DevelopSteps) /\ DevelopSteps # <<>> /\ DevelopSteps[1] = "openPlan"
       /\ DevelopSteps[Len(DevelopSteps)] = "plan"
  BY <1>3, <1>4, Four DEF DevelopSteps
<1>13. Chained(StepsOf("develop"), DevelopSteps) /\ DevelopSteps # <<>> /\ Head(DevelopSteps) = "openPlan"
  BY <1>1, <1>12 DEF Chained, Ends
<1> QED BY <1>2, <1>11, <1>13

\* The engine hands over what it has from the sensor, or from the preview that was found.
LEMMA HandedOver ==
  ASSUME NEW mode, NEW decodes \in BOOLEAN, NEW found \in BOOLEAN, HandsOver(Materialized(mode, decodes, found))
  PROVE  Materialized(mode, decodes, found).source = "sensor" \/ found
<1>1. CASE decodes
  BY <1>1 DEF Materialized, SensorDecoded
<1>2. CASE ~decodes /\ ~found
  BY <1>2 DEF Materialized, Planned, HandsOver
<1> QED BY <1>1, <1>2

LEMMA NothingHandedOver == ~HandsOver(Planned)
BY DEF Planned, HandsOver

Uploading == {"openUploads", "receive", "clearUploads"}
Reading   == {"stage", "editable", "decode", "isp"}
IntakeDoes == Uploading \cup Reading \cup {"openPlan", "render", "tearPlan", "plan"}

\* Which steps are of which kind of intake.
LEMMA IntakeStepKinds ==
  /\ \A k : \A t \in Uploading : t \in StepsOf(k) => k = "upload"
  /\ \A k : \A t \in Reading : t \in StepsOf(k) => k \in {"intake", "upload"}
  /\ \A k : \A t \in {"openPlan", "render"} : t \in StepsOf(k) => k = "develop"
  /\ \A k : \A t \in {"tearPlan", "plan"} : t \in StepsOf(k) => k \in IntakeKinds
<1> USE DEF Linking, Packing, Staging, IntakeKinds
<1>1. ASSUME NEW k, NEW t \in Uploading, t \in StepsOf(k) PROVE k = "upload"
  BY <1>1 DEF StepsOf, Uploading
<1>2. ASSUME NEW k, NEW t \in Reading, t \in StepsOf(k) PROVE k \in {"intake", "upload"}
  BY <1>2 DEF StepsOf, Reading
<1>3. ASSUME NEW k, NEW t \in {"openPlan", "render"}, t \in StepsOf(k) PROVE k = "develop"
  BY <1>3 DEF StepsOf
<1>4. ASSUME NEW k, NEW t \in {"tearPlan", "plan"}, t \in StepsOf(k) PROVE k \in IntakeKinds
  BY <1>4 DEF StepsOf
<1> QED BY <1>1, <1>2, <1>3, <1>4

\* At an intake step a request knows what it needs there.
LEMMA AtIntake ==
  ASSUME Orderly, IntakeInv, NEW h \in Handler, NEW t, At(h, t), t \in IntakeDoes
  PROVE  /\ DOMAIN call[h] = Fields /\ call[h].solo \in BOOLEAN /\ call[h].kind \in IntakeKinds
         /\ t \in Uploading => call[h].kind = "upload"
         /\ t \in Reading => call[h].kind \in {"intake", "upload"}
         /\ t \in {"openPlan", "render"} => call[h].kind = "develop"
         /\ Staged(call[h], t, disk, plan.text)
<1>1. t \in StepsOf(call[h].kind) /\ DOMAIN call[h] = Fields /\ call[h].solo \in BOOLEAN
  BY TailChained DEF At, Orderly, Programmed
<1>2. call[h].kind \in IntakeKinds
  BY <1>1, IntakeStepKinds DEF IntakeDoes, IntakeKinds
<1>3. Staged(call[h], t, disk, plan.text)
  BY <1>2 DEF IntakeInv, IntakeKnows, At
<1> QED BY <1>1, <1>2, <1>3, IntakeStepKinds

Takings(h) == OpenUploads(h) \/ Receive(h) \/ Stage(h) \/ PrepareEditable(h) \/ DecodeRaw(h) \/ HandToISP(h)
Writings(h) == TearPlan(h) \/ WritePlan(h) \/ ClearUploads(h) \/ OpenPlan(h) \/ Render(h)

\* A step that tells the request what its next one needs keeps the intake.
LEMMA IntakeGoes ==
  ASSUME Orderly, IntakeInv, NEW h \in Handler, NEW t, At(h, t), t \in IntakeDoes, NEW c, DOMAIN c = Fields,
         c.kind = call[h].kind, c.rest = call[h].rest, c.solo = call[h].solo, Goes(h, c),
         \A u : Follows(t, u) /\ u \in StepsOf(c.kind) => Staged(c, u, disk', plan'.text),
         IntakeFiles'
  PROVE  Turn(h, IntakeKinds) /\ IntakeInv'
<1>0. call[h].kind \in IntakeKinds
  BY AtIntake
<1>1. /\ Turn(h, IntakeKinds)
      /\ \/ call'[h] = Idle
         \/ /\ call'[h] = [c EXCEPT !.rest = Tail(c.rest)]
            /\ call'[h].rest # <<>> /\ Follows(t, Head(call'[h].rest))
  BY <1>0, TurnGoes
<1>2. IntakeKnows(h)'
  <2>1. CASE call'[h] = Idle
    BY <2>1, IdleProgrammed DEF IntakeKnows, IntakeKinds
  <2>2. CASE call'[h] # Idle
    <3>1. call'[h].kind = c.kind /\ call'[h].hold = c.hold /\ call'[h].solo = c.solo
      BY <1>1, <2>2 DEF Fields
    <3> DEFINE u == Head(call'[h].rest)
    <3>2. u \in StepsOf(c.kind)
      BY <1>1, <2>2, <3>1, TailChained DEF Turn, Goal, Orderly, Programmed
    <3>3. Staged(c, u, disk', plan'.text)
      BY <1>1, <2>2, <3>2
    <3> HIDE DEF u
    <3>4. Staged(call'[h], u, disk', plan'.text)
      BY <3>1, <3>3, StagedBy
    <3> QED BY <3>4 DEF IntakeKnows, u
  <2> QED BY <2>1, <2>2
<1>3. \A g \in Handler : IntakeKnows(g)'
  BY <1>1, <1>2, IntakeOvertaken DEF Turn, Goal
<1> QED BY <1>1, <1>3 DEF IntakeInv

LEMMA IntakeEnds ==
  ASSUME Orderly, IntakeInv, NEW h \in Handler, NEW t, At(h, t), t \in IntakeDoes, Fails(h), IntakeFiles'
  PROVE  Turn(h, IntakeKinds) /\ IntakeInv'
<1>0. call[h].kind \in IntakeKinds
  BY AtIntake
<1>1. Turn(h, IntakeKinds) /\ call'[h] = Idle
  BY <1>0, TurnFails
<1>2. IntakeKnows(h)'
  BY <1>1, IdleProgrammed DEF IntakeKnows, IntakeKinds
<1>3. \A g \in Handler : IntakeKnows(g)'
  BY <1>1, <1>2, IntakeOvertaken DEF Turn, Goal
<1> QED BY <1>1, <1>3 DEF IntakeInv

\* An upload that is refused still clears its directory.
LEMMA IntakeRefused ==
  ASSUME Orderly, IntakeInv, NEW h \in Handler, NEW t, At(h, t), t \in Reading, Refuses(h), IntakeFiles', UNCHANGED intake
  PROVE  Turn(h, IntakeKinds) /\ IntakeInv'
<1>0. t \in IntakeDoes
  BY DEF IntakeDoes
<1>1. CASE call[h].kind # "upload"
  BY <1>0, <1>1, IntakeEnds DEF Refuses
<1>2. CASE call[h].kind = "upload"
  <2>1. Staged(call[h], t, disk, plan.text) /\ DOMAIN call[h] = Fields /\ call[h].kind \in IntakeKinds
    BY <1>0, AtIntake
  <2> DEFINE c == [call[h] EXCEPT !.rest = <<"clearUploads">>]
  <2>2. Stays(h, c)
    BY <1>2 DEF Refuses
  <2>3. /\ DOMAIN c = Fields /\ c.kind = call[h].kind /\ c.solo = call[h].solo /\ c.rest = <<"clearUploads">>
        /\ c.hold = call[h].hold
    BY <2>1 DEF Fields
  <2> HIDE DEF c
  <2>4. Chained(StepsOf(c.kind), c.rest) /\ c.rest # <<>> /\ Head(c.rest) = "clearUploads"
    <3>1. "clearUploads" \in StepsOf(c.kind)
      BY <1>2, <2>3 DEF StepsOf
    <3> QED BY <2>3, <3>1, LastStep DEF Ends
  <2>5. Turn(h, IntakeKinds) /\ call'[h] = c
    BY <2>1, <2>2, <2>3, <2>4, TurnStays
  <2>6. disk' = disk /\ plan' = plan
    BY DEF intake
  <2>7. Staged(c, "clearUploads", disk', plan'.text)
    BY <1>2, <2>1, <2>3 DEF Staged, Takes, Taking, Reading
  <2>8. IntakeKnows(h)'
    BY <2>4, <2>5, <2>7 DEF IntakeKnows
  <2>9. \A g \in Handler : IntakeKnows(g)'
    BY <2>5, <2>8, IntakeOvertaken DEF Turn, Goal
  <2> QED BY <2>5, <2>9 DEF IntakeInv
<1> QED BY <1>1, <1>2

\* Whoever begins knows nothing yet, or, of a plan on file, that it is of its photos.
LEMMA IntakeBegins ==
  ASSUME Orderly, IntakeInv, NEW h \in Handler, BeginIntake(h) \/ BeginDevelop(h)
  PROVE  Turn(h, IntakeKinds) /\ IntakeInv'
<1> DEFINE Kept == Turn(h, IntakeKinds) /\ IntakeInv'
<1>0. UNCHANGED intake
  <2>1. CASE BeginIntake(h)
    BY <2>1, Zenon DEF BeginIntake
  <2>2. CASE BeginDevelop(h)
    BY <2>2, Zenon DEF BeginDevelop
  <2> QED BY <2>1, <2>2
<1>b. ASSUME NEW c, Begins(h, c), DOMAIN c = Fields, c.kind \in IntakeKinds, Chained(StepsOf(c.kind), c.rest),
             c.rest # <<>>,
             \A d : d.kind = c.kind /\ d.hold = c.hold => Staged(d, Head(c.rest), disk, plan.text)
      PROVE  Kept
  <2>1. Turn(h, IntakeKinds) /\ call'[h] = [c EXCEPT !.solo = call'[h].solo]
    BY <1>b, TurnBegins DEF IntakeKinds
  <2>2. call'[h].kind = c.kind /\ call'[h].hold = c.hold /\ call'[h].rest = c.rest
    BY <1>b, <2>1 DEF Fields
  <2>3. disk' = disk /\ plan' = plan /\ requests' = requests + 1
    BY <1>0, <1>b DEF intake, Begins
  <2>4. IntakeFiles'
    BY <2>3 DEF IntakeInv, IntakeFiles
  <2>5. IntakeKnows(h)'
    BY <1>b, <2>2, <2>3 DEF IntakeKnows
  <2>6. \A g \in Handler : IntakeKnows(g)'
    BY <2>1, <2>5, IntakeOvertaken DEF Turn, Goal
  <2> QED BY <2>1, <2>4, <2>6 DEF IntakeInv
<1>1. ASSUME NEW c, NEW kind, kind \in {"intake", "upload"}, Begins(h, c), DOMAIN c = Fields, c.kind = kind,
             c.rest = (IF kind = "upload" THEN UploadSteps ELSE IntakeSteps), c.hold = [NoPlan EXCEPT !.of = requests + 1]
      PROVE  Kept
  <2>1. /\ Chained(StepsOf(c.kind), c.rest) /\ c.rest # <<>>
        /\ Head(c.rest) = IF kind = "upload" THEN "openUploads" ELSE "stage"
    BY <1>1, IntakePrograms
  <2>2. IsPlan(c.hold) /\ c.hold.of = requests + 1 /\ ~c.hold.isp
    BY <1>1 DEF IsPlan, NoPlan
  <2>3. c.hold.of \in Nat \ {0}
    BY <2>2 DEF IntakeInv, IntakeFiles
  <2>4. \A d : d.kind = c.kind /\ d.hold = c.hold => Staged(d, Head(c.rest), disk, plan.text)
    BY <1>1, <2>1, <2>2, <2>3 DEF Staged, Takes, Taking
  <2> QED BY <1>1, <1>b, <2>1, <2>4 DEF IntakeKinds
<1>2. ASSUME NEW c, Begins(h, c), DOMAIN c = Fields, c.kind = "develop", c.rest = DevelopSteps
      PROVE  Kept
  <2>1. Chained(StepsOf(c.kind), c.rest) /\ c.rest # <<>> /\ Head(c.rest) = "openPlan"
    BY <1>2, IntakePrograms
  <2>2. \A d : d.kind = c.kind => Staged(d, Head(c.rest), disk, plan.text)
    BY <1>2, <2>1 DEF Staged, Develops
  <2> QED BY <1>2, <1>b, <2>1, <2>2 DEF IntakeKinds
<1> HIDE DEF Kept
<1>3. ASSUME NEW kind \in {"intake", "upload"}, NEW a,
             Begins(h, [Idle EXCEPT !.kind = kind, !.rest = IF kind = "upload" THEN UploadSteps ELSE IntakeSteps,
                                    !.ask = a, !.hold = [NoPlan EXCEPT !.of = requests + 1]])
      PROVE  Kept
  <2> DEFINE r == IF kind = "upload" THEN UploadSteps ELSE IntakeSteps
             p == [NoPlan EXCEPT !.of = requests + 1]
             c == [Idle EXCEPT !.kind = kind, !.rest = r, !.ask = a, !.hold = p]
  <2>1. Begins(h, c)
    BY <1>3
  <2> HIDE DEF r, p
  <2>2. DOMAIN c = Fields /\ c.kind = kind /\ c.rest = r /\ c.hold = p
    BY DEF Idle, Fields
  <2> HIDE DEF c
  <2> QED BY <1>1, <2>1, <2>2 DEF r, p
<1>4. ASSUME BeginIntake(h) PROVE Kept
  BY <1>3, <1>4, Zenon DEF BeginIntake, UploadSteps
<1>5. ASSUME BeginDevelop(h) PROVE Kept
  <2> DEFINE c == [Idle EXCEPT !.kind = "develop", !.rest = DevelopSteps]
  <2>1. Begins(h, c)
    BY <1>5, Zenon DEF BeginDevelop, DevelopSteps
  <2>2. DOMAIN c = Fields /\ c.kind = "develop" /\ c.rest = DevelopSteps
    BY DEF Idle, Fields
  <2> HIDE DEF c
  <2> QED BY <1>2, <2>1, <2>2
<1> QED BY <1>4, <1>5 DEF Kept

\* The steps that receive, stage and read photos keep the intake.
LEMMA TakeStep ==
  ASSUME Orderly, IntakeInv, NEW h \in Handler, Takings(h)
  PROVE  Turn(h, IntakeKinds) /\ IntakeInv'
<1> DEFINE Kept == Turn(h, IntakeKinds) /\ IntakeInv'
           c0 == call[h]
<1>f. IsDisk(disk) /\ IsFile(plan) /\ IsPlan(plan.text) /\ requests \in Nat
  BY DEF IntakeInv, IntakeFiles
<1>d. ASSUME IsDisk(disk'), plan' = plan, UNCHANGED scounts PROVE IntakeFiles'
  BY <1>d, <1>f DEF IntakeFiles, scounts
<1>t. \A t \in Uploading \cup Reading : t \in IntakeDoes
  BY DEF IntakeDoes
<1>1. ASSUME OpenUploads(h) PROVE Kept
  <2>1. At(h, "openUploads") /\ disk' = [disk EXCEPT !.uploads = TRUE] /\ plan' = plan /\ Goes(h, call[h]) /\ UNCHANGED scounts
    BY <1>1 DEF OpenUploads
  <2>2. DOMAIN call[h] = Fields /\ call[h].kind = "upload" /\ Staged(call[h], "openUploads", disk, plan.text)
    BY <2>1, <1>t, AtIntake DEF Uploading
  <2>3. IntakeFiles'
    BY <1>d, <1>f, <2>1 DEF IsDisk
  <2>4. Staged(call[h], "receive", disk', plan'.text)
    BY <2>2 DEF Staged, Takes, Taking
  <2>5. \A u : Follows("openUploads", u) => u = "receive"
    BY DEF Follows
  <2>6. \A u : Follows("openUploads", u) /\ u \in StepsOf(call[h].kind) => Staged(call[h], u, disk', plan'.text)
    BY <2>4, <2>5
  <2> QED BY <2>1, <2>2, <2>3, <2>6, <1>t, IntakeGoes DEF Uploading
<1>2. ASSUME Receive(h) PROVE Kept
  <2>1. At(h, "receive") /\ plan' = plan /\ UNCHANGED scounts
    BY <1>2 DEF Receive
  <2>2. DOMAIN call[h] = Fields /\ call[h].kind = "upload" /\ Staged(call[h], "receive", disk, plan.text)
    BY <2>1, <1>t, AtIntake DEF Uploading
  <2>3. CASE disk.uploads
    <3>1. disk' = [disk EXCEPT !.received = Mine(h)] /\ Goes(h, call[h])
      BY <1>2, <2>3 DEF Receive
    <3>2. IntakeFiles' /\ disk'.received = call[h].hold.of
      BY <1>d, <1>f, <2>1, <3>1 DEF IsDisk, Mine
    <3>3. Staged(call[h], "stage", disk', plan'.text)
      BY <2>2, <3>2 DEF Staged, Takes, Taking
    <3>4. \A u : Follows("receive", u) => u = "stage"
      BY DEF Follows
    <3>5. \A u : Follows("receive", u) /\ u \in StepsOf(call[h].kind) => Staged(call[h], u, disk', plan'.text)
      BY <3>3, <3>4
    <3> QED BY <2>1, <2>2, <3>1, <3>2, <3>5, <1>t, IntakeGoes DEF Uploading
  <2>4. CASE ~disk.uploads
    <3>1. Fails(h) /\ disk' = disk
      BY <1>2, <2>4 DEF Receive
    <3>2. IntakeFiles'
      BY <1>d, <1>f, <2>1, <3>1
    <3> QED BY <2>1, <3>1, <3>2, <1>t, IntakeEnds DEF Uploading
  <2> QED BY <2>3, <2>4
<1>3. ASSUME Stage(h) PROVE Kept
  <2>1. At(h, "stage") /\ plan' = plan /\ UNCHANGED scounts
    BY <1>3 DEF Stage
  <2>2. /\ DOMAIN call[h] = Fields /\ call[h].kind \in {"intake", "upload"}
        /\ Staged(call[h], "stage", disk, plan.text)
    BY <2>1, <1>t, AtIntake DEF Reading
  <2> DEFINE refused == call[h].ask.entry = "refused" \/ (call[h].kind = "upload" /\ disk.received = 0)
  <2>3. CASE refused
    <3>1. Refuses(h) /\ disk' = disk
      BY <1>3, <2>3 DEF Stage
    <3>2. IntakeFiles' /\ UNCHANGED intake
      BY <1>d, <1>f, <2>1, <3>1 DEF intake
    <3> QED BY <2>1, <3>1, <3>2, IntakeRefused DEF Reading
  <2>4. CASE ~refused
    <3> DEFINE c == [call[h] EXCEPT !.hold.entry = call[h].ask.entry]
    <3>1. /\ Goes(h, c)
          /\ disk' = [disk EXCEPT !.staged = IF call[h].kind = "upload" THEN disk.received ELSE Mine(h)]
      BY <1>3, <2>4 DEF Stage
    <3>2. IsPlan(call[h].hold)
      BY <2>2 DEF Staged
    <3>3. /\ DOMAIN c = Fields /\ c.kind = call[h].kind /\ c.rest = call[h].rest /\ c.solo = call[h].solo
          /\ c.hold = [call[h].hold EXCEPT !.entry = call[h].ask.entry]
      BY <2>2 DEF Fields
    <3> HIDE DEF c
    <3>4. IsPlan(c.hold) /\ c.hold.of = call[h].hold.of /\ c.hold.isp = call[h].hold.isp
      BY <3>2, <3>3 DEF IsPlan
    <3>5. IntakeFiles' /\ disk'.staged = (IF call[h].kind = "upload" THEN disk.received ELSE call[h].hold.of)
      BY <1>d, <1>f, <2>1, <3>1 DEF IsDisk, Mine
    <3>6. Staged(c, "editable", disk', plan'.text)
      BY <2>2, <3>3, <3>4, <3>5 DEF Staged, Takes, Taking
    <3>7. \A u : Follows("stage", u) => u = "editable"
      BY DEF Follows
    <3>8. \A u : Follows("stage", u) /\ u \in StepsOf(c.kind) => Staged(c, u, disk', plan'.text)
      BY <3>6, <3>7
    <3> QED BY <2>1, <3>1, <3>3, <3>5, <3>8, <1>t, IntakeGoes DEF Reading
  <2> QED BY <2>3, <2>4
<1>4. ASSUME PrepareEditable(h) PROVE Kept
  <2>1. At(h, "editable") /\ plan' = plan /\ UNCHANGED scounts
    BY <1>4, Zenon DEF PrepareEditable
  <2>2. /\ DOMAIN call[h] = Fields /\ call[h].kind \in {"intake", "upload"}
        /\ Staged(call[h], "editable", disk, plan.text)
    BY <2>1, <1>t, AtIntake DEF Reading
  <2>3. PICK found : /\ disk' = [disk EXCEPT !.proxy = IF found THEN disk.staged ELSE @]
                     /\ Goes(h, [call[h] EXCEPT !.hold.editable = IF found THEN "proxy" ELSE "staged"])
    BY <1>4, Zenon DEF PrepareEditable
  <2> DEFINE e == IF found THEN "proxy" ELSE "staged"
             c == [call[h] EXCEPT !.hold.editable = e]
  <2>4. Goes(h, c)
    BY <2>3
  <2> HIDE DEF e
  <2>5. IsPlan(call[h].hold)
    BY <2>2 DEF Staged
  <2>6. /\ DOMAIN c = Fields /\ c.kind = call[h].kind /\ c.rest = call[h].rest /\ c.solo = call[h].solo
        /\ c.hold = [call[h].hold EXCEPT !.editable = e]
    BY <2>2 DEF Fields
  <2> HIDE DEF c
  <2>7. /\ IsPlan(c.hold) /\ c.hold.of = call[h].hold.of /\ c.hold.isp = call[h].hold.isp
        /\ c.hold.editable = IF found THEN "proxy" ELSE "staged"
    BY <2>5, <2>6 DEF IsPlan, e
  <2>8. IntakeFiles' /\ disk'.staged = disk.staged /\ disk'.proxy = (IF found THEN disk.staged ELSE disk.proxy)
    BY <1>d, <1>f, <2>1, <2>3 DEF IsDisk
  <2>9. Content(c.hold, disk') = disk'.staged
    BY <2>7, <2>8 DEF Content
  <2>10. Staged(c, "decode", disk', plan'.text)
    <3>1. call[h].hold.of \in Nat \ {0} /\ ~call[h].hold.isp /\ (call[h].solo => disk.staged = call[h].hold.of)
      BY <2>2 DEF Staged, Takes, Taking
    <3> QED BY <2>2, <2>6, <2>7, <2>8, <2>9, <3>1 DEF Staged, Takes, Taking
  <2>11. \A u : Follows("editable", u) => u = "decode"
    BY DEF Follows
  <2>12. \A u : Follows("editable", u) /\ u \in StepsOf(c.kind) => Staged(c, u, disk', plan'.text)
    BY <2>10, <2>11
  <2> QED BY <2>1, <2>4, <2>6, <2>8, <2>12, <1>t, IntakeGoes DEF Reading
<1>5. ASSUME DecodeRaw(h) PROVE Kept
  <2>1. At(h, "decode") /\ plan' = plan /\ UNCHANGED scounts
    BY <1>5, Zenon DEF DecodeRaw
  <2>2. /\ DOMAIN call[h] = Fields /\ call[h].kind \in {"intake", "upload"}
        /\ Staged(call[h], "decode", disk, plan.text)
    BY <2>1, <1>t, AtIntake DEF Reading
  <2>3. CASE Refuses(h) /\ UNCHANGED disk
    <3>1. IntakeFiles' /\ UNCHANGED intake
      BY <1>d, <1>f, <2>1, <2>3 DEF intake
    <3> QED BY <2>1, <2>3, <3>1, IntakeRefused DEF Reading
  <2>4. ASSUME NEW decodes \in BOOLEAN, NEW single, NEW bytes,
               single = (IF call[h].hold.entry # "direct_edit_raw" THEN Planned
                         ELSE Materialized(call[h].ask.mode, decodes, call[h].hold.editable = "proxy")),
               bytes = (IF single.source = "sensor" THEN disk.staged ELSE disk.proxy),
               disk' = (IF HandsOver(single) THEN [disk EXCEPT !.preview = bytes, !.linear = bytes] ELSE disk),
               Goes(h, [call[h] EXCEPT !.hold.single = single,
                                       !.hold.editable = IF HandsOver(single) THEN "preview" ELSE @])
        PROVE  Kept
    <3> DEFINE e == IF HandsOver(single) THEN "preview" ELSE call[h].hold.editable
               c == [call[h] EXCEPT !.hold.single = single, !.hold.editable = e]
    <3>1. Goes(h, c)
      BY <2>4
    <3> HIDE DEF e
    <3>2. /\ DOMAIN c = Fields /\ c.kind = call[h].kind /\ c.rest = call[h].rest /\ c.solo = call[h].solo
          /\ c.hold = [call[h].hold EXCEPT !.single = single, !.editable = e]
      BY <2>2 DEF Fields
    <3> HIDE DEF c
    <3>3. IsPlan(call[h].hold) /\ call[h].hold.of \in Nat \ {0} /\ ~call[h].hold.isp
      BY <2>2 DEF Staged, Takes
    <3>4. /\ IsPlan(c.hold) /\ c.hold.of = call[h].hold.of /\ c.hold.isp = call[h].hold.isp
          /\ c.hold.single = single /\ c.hold.editable = e
      BY <3>2, <3>3 DEF IsPlan
    <3>5. IntakeFiles'
      BY <1>d, <1>f, <2>1, <2>4 DEF IsDisk
    <3>6. ASSUME call[h].solo, HandsOver(single)
          PROVE  disk'.staged = call[h].hold.of /\ Content(c.hold, disk') = call[h].hold.of /\ disk'.linear = call[h].hold.of
      <4>1. disk' = [disk EXCEPT !.preview = bytes, !.linear = bytes]
        BY <2>4, <3>6
      <4>2. disk'.staged = disk.staged /\ disk'.preview = bytes /\ disk'.linear = bytes
        BY <1>f, <4>1 DEF IsDisk
      <4>3. /\ disk.staged = call[h].hold.of /\ Content(call[h].hold, disk) = call[h].hold.of
        BY <2>2, <3>6 DEF Staged, Takes, Taking
      <4>4. bytes = call[h].hold.of
        <5>1. single = Materialized(call[h].ask.mode, decodes, call[h].hold.editable = "proxy")
          BY <2>4, <3>6, NothingHandedOver
        <5>2. single.source = "sensor" \/ call[h].hold.editable = "proxy"
          BY <3>6, <5>1, HandedOver
        <5> QED BY <2>4, <4>3, <5>2 DEF Content
      <4>5. c.hold.editable = "preview"
        BY <3>4, <3>6 DEF e
      <4> QED BY <4>2, <4>3, <4>4, <4>5 DEF Content
    <3>7. ASSUME call[h].solo, ~HandsOver(single)
          PROVE  disk'.staged = call[h].hold.of /\ Content(c.hold, disk') = call[h].hold.of
      <4>1. disk' = disk /\ c.hold.editable = call[h].hold.editable
        BY <2>4, <3>4, <3>7 DEF e
      <4> QED BY <2>2, <3>4, <3>7, <4>1 DEF Staged, Takes, Taking, Content
    <3>8. Staged(c, "isp", disk', plan'.text)
      BY <2>2, <3>2, <3>3, <3>4, <3>6, <3>7 DEF Staged, Takes, Taking
    <3>9. \A u : Follows("decode", u) => u = "isp"
      BY DEF Follows
    <3>10. \A u : Follows("decode", u) /\ u \in StepsOf(c.kind) => Staged(c, u, disk', plan'.text)
      BY <3>8, <3>9
    <3> QED BY <2>1, <3>1, <3>2, <3>5, <3>10, <1>t, IntakeGoes DEF Reading
  <2> HIDE DEF Kept
  <2>5. ASSUME NEW decodes \in (IF call[h].hold.entry = "direct_edit_raw" THEN BOOLEAN ELSE {FALSE})
        PROVE  decodes \in BOOLEAN
    OBVIOUS
  <2> QED BY <1>5, <2>3, <2>4, <2>5, Zenon DEF DecodeRaw
<1>6. ASSUME HandToISP(h) PROVE Kept
  <2>1. At(h, "isp") /\ plan' = plan /\ UNCHANGED scounts
    BY <1>6 DEF HandToISP
  <2>2. /\ DOMAIN call[h] = Fields /\ call[h].kind \in {"intake", "upload"}
        /\ Staged(call[h], "isp", disk, plan.text)
    BY <2>1, <1>t, AtIntake DEF Reading
  <2>3. IsPlan(call[h].hold) /\ call[h].hold.of \in Nat \ {0} /\ ~call[h].hold.isp
    BY <2>2 DEF Staged, Takes
  <2>n. \A u : Follows("isp", u) => u = "tearPlan"
    BY DEF Follows
  <2>4. CASE HandsOver(call[h].hold.single)
    <3> DEFINE c == [call[h] EXCEPT !.hold.editable = "rendered", !.hold.isp = TRUE]
    <3>1. Goes(h, c) /\ disk' = [disk EXCEPT !.rendered = Developed(call[h].hold)]
      BY <1>6, <2>4 DEF HandToISP
    <3>2. /\ DOMAIN c = Fields /\ c.kind = call[h].kind /\ c.rest = call[h].rest /\ c.solo = call[h].solo
          /\ c.hold = [call[h].hold EXCEPT !.editable = "rendered", !.isp = TRUE]
      BY <2>2 DEF Fields
    <3> HIDE DEF c
    <3>3. /\ IsPlan(c.hold) /\ c.hold.of = call[h].hold.of /\ c.hold.editable = "rendered"
      BY <2>3, <3>2 DEF IsPlan
    <3>4. /\ IntakeFiles' /\ disk'.staged = disk.staged /\ disk'.linear = disk.linear
          /\ disk'.rendered = Developed(call[h].hold)
      BY <1>d, <1>f, <2>1, <3>1 DEF IsDisk
    <3>5. ASSUME call[h].solo PROVE InPhotos(c.hold, disk') /\ Content(c.hold, disk') = c.hold.of
      <4>1. disk.staged = call[h].hold.of /\ disk.linear = call[h].hold.of
        BY <2>2, <2>4, <3>5 DEF Staged, Takes, Taking
      <4>2. Developed(call[h].hold) = call[h].hold.of
        BY <2>3, <4>1 DEF Developed
      <4> QED BY <3>3, <3>4, <4>1, <4>2 DEF InPhotos, Content
    <3>6. Staged(c, "tearPlan", disk', plan'.text)
      BY <2>2, <2>3, <3>2, <3>3, <3>5 DEF Staged, Takes, Taking, InPhotos
    <3>7. \A u : Follows("isp", u) /\ u \in StepsOf(c.kind) => Staged(c, u, disk', plan'.text)
      BY <2>n, <3>6
    <3> QED BY <2>1, <3>1, <3>2, <3>4, <3>7, <1>t, IntakeGoes DEF Reading
  <2>5. CASE ~HandsOver(call[h].hold.single)
    <3>1. Goes(h, call[h]) /\ disk' = disk
      BY <1>6, <2>5 DEF HandToISP
    <3>2. IntakeFiles'
      BY <1>d, <1>f, <2>1, <3>1
    <3>3. Staged(call[h], "tearPlan", disk', plan'.text)
      BY <2>2, <2>3, <3>1 DEF Staged, Takes, Taking, InPhotos
    <3>4. \A u : Follows("isp", u) /\ u \in StepsOf(call[h].kind) => Staged(call[h], u, disk', plan'.text)
      BY <2>n, <3>3
    <3> QED BY <2>1, <2>2, <3>1, <3>2, <3>4, <1>t, IntakeGoes DEF Reading
  <2> QED BY <2>4, <2>5
<1> QED BY <1>1, <1>2, <1>3, <1>4, <1>5, <1>6 DEF Takings

\* So do those that render and write the plan.
LEMMA WriteStep ==
  ASSUME Orderly, IntakeInv, NEW h \in Handler, Writings(h)
  PROVE  Turn(h, IntakeKinds) /\ IntakeInv'
<1> DEFINE Kept == Turn(h, IntakeKinds) /\ IntakeInv'
<1>f. IsDisk(disk) /\ IsFile(plan) /\ IsPlan(plan.text) /\ requests \in Nat
  BY DEF IntakeInv, IntakeFiles
<1>d. ASSUME IsDisk(disk'), IsFile(plan'), IsPlan(plan'.text), UNCHANGED scounts PROVE IntakeFiles'
  BY <1>d, <1>f DEF IntakeFiles, scounts
<1>t. /\ \A t \in {"tearPlan", "plan", "clearUploads", "openPlan", "render"} : t \in IntakeDoes
      /\ "clearUploads" \in Uploading
  BY DEF IntakeDoes, Uploading
<1>1. ASSUME TearPlan(h) PROVE Kept
  <2>1. At(h, "tearPlan") /\ plan' = Torn(plan) /\ disk' = disk /\ Goes(h, call[h]) /\ UNCHANGED scounts
    BY <1>1 DEF TearPlan
  <2>2. DOMAIN call[h] = Fields /\ call[h].kind \in IntakeKinds /\ Staged(call[h], "tearPlan", disk, plan.text)
    BY <2>1, <1>t, AtIntake
  <2>3. plan'.text = plan.text /\ IsFile(plan')
    BY <1>f, <2>1 DEF Torn, IsFile
  <2>4. IntakeFiles'
    BY <1>d, <1>f, <2>1, <2>3
  <2>5. Staged(call[h], "plan", disk', plan'.text)
    BY <2>1, <2>2, <2>3 DEF Staged, Takes, Taking, Develops
  <2>6. \A u : Follows("tearPlan", u) => u = "plan"
    BY DEF Follows
  <2>7. \A u : Follows("tearPlan", u) /\ u \in StepsOf(call[h].kind) => Staged(call[h], u, disk', plan'.text)
    BY <2>5, <2>6
  <2> QED BY <2>1, <2>2, <2>4, <2>7, <1>t, IntakeGoes
<1>2. ASSUME WritePlan(h) PROVE Kept
  <2>1. At(h, "plan") /\ plan' = File(call[h].hold) /\ disk' = disk /\ Goes(h, call[h]) /\ UNCHANGED scounts
    BY <1>2 DEF WritePlan
  <2>2. DOMAIN call[h] = Fields /\ call[h].kind \in IntakeKinds /\ Staged(call[h], "plan", disk, plan.text)
    BY <2>1, <1>t, AtIntake
  <2>3. plan'.text = call[h].hold /\ IsFile(plan') /\ IsPlan(call[h].hold)
    BY <2>1, <2>2 DEF File, IsFile, Staged
  <2>4. IntakeFiles'
    BY <1>d, <1>f, <2>1, <2>3
  <2>5. \A u : Follows("plan", u) => u = "clearUploads"
    BY DEF Follows
  <2>6. \A u : Follows("plan", u) /\ u \in StepsOf(call[h].kind) => Staged(call[h], u, disk', plan'.text)
    <3> SUFFICES ASSUME "clearUploads" \in StepsOf(call[h].kind)
                 PROVE  Staged(call[h], "clearUploads", disk', plan'.text)
      BY <2>5
    <3>1. call[h].kind = "upload"
      BY <1>t, IntakeStepKinds
    <3> QED BY <2>2, <3>1 DEF Staged, Takes, Taking
  <2> QED BY <2>1, <2>2, <2>4, <2>6, <1>t, IntakeGoes
<1>3. ASSUME ClearUploads(h) PROVE Kept
  <2>1. At(h, "clearUploads") /\ disk' = [disk EXCEPT !.uploads = FALSE, !.received = 0] /\ plan' = plan
        /\ Goes(h, call[h]) /\ UNCHANGED scounts
    BY <1>3 DEF ClearUploads
  <2>2. DOMAIN call[h] = Fields /\ call[h].kind \in IntakeKinds
    BY <2>1, <1>t, AtIntake
  <2>3. IntakeFiles'
    BY <1>d, <1>f, <2>1 DEF IsDisk
  <2>4. \A u : ~Follows("clearUploads", u)
    BY DEF Follows
  <2> QED BY <2>1, <2>2, <2>3, <2>4, <1>t, IntakeGoes
<1>4. ASSUME OpenPlan(h) PROVE Kept
  <2>1. At(h, "openPlan") /\ UNCHANGED intake /\ UNCHANGED scounts
    BY <1>4 DEF OpenPlan
  <2>2. DOMAIN call[h] = Fields /\ call[h].kind = "develop" /\ disk' = disk /\ plan' = plan
    BY <2>1, <1>t, AtIntake DEF intake
  <2>3. IntakeFiles'
    BY <1>d, <1>f, <2>1, <2>2
  <2>4. CASE plan.torn \/ ~plan.text.isp
    <3>1. Fails(h)
      BY <1>4, <2>4 DEF OpenPlan
    <3> QED BY <2>1, <2>3, <3>1, <1>t, IntakeEnds
  <2>5. CASE ~(plan.torn \/ ~plan.text.isp)
    <3> DEFINE c == [call[h] EXCEPT !.hold = plan.text]
    <3>1. Goes(h, c)
      BY <1>4, <2>5 DEF OpenPlan
    <3>2. /\ DOMAIN c = Fields /\ c.kind = call[h].kind /\ c.rest = call[h].rest /\ c.solo = call[h].solo
          /\ c.hold = plan.text
      BY <2>2 DEF Fields
    <3> HIDE DEF c
    <3>3. Staged(c, "render", disk', plan'.text)
      BY <1>f, <2>2, <2>5, <3>2 DEF Staged, Develops
    <3>4. \A u : Follows("openPlan", u) => u = "render"
      BY DEF Follows
    <3>5. \A u : Follows("openPlan", u) /\ u \in StepsOf(c.kind) => Staged(c, u, disk', plan'.text)
      BY <3>3, <3>4
    <3> QED BY <2>1, <2>3, <3>1, <3>2, <3>5, <1>t, IntakeGoes
  <2> QED BY <2>4, <2>5
<1>5. ASSUME Render(h) PROVE Kept
  <2>1. At(h, "render") /\ plan' = plan /\ UNCHANGED scounts
    BY <1>5 DEF Render
  <2>2. DOMAIN call[h] = Fields /\ call[h].kind = "develop" /\ Staged(call[h], "render", disk, plan.text)
    BY <2>1, <1>t, AtIntake
  <2>3. IsPlan(call[h].hold) /\ call[h].hold.isp /\ (call[h].solo => call[h].hold = plan.text)
    BY <2>2 DEF Staged, Develops
  <2>n. \A u : Follows("render", u) => u = "tearPlan"
    BY DEF Follows
  <2>4. CASE Developed(call[h].hold) # 0
    <3> DEFINE c == [call[h] EXCEPT !.hold.editable = "rendered"]
    <3>1. Goes(h, c) /\ disk' = [disk EXCEPT !.rendered = Developed(call[h].hold)]
      BY <1>5, <2>4 DEF Render
    <3>2. /\ DOMAIN c = Fields /\ c.kind = call[h].kind /\ c.rest = call[h].rest /\ c.solo = call[h].solo
          /\ c.hold = [call[h].hold EXCEPT !.editable = "rendered"]
      BY <2>2 DEF Fields
    <3> HIDE DEF c
    <3>3. /\ IsPlan(c.hold) /\ c.hold.of = call[h].hold.of /\ c.hold.editable = "rendered"
      BY <2>3, <3>2 DEF IsPlan
    <3>4. /\ IntakeFiles' /\ disk'.staged = disk.staged /\ disk'.linear = disk.linear
          /\ disk'.rendered = Developed(call[h].hold)
          /\ disk'.preview = disk.preview /\ disk'.proxy = disk.proxy
      BY <1>d, <1>f, <2>1, <3>1 DEF IsDisk
    <3>5. ASSUME call[h].solo, InPhotos(plan'.text, disk') PROVE InPhotos(c.hold, disk')
      <4>1. call[h].hold = plan'.text
        BY <2>1, <2>3, <3>5
      <4>2. disk'.staged = call[h].hold.of /\ disk'.linear = call[h].hold.of /\ Content(call[h].hold, disk') = call[h].hold.of
        BY <2>3, <3>5, <4>1 DEF InPhotos
      <4>3. Developed(call[h].hold) = call[h].hold.of
        <5>1. CASE disk.linear # 0
          BY <3>4, <4>2, <5>1 DEF Developed
        <5>2. CASE disk.linear = 0
          <6>1. call[h].hold.editable = "preview" /\ Developed(call[h].hold) = disk.preview
            BY <2>4, <5>2 DEF Developed
          <6> QED BY <3>4, <4>2, <6>1 DEF Content
        <5> QED BY <5>1, <5>2
      <4> QED BY <3>3, <3>4, <4>2, <4>3 DEF InPhotos, Content
    <3>6. Staged(c, "tearPlan", disk', plan'.text)
      BY <2>2, <3>2, <3>3, <3>5 DEF Staged, Develops
    <3>7. \A u : Follows("render", u) /\ u \in StepsOf(c.kind) => Staged(c, u, disk', plan'.text)
      BY <2>n, <3>6
    <3> QED BY <2>1, <3>1, <3>2, <3>4, <3>7, <1>t, IntakeGoes
  <2>5. CASE Developed(call[h].hold) = 0
    <3>1. Goes(h, call[h]) /\ disk' = disk
      BY <1>5, <2>5 DEF Render
    <3>2. IntakeFiles'
      BY <1>d, <1>f, <2>1, <3>1
    <3>3. Staged(call[h], "tearPlan", disk', plan'.text)
      BY <2>1, <2>2, <2>3, <3>1 DEF Staged, Develops
    <3>4. \A u : Follows("render", u) /\ u \in StepsOf(call[h].kind) => Staged(call[h], u, disk', plan'.text)
      BY <2>n, <3>3
    <3> QED BY <2>1, <2>2, <3>1, <3>2, <3>4, <1>t, IntakeGoes
  <2> QED BY <2>4, <2>5
<1> QED BY <1>1, <1>2, <1>3, <1>4, <1>5 DEF Writings

LEMMA IntakeServed ==
  ASSUME Orderly, IntakeInv, NEW h \in Handler, ServeIntake(h)
  PROVE  Turn(h, IntakeKinds) /\ IntakeInv'
<1>1. BeginIntake(h) \/ BeginDevelop(h) \/ Takings(h) \/ Writings(h)
  BY DEF ServeIntake, Takings, Writings
<1> QED BY <1>1, IntakeBegins, TakeStep, WriteStep

\* What is written down is what the request knows of the photos.
LEMMA LonePlanWritten ==
  ASSUME Orderly, IntakeInv, NEW h \in Handler, call[h].solo, WritePlan(h),
         call[h].kind = "develop" => IsOfItsPhotos(plan.text)
  PROVE  IsOfItsPhotos(plan'.text)
<1>1. At(h, "plan") /\ plan' = File(call[h].hold) /\ disk' = disk
  BY DEF WritePlan
<1>2. call[h].kind \in IntakeKinds /\ Staged(call[h], "plan", disk, plan.text)
  BY <1>1, AtIntake DEF IntakeDoes
<1>3. \A text : IsOfItsPhotos(text) <=> InPhotos(text, disk)
  BY DEF IsOfItsPhotos, EditableContent, InPhotos, Content
<1>4. InPhotos(call[h].hold, disk)
  BY <1>2, <1>3 DEF Staged, Takes, Develops
<1>5. plan'.text = call[h].hold
  BY <1>1 DEF File
<1> QED BY <1>3, <1>4, <1>5

-----------------------------------------------------------------------------
\* The verdict.
Verdicts == {"pass", "suspicious", "fail"}

KnownJudge(judge) == judge = NoJudge \/ (judge.verdict \in Verdicts /\ judge.confidence \in Int)

\* A suspicion is not lost among verdicts.
LEMMA WorstIsWorse ==
  ASSUME NEW S, S \subseteq Verdicts, "suspicious" \in S
  PROVE  Worst(S) \in {"suspicious", "fail"}
<1>1. Rank("pass") = 0 /\ Rank("suspicious") = 1 /\ Rank("fail") = 2
  BY DEF Rank
<1>2. \E v \in S : \A w \in S : Rank(w) <= Rank(v)
  <2>1. CASE "fail" \in S
    BY <1>1, <2>1 DEF Verdicts
  <2>2. CASE "fail" \notin S
    BY <1>1, <2>2 DEF Verdicts
  <2> QED BY <2>1, <2>2
<1>3. Worst(S) \in S /\ \A w \in S : Rank(w) <= Rank(Worst(S))
  BY <1>2 DEF Worst
<1>4. Worst(S) # "pass"
  <2> SUFFICES ASSUME Worst(S) = "pass" PROVE FALSE
    OBVIOUS
  <2>1. Rank("suspicious") <= Rank("pass")
    BY <1>3
  <2> QED BY <1>1, <2>1
<1> QED BY <1>3, <1>4 DEF Verdicts

\* What the calibration adjusts is no pass, unless the metrics alone made it adjust.
LEMMA AdjustedIsNoPass ==
  ASSUME NEW profile, NEW judge, NEW missing, NEW signals, KnownJudge(judge)
  PROVE  LET golden == Calibrated(profile, judge, missing, signals)
             weak   == {a \in profile.guarded : judge.axes[a] \in {"failing", "doubtful"}}
         IN  /\ golden.adjusted => golden.verdict \in {"suspicious", "fail"} \/ signals # {}
             /\ profile # NoProfile /\ golden.verdict \notin {"suspicious", "fail"} =>
                  judge # NoJudge /\ weak = {} /\ profile.required \cap missing = {}
<1> DEFINE golden == Calibrated(profile, judge, missing, signals)
           weak == {a \in profile.guarded : judge.axes[a] \in {"failing", "doubtful"}}
           lacks == profile.required \cap missing # {}
           Kept == /\ golden.adjusted => golden.verdict \in {"suspicious", "fail"} \/ signals # {}
                   /\ profile # NoProfile /\ golden.verdict \notin {"suspicious", "fail"} =>
                        judge # NoJudge /\ weak = {} /\ ~lacks
<1>1. CASE profile = NoProfile
  BY <1>1 DEF Calibrated
<1>2. CASE profile # NoProfile /\ judge = NoJudge
  BY <1>2 DEF Calibrated
<1>3. CASE profile # NoProfile /\ judge # NoJudge
  <2> DEFINE failing == {a \in profile.guarded : judge.axes[a] = "failing"}
             critical == {s \in signals : s.severity = "critical"}
             S == {judge.verdict}
                    \cup (IF weak # {} \/ critical # {} \/ lacks THEN {"suspicious"} ELSE {})
                    \cup (IF failing # {} THEN {"fail"} ELSE {})
  <2>1. golden.verdict = Worst(S) /\ golden.adjusted = (weak # {} \/ signals # {} \/ lacks)
    BY <1>3 DEF Calibrated
  <2>2. S \subseteq Verdicts
    BY <1>3 DEF KnownJudge, Verdicts
  <2>3. weak # {} \/ lacks => "suspicious" \in S
    OBVIOUS
  <2> HIDE DEF golden, weak, lacks, S
  <2>4. weak # {} \/ lacks => golden.verdict \in {"suspicious", "fail"}
    BY <2>1, <2>2, <2>3, WorstIsWorse
  <2> QED BY <1>3, <2>1, <2>4 DEF golden, weak, lacks
<1> QED BY <1>1, <1>2, <1>3

\* Whoever has to approve, as promised.
LEMMA ApprovalPromised ==
  ASSUME NEW profile, NEW judge, NEW missing, NEW signals, KnownJudge(judge)
  PROVE  LET a == Assessment(profile, judge, missing, signals)
         IN  a.verdict # "pass" \/ a.confidence < 70 \/ a.adjusted => a.approval
<1> DEFINE golden == Calibrated(profile, judge, missing, signals)
           verdict == Verdict(signals, judge, golden)
           a == Assessment(profile, judge, missing, signals)
<1>1. golden.adjusted => golden.verdict \in {"suspicious", "fail"} \/ signals # {}
  BY AdjustedIsNoPass
<1>2. /\ a.verdict = verdict /\ a.adjusted = golden.adjusted /\ a.confidence = golden.confidence
      /\ a.approval = (verdict # "pass" \/ (judge # NoJudge /\ judge.confidence < 70) \/ golden.confidence < 70)
  BY DEF Assessment
<1> HIDE DEF golden, a
<1>3. golden.verdict \in {"suspicious", "fail"} \/ signals # {} => verdict # "pass"
  BY DEF Verdict
<1> HIDE DEF verdict
<1>4. a.verdict # "pass" \/ a.confidence < 70 \/ a.adjusted => a.approval
  BY <1>1, <1>2, <1>3
<1> QED BY <1>4 DEF a

\* What nobody has to approve.
LEMMA PassedIsClean ==
  ASSUME NEW profile, NEW judge, NEW missing, NEW signals, KnownJudge(judge), profile # NoProfile,
         ~Assessment(profile, judge, missing, signals).approval
  PROVE  /\ judge.verdict = "pass" /\ judge.confidence >= 70 /\ signals = {}
         /\ {a \in profile.guarded : judge.axes[a] \in {"failing", "doubtful"}} = {}
         /\ profile.required \cap missing = {}
<1> DEFINE golden == Calibrated(profile, judge, missing, signals)
           verdict == Verdict(signals, judge, golden)
           weak == {a \in profile.guarded : judge.axes[a] \in {"failing", "doubtful"}}
<1>1. golden.verdict \notin {"suspicious", "fail"} => judge # NoJudge /\ weak = {} /\ profile.required \cap missing = {}
  BY AdjustedIsNoPass
<1>2. ~(verdict # "pass" \/ (judge # NoJudge /\ judge.confidence < 70) \/ golden.confidence < 70)
  BY DEF Assessment
<1> HIDE DEF golden, weak
<1>3. golden.verdict \notin {"suspicious", "fail"} /\ judge.verdict \notin {"suspicious", "fail"} /\ signals = {}
  BY <1>2 DEF Verdict
<1>4. judge # NoJudge /\ weak = {} /\ profile.required \cap missing = {}
  BY <1>1, <1>3
<1>5. judge.verdict = "pass"
  BY <1>3, <1>4 DEF KnownJudge, Verdicts
<1>6. judge.confidence >= 70
  BY <1>2, <1>4 DEF KnownJudge
<1> QED BY <1>3, <1>4, <1>5, <1>6 DEF weak

\* A picture in which the metrics see nothing.
LEMMA NothingSeen ==
  ASSUME NEW p \in Picture, NEW reference, MetricSignals(p, reference) = {}
  PROVE  /\ p.clip = 0 /\ p.detail > 0
         /\ reference # NoPicture => ~(p.detail < reference.detail) /\ p.tone = reference.tone
<1>1. \A c, t, v : When(c, t, v) = {} => ~c
  BY DEF When
<1>2. /\ When(p.clip > 0, "highlight_clip", IF p.clip = 2 THEN "critical" ELSE "warning") = {}
      /\ When(p.detail = 0, "low_detail", "warning") = {}
      /\ reference # NoPicture => /\ When(p.detail < reference.detail, "detail_loss", "critical") = {}
                                  /\ When(p.tone # reference.tone, "color_shift", "warning") = {}
  BY DEF MetricSignals
<1>3. ~(p.clip > 0) /\ ~(p.detail = 0)
      /\ (reference # NoPicture => ~(p.detail < reference.detail) /\ ~(p.tone # reference.tone))
  BY <1>1, <1>2
<1> QED BY <1>3 DEF Picture

\* Which axis every tool guards, and what one of them requires.
LEMMA ToolProfile ==
  ASSUME NEW tool
  PROVE  /\ Profile(tool) # NoProfile /\ "subject_preservation" \in Profile(tool).guarded
         /\ tool = "replaceBg" => /\ "mask_evidence" \in Profile(tool).required
                                  /\ "mask_boundary" \in Profile(tool).guarded
<1>1. Profile(tool).cap # 100
  BY DEF Profile
<1>2. NoProfile.cap = 100
  BY DEF NoProfile
<1>3. "subject_preservation" \in Profile(tool).guarded
  BY DEF Profile, Axis
<1>4. tool = "replaceBg" => /\ "mask_evidence" \in Profile(tool).required
                            /\ "mask_boundary" \in Profile(tool).guarded
  BY DEF Profile, Axis
<1> QED BY <1>1, <1>2, <1>3, <1>4

-----------------------------------------------------------------------------
\* Assessments: what a request has seen of the picture, and has found missing.
Assesses(c, s, of) ==
  /\ DOMAIN c.hold = {"judge", "shown", "of", "metrics", "missing"}
  /\ KnownJudge(c.hold.judge)
  /\ c.ask.reference \in {NoPicture, Before} /\ c.ask.packed \in BOOLEAN /\ c.ask.masked \in BOOLEAN
  /\ s \in {"gather", "calibrate"} => c.hold.metrics \in Picture
  /\ s = "calibrate" => (~c.ask.packed /\ ~c.ask.masked => "mask_evidence" \in c.hold.missing)
  /\ s \in {"show", "answer", "measure"} /\ c.solo => c.hold.shown \in {0, of}
  /\ s \in {"gather", "calibrate"} /\ c.solo => c.hold.of = of /\ c.hold.shown \in {0, of}

QualityKnows(h) == call[h].kind = "assess" => Assesses(call[h], Head(call[h].rest), result.of)

QualityFiles ==
  /\ result.of # 0 => result.look \in Picture
  /\ \E S : assessments \in Seq(S)
  /\ ApprovalsAsPromised

QualityInv == QualityFiles /\ \A h \in Handler : QualityKnows(h)

\* What an assessment has seen, as long as the result is the same.
LEMMA AssessesBy ==
  ASSUME NEW c, NEW d, NEW s, NEW of, Assesses(c, s, of),
         d.ask = c.ask, d.hold = c.hold, d.solo => c.solo
  PROVE  Assesses(d, s, of)
BY DEF Assesses

LEMMA QualitySpared ==
  ASSUME QualityInv, Spares(QualityKinds), UNCHANGED <<result, assessments>>
  PROVE  QualityInv'
<1>1. QualityFiles'
  BY DEF QualityInv, QualityFiles, ApprovalsAsPromised
<1>2. ASSUME NEW g \in Handler, call'[g].kind = "assess"
      PROVE  Assesses(call'[g], Head(call'[g].rest), result'.of)
  <2>1. Same(call'[g], call[g]) /\ (call'[g].solo => call[g].solo)
    BY <1>2 DEF Spares, QualityKinds
  <2>2. Assesses(call[g], Head(call[g].rest), result.of)
    BY <1>2, <2>1 DEF QualityInv, QualityKnows, Same
  <2> QED BY <2>1, <2>2, AssessesBy DEF Same
<1> QED BY <1>1, <1>2 DEF QualityInv, QualityKnows

LEMMA QualityOvertaken ==
  ASSUME QualityInv, NEW h \in Handler, Besides(h), QualityKnows(h)', NEW g \in Handler
  PROVE  QualityKnows(g)'
<1> SUFFICES ASSUME g # h, call'[g].kind = "assess"
             PROVE  Assesses(call'[g], Head(call'[g].rest), result'.of)
  BY DEF QualityKnows
<1>1. Same(call'[g], call[g]) /\ ~call'[g].solo
  BY DEF Besides
<1>2. Assesses(call[g], Head(call[g].rest), result.of)
  BY <1>1 DEF QualityInv, QualityKnows, Same
<1> QED BY <1>1, <1>2 DEF Same, Assesses

-----------------------------------------------------------------------------
AssessSteps(ran) == (IF ran THEN <<"show", "answer">> ELSE <<>>) \o <<"measure", "gather", "calibrate">>

\* The program of an assessment, with a judge or without.
LEMMA AssessPrograms ==
  \A ran \in BOOLEAN : /\ Chained(StepsOf("assess"), AssessSteps(ran)) /\ AssessSteps(ran) # <<>>
                       /\ Head(AssessSteps(ran)) \in {"show", "measure"}
<1> DEFINE two == <<"show", "answer">>
           three == <<"measure", "gather", "calibrate">>
           S == StepsOf("assess")
<1>1. {"show", "answer", "measure", "gather", "calibrate"} \subseteq S
  BY DEF StepsOf
<1>2. /\ Follows("show", "answer") /\ Follows("answer", "measure")
      /\ Follows("measure", "gather") /\ Follows("gather", "calibrate")
  BY DEF Follows
<1> HIDE DEF S
<1>3. Ordered(S, two) /\ two # <<>> /\ two[1] = "show" /\ two[Len(two)] = "answer"
  BY <1>1, <1>2, Two
<1>4. Ordered(S, three) /\ three # <<>> /\ three[1] = "measure" /\ three[Len(three)] = "calibrate"
  BY <1>1, <1>2, Three
<1>5. three \in Seq(S)
  BY <1>4 DEF Ordered
<1> HIDE DEF two, three
<1>6. /\ Ordered(S, two \o three) /\ two \o three # <<>> /\ (two \o three)[1] = "show"
      /\ (two \o three)[Len(two \o three)] = "calibrate"
  BY <1>2, <1>3, <1>4, Joined
<1>7. <<>> \o three = three
  BY <1>5
<1>8. AssessSteps(TRUE) = two \o three /\ AssessSteps(FALSE) = three
  BY <1>7 DEF AssessSteps, two, three
<1>9. \A r : Head(r) = r[1]
  OBVIOUS
<1>10. /\ Chained(S, AssessSteps(TRUE)) /\ AssessSteps(TRUE) # <<>> /\ Head(AssessSteps(TRUE)) = "show"
       /\ Chained(S, AssessSteps(FALSE)) /\ AssessSteps(FALSE) # <<>> /\ Head(AssessSteps(FALSE)) = "measure"
  BY <1>4, <1>6, <1>8, <1>9 DEF Chained, Ends
<1> QED BY <1>10 DEF S

\* At its step an assessment knows what it has seen.
LEMMA AtAssess ==
  ASSUME Orderly, QualityInv, NEW h \in Handler, NEW t, At(h, t), t \in {"show", "answer", "measure", "gather", "calibrate"}
  PROVE  /\ DOMAIN call[h] = Fields /\ call[h].solo \in BOOLEAN /\ call[h].kind = "assess"
         /\ Assesses(call[h], t, result.of)
<1>1. t \in StepsOf(call[h].kind) /\ DOMAIN call[h] = Fields /\ call[h].solo \in BOOLEAN
  BY TailChained DEF At, Orderly, Programmed
<1>2. call[h].kind = "assess"
  BY <1>1, KindOfStep DEF QualityKinds
<1> QED BY <1>1, <1>2 DEF QualityInv, QualityKnows, At

\* An assessment goes on, or ends, knowing what it saw.
LEMMA AssessGoes ==
  ASSUME Orderly, QualityInv, NEW h \in Handler, NEW t, At(h, t), t \in {"show", "answer", "measure", "gather"},
         NEW c, DOMAIN c = Fields, c.kind = "assess", c.rest = call[h].rest, c.solo = call[h].solo, Goes(h, c),
         \A u : Follows(t, u) => Assesses(c, u, result.of), UNCHANGED <<result, assessments>>
  PROVE  Turn(h, QualityKinds) /\ QualityInv'
<1>0. call[h].kind = "assess" /\ call[h].kind \in QualityKinds
  BY AtAssess DEF QualityKinds
<1>1. /\ Turn(h, QualityKinds)
      /\ \/ call'[h] = Idle
         \/ /\ call'[h] = [c EXCEPT !.rest = Tail(c.rest)]
            /\ call'[h].rest # <<>> /\ Follows(t, Head(call'[h].rest))
  BY <1>0, TurnGoes
<1>2. QualityKnows(h)'
  <2>1. CASE call'[h] = Idle
    BY <2>1, IdleProgrammed DEF QualityKnows
  <2>2. CASE call'[h] # Idle
    <3>1. call'[h].ask = c.ask /\ call'[h].hold = c.hold /\ call'[h].solo = c.solo
      BY <1>1, <2>2 DEF Fields
    <3>2. Assesses(c, Head(call'[h].rest), result.of)
      BY <1>1, <2>2
    <3> QED BY <3>1, <3>2, AssessesBy DEF QualityKnows
  <2> QED BY <2>1, <2>2
<1>3. \A g \in Handler : QualityKnows(g)'
  BY <1>1, <1>2, QualityOvertaken DEF Turn, Goal
<1>4. QualityFiles'
  BY DEF QualityInv, QualityFiles, ApprovalsAsPromised
<1> QED BY <1>1, <1>3, <1>4 DEF QualityInv

LEMMA AssessEnds ==
  ASSUME Orderly, QualityInv, NEW h \in Handler, NEW t, At(h, t), t \in {"show", "answer", "measure", "gather", "calibrate"},
         Fails(h), QualityFiles', UNCHANGED result
  PROVE  Turn(h, QualityKinds) /\ QualityInv'
<1>0. call[h].kind \in QualityKinds
  BY AtAssess DEF QualityKinds
<1>1. Turn(h, QualityKinds) /\ call'[h] = Idle
  BY <1>0, TurnFails
<1>2. QualityKnows(h)'
  BY <1>1, IdleProgrammed DEF QualityKnows
<1>3. \A g \in Handler : QualityKnows(g)'
  BY <1>1, <1>2, QualityOvertaken DEF Turn, Goal
<1> QED BY <1>1, <1>3 DEF QualityInv

\* An assessment that asks for approval wherever it should keeps the file as promised.
LEMMA AppendAssessment ==
  ASSUME NEW a, QualityFiles, assessments' = Append(assessments, a), UNCHANGED result,
         a.verdict # "pass" \/ a.confidence < 70 \/ a.adjusted => a.approval
  PROVE  QualityFiles' /\ assessments'[Len(assessments')] = a
<1>1. PICK S : assessments \in Seq(S)
  BY DEF QualityFiles
<1> DEFINE T == S \cup {a}
<1>2. assessments \in Seq(T) /\ a \in T
  BY <1>1
<1> HIDE DEF T
<1>3. /\ assessments' \in Seq(T) /\ Len(assessments') = Len(assessments) + 1 /\ Len(assessments) \in Nat
      /\ assessments'[Len(assessments) + 1] = a
      /\ \A i \in 1..Len(assessments) : assessments'[i] = assessments[i]
  BY <1>2, AppendFile
<1>4. DOMAIN assessments' = 1..(Len(assessments) + 1) /\ DOMAIN assessments = 1..Len(assessments)
  BY <1>2, <1>3
<1>5. ASSUME NEW i \in DOMAIN assessments' PROVE i = Len(assessments) + 1 \/ i \in DOMAIN assessments
  BY <1>3, <1>4
<1>6. ApprovalsAsPromised'
  BY <1>3, <1>4, <1>5 DEF QualityFiles, ApprovalsAsPromised
<1> QED BY <1>3, <1>6 DEF QualityFiles


\* What the judge may answer.
LEMMA AnswersKnown ==
  /\ KnownJudge(NoJudge)
  /\ \A a \in Answer : /\ KnownJudge(a)
                       /\ \A odd \in BOOLEAN : KnownJudge(Normalized(IF odd THEN [a EXCEPT !.verdict = "odd"] ELSE a))
<1>1. ASSUME NEW a \in Answer PROVE a.verdict \in Verdicts /\ a.confidence \in Int /\ DOMAIN a = {"verdict", "confidence", "axes"}
  BY DEF Answer, Verdicts
<1>2. ASSUME NEW a, DOMAIN a = {"verdict", "confidence", "axes"}, a.confidence \in Int
      PROVE  Normalized(a).verdict \in Verdicts /\ Normalized(a).confidence \in Int
  BY <1>2 DEF Normalized, Verdicts
<1>3. ASSUME NEW a \in Answer, NEW odd \in BOOLEAN
      PROVE  KnownJudge(Normalized(IF odd THEN [a EXCEPT !.verdict = "odd"] ELSE a))
  <2> DEFINE b == IF odd THEN [a EXCEPT !.verdict = "odd"] ELSE a
  <2>1. DOMAIN b = {"verdict", "confidence", "axes"} /\ b.confidence \in Int
    BY <1>1
  <2> HIDE DEF b
  <2>2. KnownJudge(Normalized(b))
    BY <1>2, <2>1 DEF KnownJudge
  <2> QED BY <2>2 DEF b
<1> QED BY <1>1, <1>3 DEF KnownJudge

\* An assessment begins with what it was asked.
LEMMA AssessBegins ==
  ASSUME Orderly, QualityInv, NEW h \in Handler, BeginAssess(h)
  PROVE  Turn(h, QualityKinds) /\ QualityInv'
<1>0. UNCHANGED quality
  BY Zenon DEF BeginAssess
<1>1. PICK tool \in Tool, given, masked, packed \in BOOLEAN, ran \in BOOLEAN, judge \in Answer \cup {NoJudge} :
       /\ ran => judge = NoJudge
       /\ packed => ~masked
       /\ Begins(h, [Idle EXCEPT !.kind = "assess",
                    !.rest = (IF ran THEN <<"show", "answer">> ELSE <<>>) \o <<"measure", "gather", "calibrate">>,
                    !.ask = [tool |-> tool, packed |-> packed, masked |-> masked,
                             reference |-> IF given THEN Before ELSE NoPicture],
                    !.hold = [judge |-> judge, shown |-> 0, of |-> 0,
                              metrics |-> NoPicture, missing |-> {}]])
  BY Zenon DEF BeginAssess
<1> DEFINE r == AssessSteps(ran)
           k == [tool |-> tool, packed |-> packed, masked |-> masked,
                 reference |-> IF given THEN Before ELSE NoPicture]
           p == [judge |-> judge, shown |-> 0, of |-> 0, metrics |-> NoPicture, missing |-> {}]
           c == [Idle EXCEPT !.kind = "assess", !.rest = r, !.ask = k, !.hold = p]
<1>2. Begins(h, c)
  BY <1>1, Zenon DEF AssessSteps
<1>3. /\ k.packed = packed /\ k.masked = masked /\ k.reference \in {NoPicture, Before}
      /\ DOMAIN p = {"judge", "shown", "of", "metrics", "missing"} /\ p.judge = judge /\ p.shown = 0
  OBVIOUS
<1>4. KnownJudge(judge)
  BY AnswersKnown
<1>5. Chained(StepsOf("assess"), r) /\ r # <<>> /\ Head(r) \in {"show", "measure"}
  BY AssessPrograms
<1> HIDE DEF k, p, r
<1>6. DOMAIN c = Fields /\ c.kind = "assess" /\ c.rest = r /\ c.ask = k /\ c.hold = p
  BY DEF Idle, Fields
<1> HIDE DEF c
<1>7. Turn(h, QualityKinds) /\ call'[h] = [c EXCEPT !.solo = call'[h].solo]
  BY <1>2, <1>5, <1>6, TurnBegins DEF QualityKinds
<1>8. call'[h].kind = "assess" /\ call'[h].rest = r /\ call'[h].ask = k /\ call'[h].hold = p
  BY <1>6, <1>7 DEF Fields
<1>9. Assesses(call'[h], Head(r), result'.of)
  BY <1>3, <1>4, <1>5, <1>8 DEF Assesses
<1>10. QualityKnows(h)'
  BY <1>8, <1>9 DEF QualityKnows
<1>11. \A g \in Handler : QualityKnows(g)'
  BY <1>7, <1>10, QualityOvertaken DEF Turn, Goal
<1>12. QualityFiles'
  BY <1>0 DEF QualityInv, QualityFiles, ApprovalsAsPromised, quality
<1> QED BY <1>7, <1>11, <1>12 DEF QualityInv

\* Every step of an assessment keeps the assessments on file and what it saw itself.
LEMMA JudgeStep ==
  ASSUME Orderly, QualityInv, NEW h \in Handler, Judges(h)
  PROVE  Turn(h, QualityKinds) /\ QualityInv'
<1> DEFINE Kept == Turn(h, QualityKinds) /\ QualityInv'
<1>f. QualityFiles
  BY DEF QualityInv
<1>u. UNCHANGED quality => QualityFiles' /\ UNCHANGED <<result, assessments>>
  BY <1>f DEF QualityFiles, ApprovalsAsPromised, quality
<1>1. ASSUME ShowJudge(h) PROVE Kept
  <2>1. At(h, "show") /\ UNCHANGED quality
    BY <1>1 DEF ShowJudge
  <2>2. DOMAIN call[h] = Fields /\ call[h].kind = "assess" /\ Assesses(call[h], "show", result.of)
    BY <2>1, AtAssess
  <2>3. CASE result.of = 0
    BY <1>1, <1>u, <2>1, <2>3, AssessEnds DEF ShowJudge
  <2>4. CASE result.of # 0
    <3> DEFINE c == [call[h] EXCEPT !.hold.shown = result.of]
    <3>1. Goes(h, c)
      BY <1>1, <2>4 DEF ShowJudge
    <3>2. /\ DOMAIN c = Fields /\ c.kind = "assess" /\ c.rest = call[h].rest /\ c.solo = call[h].solo
          /\ c.ask = call[h].ask /\ c.hold = [call[h].hold EXCEPT !.shown = result.of]
      BY <2>2 DEF Fields
    <3> HIDE DEF c
    <3>3. DOMAIN c.hold = DOMAIN call[h].hold /\ c.hold.judge = call[h].hold.judge /\ c.hold.shown = result.of
      BY <2>2, <3>2 DEF Assesses
    <3>4. Assesses(c, "answer", result.of)
      BY <2>2, <3>2, <3>3 DEF Assesses
    <3>5. \A u : Follows("show", u) => u = "answer"
      BY DEF Follows
    <3>6. \A u : Follows("show", u) => Assesses(c, u, result.of)
      BY <3>4, <3>5
    <3> QED BY <1>u, <2>1, <3>1, <3>2, <3>6, AssessGoes
  <2> QED BY <2>3, <2>4
<1>2. ASSUME JudgeAnswers(h) PROVE Kept
  <2>1. At(h, "answer") /\ UNCHANGED quality
    BY <1>2, Zenon DEF JudgeAnswers
  <2>2. DOMAIN call[h] = Fields /\ call[h].kind = "assess" /\ Assesses(call[h], "answer", result.of)
    BY <2>1, AtAssess
  <2>3. CASE Fails(h)
    BY <1>u, <2>1, <2>3, AssessEnds
  <2>4. ASSUME NEW j, KnownJudge(j), Goes(h, [call[h] EXCEPT !.hold.judge = j])
        PROVE  Kept
    <3> DEFINE c == [call[h] EXCEPT !.hold.judge = j]
    <3>1. Goes(h, c)
      BY <2>4
    <3>2. /\ DOMAIN c = Fields /\ c.kind = "assess" /\ c.rest = call[h].rest /\ c.solo = call[h].solo
          /\ c.ask = call[h].ask /\ c.hold = [call[h].hold EXCEPT !.judge = j]
      BY <2>2 DEF Fields
    <3> HIDE DEF c
    <3>3. DOMAIN c.hold = DOMAIN call[h].hold /\ c.hold.judge = j /\ c.hold.shown = call[h].hold.shown
      BY <2>2, <3>2 DEF Assesses
    <3>4. Assesses(c, "measure", result.of)
      BY <2>2, <2>4, <3>2, <3>3 DEF Assesses
    <3>5. \A u : Follows("answer", u) => u = "measure"
      BY DEF Follows
    <3>6. \A u : Follows("answer", u) => Assesses(c, u, result.of)
      BY <3>4, <3>5
    <3> QED BY <1>u, <2>1, <3>1, <3>2, <3>6, AssessGoes
  <2> HIDE DEF Kept
  <2> QED BY <1>2, <2>3, <2>4, AnswersKnown, Zenon DEF JudgeAnswers
<1>3. ASSUME Measure(h) PROVE Kept
  <2>1. At(h, "measure") /\ UNCHANGED quality
    BY <1>3 DEF Measure
  <2>2. DOMAIN call[h] = Fields /\ call[h].kind = "assess" /\ Assesses(call[h], "measure", result.of)
    BY <2>1, AtAssess
  <2>3. CASE result.of = 0
    BY <1>3, <1>u, <2>1, <2>3, AssessEnds DEF Measure
  <2>4. CASE result.of # 0
    <3> DEFINE c == [call[h] EXCEPT !.hold.metrics = result.look, !.hold.of = result.of]
    <3>1. Goes(h, c)
      BY <1>3, <2>4 DEF Measure
    <3>2. /\ DOMAIN c = Fields /\ c.kind = "assess" /\ c.rest = call[h].rest /\ c.solo = call[h].solo
          /\ c.ask = call[h].ask /\ c.hold = [call[h].hold EXCEPT !.metrics = result.look, !.of = result.of]
      BY <2>2 DEF Fields
    <3> HIDE DEF c
    <3>3. /\ DOMAIN c.hold = DOMAIN call[h].hold /\ c.hold.judge = call[h].hold.judge /\ c.hold.shown = call[h].hold.shown
          /\ c.hold.metrics = result.look /\ c.hold.of = result.of
      BY <2>2, <3>2 DEF Assesses
    <3>4. Assesses(c, "gather", result.of)
      BY <1>f, <2>2, <2>4, <3>2, <3>3 DEF Assesses, QualityFiles
    <3>5. \A u : Follows("measure", u) => u = "gather"
      BY DEF Follows
    <3>6. \A u : Follows("measure", u) => Assesses(c, u, result.of)
      BY <3>4, <3>5
    <3> QED BY <1>u, <2>1, <3>1, <3>2, <3>6, AssessGoes
  <2> QED BY <2>3, <2>4
<1>4. ASSUME Gather(h) PROVE Kept
  <2>1. At(h, "gather") /\ UNCHANGED quality
    BY <1>4 DEF Gather
  <2>2. DOMAIN call[h] = Fields /\ call[h].kind = "assess" /\ Assesses(call[h], "gather", result.of)
    BY <2>1, AtAssess
  <2>3. CASE result.of = 0 /\ ~call[h].ask.packed
    BY <1>4, <1>u, <2>1, <2>3, AssessEnds DEF Gather
  <2>4. CASE ~(result.of = 0 /\ ~call[h].ask.packed)
    <3> DEFINE m == IF call[h].ask.packed THEN {}
                    ELSE MissingEvidence(call[h].ask.reference, call[h].ask.masked, ProfileNow(call[h].ask.tool))
               c == [call[h] EXCEPT !.hold.missing = m]
    <3>1. Goes(h, c)
      BY <1>4, <2>4 DEF Gather
    <3>2. ~call[h].ask.packed /\ ~call[h].ask.masked => "mask_evidence" \in m
      BY DEF MissingEvidence
    <3> HIDE DEF m
    <3>3. /\ DOMAIN c = Fields /\ c.kind = "assess" /\ c.rest = call[h].rest /\ c.solo = call[h].solo
          /\ c.ask = call[h].ask /\ c.hold = [call[h].hold EXCEPT !.missing = m]
      BY <2>2 DEF Fields
    <3> HIDE DEF c
    <3>4. /\ DOMAIN c.hold = DOMAIN call[h].hold /\ c.hold.judge = call[h].hold.judge /\ c.hold.shown = call[h].hold.shown
          /\ c.hold.metrics = call[h].hold.metrics /\ c.hold.of = call[h].hold.of /\ c.hold.missing = m
      BY <2>2, <3>3 DEF Assesses
    <3>5. Assesses(c, "calibrate", result.of)
      BY <2>2, <3>2, <3>3, <3>4 DEF Assesses
    <3>6. \A u : Follows("gather", u) => u = "calibrate"
      BY DEF Follows
    <3>7. \A u : Follows("gather", u) => Assesses(c, u, result.of)
      BY <3>5, <3>6
    <3> QED BY <1>u, <2>1, <3>1, <3>3, <3>7, AssessGoes
  <2> QED BY <2>3, <2>4
<1>5. ASSUME Calibrate(h) PROVE Kept
  <2> DEFINE a == Assessment(ProfileNow(call[h].ask.tool), call[h].hold.judge, call[h].hold.missing,
                             MetricSignals(call[h].hold.metrics, call[h].ask.reference))
  <2>1. At(h, "calibrate") /\ assessments' = Append(assessments, a) /\ Fails(h) /\ UNCHANGED result
    BY <1>5 DEF Calibrate
  <2>2. KnownJudge(call[h].hold.judge)
    BY <2>1, AtAssess DEF Assesses
  <2>3. a.verdict # "pass" \/ a.confidence < 70 \/ a.adjusted => a.approval
    BY <2>2, ApprovalPromised
  <2> HIDE DEF a
  <2>4. QualityFiles'
    BY <1>f, <2>1, <2>3, AppendAssessment
  <2> QED BY <2>1, <2>4, AssessEnds
<1> QED BY <1>1, <1>2, <1>3, <1>4, <1>5, AssessBegins DEF Judges

\* What the assessment written down says.
LEMMA PassWrittenIsClean ==
  ASSUME Orderly, QualityInv, NEW h \in Handler, Calibrate(h), seeded
  PROVE  LET a == assessments'[Len(assessments')]
             c == call[h].hold
         IN  ~a.approval =>
               /\ c.judge.verdict = "pass" /\ c.judge.confidence >= 70
               /\ c.judge.axes["subject_preservation"] \notin {"failing", "doubtful"}
               /\ call[h].ask.tool = "replaceBg" => c.judge.axes["mask_boundary"] \notin {"failing", "doubtful"}
               /\ c.metrics.clip = 0 /\ c.metrics.detail > 0
               /\ call[h].ask.reference # NoPicture => c.metrics.detail >= Before.detail /\ c.metrics.tone = Before.tone
               /\ ~call[h].ask.packed /\ call[h].ask.tool = "replaceBg" => call[h].ask.masked
               /\ call[h].solo => c.of = result.of /\ c.shown \in {0, c.of}
<1> DEFINE c == call[h].hold
           k == call[h].ask
           profile == ProfileNow(k.tool)
           signals == MetricSignals(c.metrics, k.reference)
           new == Assessment(profile, c.judge, c.missing, signals)
<1>1. At(h, "calibrate") /\ assessments' = Append(assessments, new) /\ UNCHANGED result
  BY DEF Calibrate
<1>2. Assesses(call[h], "calibrate", result.of)
  BY <1>1, AtAssess
<1>3. KnownJudge(c.judge) /\ c.metrics \in Picture /\ k.reference \in {NoPicture, Before}
  BY <1>2 DEF Assesses
<1>4. /\ profile # NoProfile /\ "subject_preservation" \in profile.guarded
      /\ k.tool = "replaceBg" => "mask_evidence" \in profile.required /\ "mask_boundary" \in profile.guarded
  BY ToolProfile DEF ProfileNow
<1>5. assessments'[Len(assessments')] = new
  <2>1. new.verdict # "pass" \/ new.confidence < 70 \/ new.adjusted => new.approval
    BY <1>3, ApprovalPromised
  <2> HIDE DEF new
  <2> QED BY <1>1, <2>1, AppendAssessment DEF QualityInv
<1>6. ASSUME ~new.approval
      PROVE  /\ c.judge.verdict = "pass" /\ c.judge.confidence >= 70 /\ signals = {}
             /\ {a \in profile.guarded : c.judge.axes[a] \in {"failing", "doubtful"}} = {}
             /\ profile.required \cap c.missing = {}
  BY <1>3, <1>4, <1>6, PassedIsClean
<1>7. ASSUME ~new.approval
      PROVE  /\ c.metrics.clip = 0 /\ c.metrics.detail > 0
             /\ k.reference # NoPicture => c.metrics.detail >= Before.detail /\ c.metrics.tone = Before.tone
  <2> HIDE DEF new
  <2>1. /\ c.metrics.clip = 0 /\ c.metrics.detail > 0
        /\ k.reference # NoPicture => ~(c.metrics.detail < k.reference.detail) /\ c.metrics.tone = k.reference.tone
    BY <1>3, <1>6, <1>7, NothingSeen
  <2>2. c.metrics.detail \in Int /\ Before.detail \in Int
    BY <1>3 DEF Picture, Before
  <2> QED BY <1>3, <2>1, <2>2
<1> HIDE DEF new, profile, signals
<1>8. ASSUME ~new.approval
      PROVE  /\ c.judge.verdict = "pass" /\ c.judge.confidence >= 70
             /\ c.judge.axes["subject_preservation"] \notin {"failing", "doubtful"}
             /\ k.tool = "replaceBg" => c.judge.axes["mask_boundary"] \notin {"failing", "doubtful"}
             /\ ~k.packed /\ k.tool = "replaceBg" => k.masked
  BY <1>2, <1>4, <1>6, <1>8 DEF Assesses
<1>9. call[h].solo => c.of = result.of /\ c.shown \in {0, c.of}
  BY <1>2 DEF Assesses
<1> QED BY <1>5, <1>7, <1>8, <1>9

-----------------------------------------------------------------------------
\* What each group of steps leaves alone, and how requests are counted.
Counted == requests \in Nat => requests' \in Nat

LEMMA BeginsCounts == ASSUME NEW h, NEW c, Begins(h, c) PROVE Counted
BY DEF Begins, Counted

LEMMA StaysCounted == UNCHANGED scounts => Counted
BY DEF scounts, Counted

\* Updates of the catalog touch neither decisions, edits, letters nor jobs.
LEMMA CatalogFrame ==
  ASSUME NEW h, ServeCatalog(h)
  PROVE  UNCHANGED <<decisions, edit, letters, jobs>> /\ Counted
<1>1. ASSUME BeginUpdate(h) PROVE UNCHANGED <<decisions, edit, letters, jobs>> /\ Counted
  <2>1. UNCHANGED sfiles
    BY <1>1, Zenon DEF BeginUpdate
  <2>2. Counted
    BY <1>1, BeginsCounts, Zenon DEF BeginUpdate
  <2> QED BY <2>1, <2>2 DEF sfiles, cards
<1>2. ASSUME LoadCatalog(h) PROVE UNCHANGED <<decisions, edit, letters, jobs>> /\ Counted
  BY <1>2, StaysCounted DEF LoadCatalog, sfiles, cards
<1>3. ASSUME TearCatalog(h) PROVE UNCHANGED <<decisions, edit, letters, jobs>> /\ Counted
  BY <1>3, StaysCounted DEF TearCatalog
<1>4. ASSUME SaveCatalog(h) PROVE UNCHANGED <<decisions, edit, letters, jobs>> /\ Counted
  BY <1>4, StaysCounted DEF SaveCatalog
<1> QED BY <1>1, <1>2, <1>3, <1>4 DEF ServeCatalog

\* Apply, sync and refresh touch neither cards nor investigations.
LEMMA EditFrame ==
  ASSUME NEW h, ServeEdit(h)
  PROVE  UNCHANGED <<cards, letters>> /\ Counted
<1> DEFINE Frame == UNCHANGED <<cards, letters>> /\ Counted
<1>s. UNCHANGED sfiles => UNCHANGED <<cards, letters>>
  BY DEF sfiles
<1>1. ASSUME BeginApply(h) PROVE Frame
  <2>1. UNCHANGED sfiles
    BY <1>1, Zenon DEF BeginApply
  <2>2. Counted
    BY <1>1, BeginsCounts, Zenon DEF BeginApply
  <2> QED BY <1>s, <2>1, <2>2
<1>2. ASSUME BeginSync(h) PROVE Frame
  <2>1. UNCHANGED sfiles
    BY <1>2, Zenon DEF BeginSync
  <2>2. Counted
    BY <1>2, BeginsCounts, Zenon DEF BeginSync
  <2> QED BY <1>s, <2>1, <2>2
<1>3. ASSUME BeginRefresh(h) PROVE Frame
  <2>1. UNCHANGED sfiles
    BY <1>3, Zenon DEF BeginRefresh
  <2>2. Counted
    BY <1>3, BeginsCounts, Zenon DEF BeginRefresh
  <2> QED BY <1>s, <2>1, <2>2
<1>4. ASSUME WriteImages(h) \/ TearState(h) \/ WriteState(h) \/ TearLinkage(h) \/ Link(h) PROVE Frame
  BY <1>4, StaysCounted DEF WriteImages, TearState, WriteState, TearLinkage, Link
<1>5. ASSUME ReadPrior(h) \/ ReadChosen(h) PROVE Frame
  BY <1>5, <1>s, StaysCounted DEF ReadPrior, ReadChosen
<1>6. ASSUME FinishJob(h) PROVE Frame
  BY <1>6, StaysCounted DEF FinishJob
<1> QED BY <1>1, <1>2, <1>3, <1>4, <1>5, <1>6 DEF ServeEdit

\* Investigations and retries touch neither cards nor edits.
LEMMA LettersFrame ==
  ASSUME NEW h, ServeLetters(h)
  PROVE  UNCHANGED <<cards, edit>> /\ Counted
<1> DEFINE Frame == UNCHANGED <<cards, edit>> /\ Counted
<1>s. UNCHANGED sfiles => UNCHANGED <<cards, edit>>
  BY DEF sfiles
<1>1. ASSUME BeginInvestigate(h) PROVE Frame
  <2>1. UNCHANGED sfiles
    BY <1>1, Zenon DEF BeginInvestigate
  <2>2. Counted
    BY <1>1, BeginsCounts, Zenon DEF BeginInvestigate
  <2> QED BY <1>s, <2>1, <2>2
<1>2. ASSUME BeginRetry(h) PROVE Frame
  <2>1. UNCHANGED sfiles
    BY <1>2, Zenon DEF BeginRetry
  <2>2. Counted
    BY <1>2, BeginsCounts, Zenon DEF BeginRetry
  <2> QED BY <1>s, <2>1, <2>2
<1>3. ASSUME OpenLetters(h) PROVE Frame
  BY <1>3, <1>s, StaysCounted DEF OpenLetters
<1>4. ASSUME ListLetters(h) PROVE Frame
  <2>1. UNCHANGED sfiles /\ UNCHANGED scounts
    BY <1>4, Zenon DEF ListLetters
  <2> QED BY <1>s, <2>1, StaysCounted
<1>5. ASSUME TearLetters(h) \/ Note(h) PROVE Frame
  BY <1>5, StaysCounted DEF TearLetters, Note
<1>6. ASSUME Reset(h) PROVE Frame
  BY <1>6, StaysCounted DEF Reset
<1>7. ASSUME RequeueLetter(h) PROVE Frame
  BY <1>7, StaysCounted DEF RequeueLetter
<1> QED BY <1>1, <1>2, <1>3, <1>4, <1>5, <1>6, <1>7 DEF ServeLetters

\* Decisions touch neither catalog, edits, letters nor jobs.
LEMMA CompareFrame ==
  ASSUME NEW h, ServeCompare(h)
  PROVE  UNCHANGED <<catalog, edit, letters, jobs>> /\ Counted
<1>1. ASSUME BeginDecision(h) PROVE UNCHANGED <<catalog, edit, letters, jobs>> /\ Counted
  BY <1>1, BeginsCounts DEF BeginDecision, sfiles, cards
<1>2. ASSUME FileDecision(h) \/ AppendDecision(h) PROVE UNCHANGED <<catalog, edit, letters, jobs>> /\ Counted
  BY <1>2, StaysCounted DEF FileDecision, AppendDecision
<1> QED BY <1>1, <1>2 DEF ServeCompare

\* Deliveries touch none of the session's small files.
LEMMA DeliveryFrame ==
  ASSUME NEW h, ServeDelivery(h)
  PROVE  UNCHANGED sfiles /\ Counted
<1> DEFINE Frame == UNCHANGED sfiles /\ Counted
<1>1. ASSUME BeginPackage(h) PROVE Frame
  BY <1>1, BeginsCounts, Zenon DEF BeginPackage
<1>2. ASSUME BeginRecovery(h) PROVE Frame
  <2>1. UNCHANGED sfiles
    BY <1>2, Zenon DEF BeginRecovery
  <2>2. PICK c : Begins(h, c)
    BY <1>2, Zenon DEF BeginRecovery
  <2> QED BY <2>1, <2>2, BeginsCounts
<1>3. ASSUME ChooseItems(h) \/ FindArchive(h) \/ CopyItems(h) \/ WriteManifest(h) PROVE Frame
  BY <1>3, StaysCounted, Zenon DEF ChooseItems, FindArchive, CopyItems, WriteManifest
<1>4. ASSUME OpenRoom(h) PROVE Frame
  BY <1>4, StaysCounted, Zenon DEF OpenRoom
<1>5. ASSUME FillZip(h) \/ ClearRoom(h) \/ WritePacket(h) \/ PauseUponPacket(h) PROVE Frame
  BY <1>5, StaysCounted, Zenon DEF FillZip, ClearRoom, WritePacket, PauseUponPacket
<1>6. ASSUME OpenZip(h) \/ LoseRoom(h) PROVE Frame
  BY <1>6, StaysCounted, Zenon DEF OpenZip, LoseRoom
<1> QED BY <1>1, <1>2, <1>3, <1>4, <1>5, <1>6 DEF ServeDelivery

\* Intake touches neither those nor deliveries.
LEMMA IntakeFrame ==
  ASSUME NEW h, ServeIntake(h)
  PROVE  UNCHANGED <<sfiles, delivery>>
<1>1. ASSUME BeginIntake(h) PROVE UNCHANGED <<sfiles, delivery>>
  BY <1>1, Zenon DEF BeginIntake
<1>2. ASSUME BeginDevelop(h) PROVE UNCHANGED <<sfiles, delivery>>
  BY <1>2, Zenon DEF BeginDevelop
<1>3. ASSUME OpenUploads(h) \/ Receive(h) \/ Stage(h) PROVE UNCHANGED <<sfiles, delivery>>
  BY <1>3, Zenon DEF OpenUploads, Receive, Stage
<1>4. ASSUME PrepareEditable(h) PROVE UNCHANGED <<sfiles, delivery>>
  BY <1>4, Zenon DEF PrepareEditable
<1>5. ASSUME DecodeRaw(h) PROVE UNCHANGED <<sfiles, delivery>>
  BY <1>5, Zenon DEF DecodeRaw
<1>6. ASSUME HandToISP(h) \/ TearPlan(h) \/ WritePlan(h) \/ ClearUploads(h) PROVE UNCHANGED <<sfiles, delivery>>
  BY <1>6, Zenon DEF HandToISP, TearPlan, WritePlan, ClearUploads
<1>7. ASSUME OpenPlan(h) \/ Render(h) PROVE UNCHANGED <<sfiles, delivery>>
  BY <1>7, Zenon DEF OpenPlan, Render
<1> QED BY <1>1, <1>2, <1>3, <1>4, <1>5, <1>6, <1>7 DEF ServeIntake

\* Assessments touch none of all these.
LEMMA QualityFrame ==
  ASSUME NEW h, Judges(h)
  PROVE  UNCHANGED <<sfiles, delivery, intake>> /\ Counted
<1> DEFINE Frame == UNCHANGED <<sfiles, delivery, intake>> /\ Counted
<1>1. ASSUME BeginAssess(h) PROVE Frame
  <2>1. UNCHANGED <<sfiles, delivery, intake, quality, changes>>
    BY <1>1, Zenon DEF BeginAssess
  <2>2. PICK c : Begins(h, c)
    BY <1>1, Zenon DEF BeginAssess
  <2> QED BY <2>1, <2>2, BeginsCounts
<1>2. ASSUME ShowJudge(h) \/ Measure(h) \/ Gather(h) PROVE Frame
  BY <1>2, StaysCounted, Zenon DEF ShowJudge, Measure, Gather
<1>3. ASSUME JudgeAnswers(h) PROVE Frame
  BY <1>3, StaysCounted, Zenon DEF JudgeAnswers
<1>4. ASSUME Calibrate(h) PROVE Frame
  BY <1>4, StaysCounted, Zenon DEF Calibrate
<1> QED BY <1>1, <1>2, <1>3, <1>4 DEF Judges

-----------------------------------------------------------------------------
\* The whole session.
SessionInv ==
  /\ Orderly /\ JobInv
  /\ CatalogInv /\ EditInv /\ LettersInv /\ CompareInv /\ DeliveryInv /\ IntakeInv /\ QualityInv

LEMMA JobSpared == ASSUME JobInv, UNCHANGED jobs PROVE JobInv'
BY DEF JobInv, jobs

LEMMA CountGoesOn == ASSUME IntakeInv, Counted PROVE requests' \in Nat
BY DEF IntakeInv, IntakeFiles, Counted

\* A turn spares the requests of every other kind.
LEMMA OthersSpared ==
  ASSUME NEW h \in Handler, NEW K, Turn(h, K),
         K \in {CatalogKinds, EditKinds, LettersKinds, CompareKinds, DeliveryKinds, IntakeKinds, QualityKinds}
  PROVE  /\ K # CatalogKinds => Spares(CatalogKinds)
         /\ K # EditKinds => Spares(EditKinds)
         /\ K # LettersKinds => Spares(LettersKinds) /\ Overlaps(LettersKinds)
         /\ K # CompareKinds => Spares(CompareKinds)
         /\ K # DeliveryKinds => Spares(DeliveryKinds) /\ Keeps(DeliveryKinds)
         /\ K # IntakeKinds => Spares(IntakeKinds)
         /\ K # QualityKinds => Spares(QualityKinds)
<1> DEFINE Kinded == {CatalogKinds, EditKinds, LettersKinds, CompareKinds, DeliveryKinds, IntakeKinds, QualityKinds}
<1>1. \A L \in Kinded : "none" \notin L /\ (K # L => K \cap L = {})
  BY DEF CatalogKinds, EditKinds, LettersKinds, CompareKinds, DeliveryKinds, IntakeKinds, QualityKinds
<1>2. \A L \in Kinded : K # L => Spares(L) /\ Overlaps(L) /\ Keeps(L)
  BY <1>1, TurnSpares
<1> QED BY <1>2

LEMMA KindsDiffer ==
  /\ CatalogKinds \notin {EditKinds, LettersKinds, CompareKinds, DeliveryKinds, IntakeKinds, QualityKinds}
  /\ EditKinds \notin {LettersKinds, CompareKinds, DeliveryKinds, IntakeKinds, QualityKinds}
  /\ LettersKinds \notin {CompareKinds, DeliveryKinds, IntakeKinds, QualityKinds}
  /\ CompareKinds \notin {DeliveryKinds, IntakeKinds, QualityKinds}
  /\ DeliveryKinds \notin {IntakeKinds, QualityKinds}
  /\ IntakeKinds # QualityKinds
BY DEF CatalogKinds, EditKinds, LettersKinds, CompareKinds, DeliveryKinds, IntakeKinds, QualityKinds

\* The steps of each group keep the whole invariant: their own part by the lemma above, the others because they are spared.
LEMMA CatalogKeeps ==
  ASSUME SessionInv, NEW h \in Handler, ServeCatalog(h), UNCHANGED <<delivery, intake, quality>>
  PROVE  SessionInv'
<1>1. Turn(h, CatalogKinds) /\ CatalogInv'
  BY CatalogStep DEF SessionInv
<1>2. UNCHANGED <<decisions, edit, letters, jobs>> /\ requests' \in Nat
  BY CatalogFrame, CountGoesOn DEF SessionInv
<1>3. /\ Spares(EditKinds) /\ Spares(LettersKinds) /\ Overlaps(LettersKinds) /\ Spares(CompareKinds)
      /\ Spares(DeliveryKinds) /\ Keeps(DeliveryKinds) /\ Spares(IntakeKinds) /\ Spares(QualityKinds)
  BY <1>1, OthersSpared, KindsDiffer
<1>4. JobInv' /\ EditInv' /\ LettersInv' /\ CompareInv'
  BY <1>2, <1>3, JobSpared, EditSpared, LettersSpared, CompareSpared DEF SessionInv
<1>5. DeliveryInv' /\ IntakeInv' /\ QualityInv'
  <2>1. DeliveryInv'
    BY <1>3, ChangesStay, DeliverySpared DEF SessionInv, delivery, DeliveryInv, DeliveryFiles
  <2>2. IntakeInv'
    BY <1>2, <1>3, IntakeSpared DEF SessionInv
  <2>3. QualityInv'
    BY <1>3, QualitySpared DEF SessionInv, quality
  <2> QED BY <2>1, <2>2, <2>3
<1> QED BY <1>1, <1>4, <1>5 DEF SessionInv, Turn, Goal

LEMMA EditKeeps ==
  ASSUME SessionInv, NEW h \in Handler, ServeEdit(h), UNCHANGED <<delivery, intake, quality>>
  PROVE  SessionInv'
<1>1. Turn(h, EditKinds) /\ EditInv' /\ JobInv'
  BY EditStep DEF SessionInv
<1>2. UNCHANGED <<catalog, decisions, letters>> /\ requests' \in Nat
  BY EditFrame, CountGoesOn DEF SessionInv, cards
<1>3. /\ Spares(CatalogKinds) /\ Spares(LettersKinds) /\ Overlaps(LettersKinds) /\ Spares(CompareKinds)
      /\ Spares(DeliveryKinds) /\ Keeps(DeliveryKinds) /\ Spares(IntakeKinds) /\ Spares(QualityKinds)
  BY <1>1, OthersSpared, KindsDiffer
<1>4. CatalogInv' /\ LettersInv' /\ CompareInv'
  BY <1>2, <1>3, CatalogSpared, LettersSpared, CompareSpared DEF SessionInv
<1>5. DeliveryInv' /\ IntakeInv' /\ QualityInv'
  <2>1. DeliveryInv'
    BY <1>3, ChangesStay, DeliverySpared DEF SessionInv, delivery, DeliveryInv, DeliveryFiles
  <2>2. IntakeInv'
    BY <1>2, <1>3, IntakeSpared DEF SessionInv
  <2>3. QualityInv'
    BY <1>3, QualitySpared DEF SessionInv, quality
  <2> QED BY <2>1, <2>2, <2>3
<1> QED BY <1>1, <1>4, <1>5 DEF SessionInv, Turn, Goal

LEMMA LettersKeep ==
  ASSUME SessionInv, NEW h \in Handler, ServeLetters(h), UNCHANGED <<delivery, intake, quality>>
  PROVE  SessionInv'
<1>1. Turn(h, LettersKinds) /\ LettersInv' /\ JobInv'
  <2>1. Investigates(h) \/ Retries(h)
    BY DEF ServeLetters, Investigates, Retries
  <2> QED BY <2>1, InvestigateStep, RetryStep DEF SessionInv
<1>2. UNCHANGED <<catalog, decisions, edit>> /\ requests' \in Nat
  BY LettersFrame, CountGoesOn DEF SessionInv, cards
<1>3. /\ Spares(CatalogKinds) /\ Spares(EditKinds) /\ Spares(CompareKinds)
      /\ Spares(DeliveryKinds) /\ Keeps(DeliveryKinds) /\ Spares(IntakeKinds) /\ Spares(QualityKinds)
  BY <1>1, OthersSpared, KindsDiffer
<1>4. CatalogInv' /\ EditInv' /\ CompareInv'
  BY <1>2, <1>3, CatalogSpared, EditSpared, CompareSpared DEF SessionInv
<1>5. DeliveryInv' /\ IntakeInv' /\ QualityInv'
  <2>1. DeliveryInv'
    BY <1>3, ChangesStay, DeliverySpared DEF SessionInv, delivery, DeliveryInv, DeliveryFiles
  <2>2. IntakeInv'
    BY <1>2, <1>3, IntakeSpared DEF SessionInv
  <2>3. QualityInv'
    BY <1>3, QualitySpared DEF SessionInv, quality
  <2> QED BY <2>1, <2>2, <2>3
<1> QED BY <1>1, <1>4, <1>5 DEF SessionInv, Turn, Goal

LEMMA CompareKeeps ==
  ASSUME SessionInv, NEW h \in Handler, ServeCompare(h), UNCHANGED <<delivery, intake, quality>>
  PROVE  SessionInv'
<1>1. Turn(h, CompareKinds) /\ CompareInv'
  BY CompareStep DEF SessionInv
<1>2. UNCHANGED <<catalog, edit, letters, jobs>> /\ requests' \in Nat
  BY CompareFrame, CountGoesOn DEF SessionInv
<1>3. /\ Spares(CatalogKinds) /\ Spares(EditKinds) /\ Spares(LettersKinds) /\ Overlaps(LettersKinds)
      /\ Spares(DeliveryKinds) /\ Keeps(DeliveryKinds) /\ Spares(IntakeKinds) /\ Spares(QualityKinds)
  BY <1>1, OthersSpared, KindsDiffer
<1>4. JobInv' /\ CatalogInv' /\ EditInv' /\ LettersInv'
  BY <1>2, <1>3, JobSpared, CatalogSpared, EditSpared, LettersSpared DEF SessionInv
<1>5. DeliveryInv' /\ IntakeInv' /\ QualityInv'
  <2>1. DeliveryInv'
    BY <1>3, ChangesStay, DeliverySpared DEF SessionInv, delivery, DeliveryInv, DeliveryFiles
  <2>2. IntakeInv'
    BY <1>2, <1>3, IntakeSpared DEF SessionInv
  <2>3. QualityInv'
    BY <1>3, QualitySpared DEF SessionInv, quality
  <2> QED BY <2>1, <2>2, <2>3
<1> QED BY <1>1, <1>4, <1>5 DEF SessionInv, Turn, Goal

\* Nothing of the session's small files changes.
LEMMA SessionFilesSpared ==
  ASSUME SessionInv, UNCHANGED sfiles, Spares(CatalogKinds), Spares(EditKinds),
         Spares(LettersKinds), Spares(CompareKinds)
  PROVE  JobInv' /\ CatalogInv' /\ EditInv' /\ LettersInv' /\ CompareInv'
<1>1. UNCHANGED <<catalog, decisions, edit, letters, jobs, job, failed>>
  BY DEF sfiles, cards, jobs
<1>2. FailuresStay
  BY <1>1 DEF FailuresStay
<1> QED BY <1>1, <1>2, JobSpared, CatalogSpared, EditSpared, LettersSpared, CompareSpared DEF SessionInv

LEMMA DeliveryKeeps ==
  ASSUME SessionInv, NEW h \in Handler, ServeDelivery(h), UNCHANGED <<intake, quality>>
  PROVE  SessionInv'
<1>1. Turn(h, DeliveryKinds) /\ DeliveryInv'
  BY DeliverStep DEF SessionInv
<1>2. UNCHANGED sfiles /\ requests' \in Nat
  BY DeliveryFrame, CountGoesOn DEF SessionInv
<1>3. /\ Spares(CatalogKinds) /\ Spares(EditKinds) /\ Spares(LettersKinds) /\ Spares(CompareKinds)
      /\ Spares(IntakeKinds) /\ Spares(QualityKinds)
  BY <1>1, OthersSpared, KindsDiffer
<1>4. JobInv' /\ CatalogInv' /\ EditInv' /\ LettersInv' /\ CompareInv'
  BY <1>2, <1>3, SessionFilesSpared
<1>5. IntakeInv'
  BY <1>2, <1>3, IntakeSpared DEF SessionInv
<1>6. QualityInv'
  BY <1>3, QualitySpared DEF SessionInv, quality
<1> QED BY <1>1, <1>4, <1>5, <1>6 DEF SessionInv, Turn, Goal

LEMMA IntakeKeeps ==
  ASSUME SessionInv, NEW h \in Handler, ServeIntake(h), UNCHANGED quality
  PROVE  SessionInv'
<1>1. Turn(h, IntakeKinds) /\ IntakeInv'
  BY IntakeServed DEF SessionInv
<1>2. UNCHANGED <<sfiles, delivery>>
  BY IntakeFrame
<1>3. /\ Spares(CatalogKinds) /\ Spares(EditKinds) /\ Spares(LettersKinds) /\ Spares(CompareKinds)
      /\ Spares(DeliveryKinds) /\ Keeps(DeliveryKinds) /\ Spares(QualityKinds)
  BY <1>1, OthersSpared, KindsDiffer
<1>4. JobInv' /\ CatalogInv' /\ EditInv' /\ LettersInv' /\ CompareInv'
  BY <1>2, <1>3, SessionFilesSpared
<1>5. DeliveryInv'
  BY <1>2, <1>3, ChangesStay, DeliverySpared DEF SessionInv, delivery, DeliveryInv, DeliveryFiles
<1>6. QualityInv'
  BY <1>3, QualitySpared DEF SessionInv, quality
<1> QED BY <1>1, <1>4, <1>5, <1>6 DEF SessionInv, Turn, Goal

LEMMA JudgesKeep ==
  ASSUME SessionInv, NEW h \in Handler, Judges(h)
  PROVE  SessionInv'
<1>1. Turn(h, QualityKinds) /\ QualityInv'
  BY JudgeStep DEF SessionInv
<1>2. UNCHANGED <<sfiles, delivery, intake>> /\ requests' \in Nat
  BY QualityFrame, CountGoesOn DEF SessionInv
<1>3. /\ Spares(CatalogKinds) /\ Spares(EditKinds) /\ Spares(LettersKinds) /\ Spares(CompareKinds)
      /\ Spares(DeliveryKinds) /\ Keeps(DeliveryKinds) /\ Spares(IntakeKinds)
  BY <1>1, OthersSpared, KindsDiffer
<1>4. JobInv' /\ CatalogInv' /\ EditInv' /\ LettersInv' /\ CompareInv'
  BY <1>2, <1>3, SessionFilesSpared
<1>5. DeliveryInv'
  BY <1>2, <1>3, ChangesStay, DeliverySpared DEF SessionInv, delivery, DeliveryInv, DeliveryFiles
<1>6. IntakeInv'
  BY <1>2, <1>3, IntakeSpared DEF SessionInv
<1> QED BY <1>1, <1>4, <1>5, <1>6 DEF SessionInv, Turn, Goal

-----------------------------------------------------------------------------
\* Steps of nobody: all requests are as they were, alone no more, or over.
LEMMA NobodySpares ==
  ASSUME Orderly, \/ call' = call
                  \/ call' = [h \in Handler |-> Idle]
                  \/ call' = [h \in Handler |-> [call[h] EXCEPT !.solo = call[h].kind = "none"]]
  PROVE  Orderly' /\ \A L : "none" \notin L => Spares(L) /\ (call' # call => Overlaps(L))
<1>1. CASE call' = call
  BY <1>1 DEF Orderly, Spares, Same
<1>2. CASE call' = [h \in Handler |-> Idle]
  BY <1>2, IdleProgrammed DEF Orderly, Spares, Overlaps
<1>3. CASE call' = [h \in Handler |-> [call[h] EXCEPT !.solo = call[h].kind = "none"]]
  <2>1. \A h \in Handler : call'[h] = [call[h] EXCEPT !.solo = call[h].kind = "none"] /\ Programmed(call[h])
    BY <1>3 DEF Orderly
  <2>2. ASSUME NEW h \in Handler
        PROVE  /\ Programmed(call'[h]) /\ Same(call'[h], call[h])
               /\ (call'[h].solo <=> call[h].kind = "none") /\ call'[h].kind = call[h].kind
    <3>1. DOMAIN call[h] = Fields
      BY <2>1 DEF Programmed
    <3>2. /\ DOMAIN call'[h] = Fields /\ Same(call'[h], call[h])
          /\ call'[h].solo = (call[h].kind = "none")
      BY <2>1, <3>1 DEF Same, Fields
    <3> QED BY <2>1, <3>2 DEF Programmed, Same
  <2>3. Orderly'
    BY <1>3, <2>2 DEF Orderly
  <2> QED BY <2>2, <2>3 DEF Spares, Overlaps
<1> QED BY <1>1, <1>2, <1>3

\* What happens when no request moves keeps it too: jobs move, a crash, a new result, raw artifacts.
LEMMA NobodyKeeps ==
  ASSUME SessionInv, requests' \in Nat,
         \/ UNCHANGED <<sfiles, delivery, intake, quality>>
              /\ ((call' = call /\ changes' = changes) \/ (call' = [h \in Handler |-> Idle] /\ changes' = changes + 1))
         \/ JobMoves /\ UNCHANGED <<delivery, intake, quality>>
         \/ RawMoves /\ UNCHANGED <<intake, quality>>
         \/ ResultMoves
         \/ \E h \in Handler : Propose(h)
  PROVE  SessionInv'
<1>1. Orderly' /\ \A L : "none" \notin L => Spares(L)
  <2>1. \/ call' = call \/ call' = [h \in Handler |-> Idle]
        \/ call' = [h \in Handler |-> [call[h] EXCEPT !.solo = call[h].kind = "none"]]
    <3>1. JobMoves \/ RawMoves => call' = call
      BY Zenon DEF JobMoves, RawMoves
    <3>2. (\E h \in Handler : Propose(h)) => call' = call
      BY Zenon DEF Propose
    <3>3. ResultMoves => call' = [h \in Handler |-> [call[h] EXCEPT !.solo = call[h].kind = "none"]]
      BY Zenon DEF ResultMoves
    <3> QED BY <3>1, <3>2, <3>3
  <2> QED BY <2>1, NobodySpares DEF SessionInv
<1>2. /\ Spares(CatalogKinds) /\ Spares(EditKinds) /\ Spares(LettersKinds) /\ Spares(CompareKinds)
      /\ Spares(DeliveryKinds) /\ Spares(IntakeKinds) /\ Spares(QualityKinds)
  BY <1>1 DEF CatalogKinds, EditKinds, LettersKinds, CompareKinds, DeliveryKinds, IntakeKinds, QualityKinds
<1> DEFINE FilesInv == JobInv' /\ CatalogInv' /\ EditInv' /\ LettersInv' /\ CompareInv'
<1>3. UNCHANGED sfiles => FilesInv
  BY <1>2, SessionFilesSpared
<1>0. changes' \in Nat \ {0} \/ (changes' = changes /\ Keeps(DeliveryKinds))
  <2>1. changes \in Nat /\ Orderly
    BY DEF SessionInv, DeliveryInv, DeliveryFiles
  <2>2. changes' = changes + 1 \/ (changes' = changes /\ call' = call)
    <3>1. JobMoves \/ RawMoves \/ ResultMoves => changes' = changes + 1
      BY Zenon DEF JobMoves, RawMoves, ResultMoves
    <3>2. (\E h \in Handler : Propose(h)) => changes' = changes /\ call' = call
      BY Zenon DEF Propose
    <3> QED BY <3>1, <3>2
  <2>3. CASE changes' = changes + 1
    BY <2>1, <2>3
  <2>4. CASE changes' = changes /\ call' = call
    BY <2>4 DEF Keeps, Same
  <2> QED BY <2>2, <2>3, <2>4
<1>4. UNCHANGED delivery => DeliveryInv'
  BY <1>0, <1>2, DeliverySpared DEF SessionInv, delivery, DeliveryInv, DeliveryFiles
<1>5. UNCHANGED intake => IntakeInv'
  BY <1>2, IntakeSpared DEF SessionInv
<1>6. UNCHANGED <<result, assessments>> => QualityInv'
  BY <1>2, QualitySpared DEF SessionInv
<1>7. UNCHANGED quality => QualityInv'
  BY <1>6 DEF quality
<1>8. CASE UNCHANGED <<sfiles, delivery, intake, quality>>
  BY <1>1, <1>3, <1>4, <1>5, <1>7, <1>8 DEF SessionInv
<1>9. CASE JobMoves /\ UNCHANGED <<delivery, intake, quality>>
  <2>1. UNCHANGED <<cards, edit, letters>>
    BY <1>9, Zenon DEF JobMoves
  <2>2. PICK j \in Job :
          \/ /\ latest' = j
             /\ \E status \in Onward(job[j]) :
                  /\ job' = [job EXCEPT ![j] = status]
                  /\ IF status \in Failing THEN AnyTime(j) ELSE UNCHANGED failed
          \/ job[j] \in Failing /\ Archived(j) /\ UNCHANGED <<job, latest>>
    BY <1>9, Zenon DEF JobMoves
  <2>3. JobInv /\ AnyTime(j)
    BY <2>2 DEF SessionInv, AnyTime
  <2>4. failed' \in [Job -> 0..MaxLetters] /\ \A i \in Job : failed[i] >= 2 => failed'[i] >= 2
    BY <2>3, HistoryGrows
  <2>8. ASSUME job' = job, latest' = latest PROVE FailuresStay /\ JobInv'
    BY <2>3, <2>4, <2>8 DEF FailuresStay, JobInv
  <2>9. ASSUME latest' = j, \E status \in Onward(job[j]) : job' = [job EXCEPT ![j] = status]
        PROVE  FailuresStay /\ JobInv'
    <3>1. PICK status \in Onward(job[j]) : job' = [job EXCEPT ![j] = status]
      BY <2>9
    <3>2. job \in [Job -> Status] /\ job[j] \in Status
      BY <2>3 DEF JobInv
    <3>3. status \in Status \ {"absent"} /\ job[j] \notin Failing
      BY <3>2 DEF Onward, Finished, Status, Active, Failing
    <3>4. job' \in [Job -> Status] /\ job'[j] = status /\ \A i \in Job : i # j => job'[i] = job[i]
      BY <3>1, <3>2, <3>3
    <3>5. FailuresStay
      BY <2>4, <3>3, <3>4 DEF FailuresStay
    <3>6. JobInv'
      BY <2>4, <2>9, <3>3, <3>4 DEF JobInv
    <3> QED BY <3>5, <3>6
  <2>5. FailuresStay /\ JobInv'
    BY <2>2, <2>8, <2>9
  <2>7. CatalogInv' /\ EditInv' /\ LettersInv' /\ CompareInv'
    BY <1>2, <2>1, <2>5, CatalogSpared, EditSpared, LettersSpared, CompareSpared DEF SessionInv, cards
  <2> QED BY <1>1, <1>4, <1>5, <1>7, <1>9, <2>5, <2>7 DEF SessionInv
<1>10. CASE RawMoves /\ UNCHANGED <<intake, quality>>
  <2>1. UNCHANGED <<sfiles, room, zips, newest>> /\ raw' \in {{"preview"}, RawItem}
    BY <1>10, Zenon DEF RawMoves
  <2>2. raw' \subseteq RawItem
    BY <2>1 DEF RawItem
  <2>3. DeliveryInv'
    BY <1>0, <1>2, <2>1, <2>2, DeliverySpared DEF SessionInv
  <2> QED BY <1>1, <1>3, <1>5, <1>7, <1>10, <2>1, <2>3 DEF SessionInv
<1>11. CASE \E h \in Handler : Propose(h)
  <2>1. UNCHANGED <<sfiles, delivery, intake, result, assessments>>
    BY <1>11, Zenon DEF Propose
  <2> QED BY <1>1, <1>3, <1>4, <1>5, <1>6, <2>1 DEF SessionInv
<1>12. CASE ResultMoves
  <2>1. UNCHANGED <<sfiles, delivery, intake, assessments>>
        /\ call' = [h \in Handler |-> [call[h] EXCEPT !.solo = call[h].kind = "none"]]
    BY <1>12, Zenon DEF ResultMoves
  <2>2. QualityFiles'
    <3>1. result'.of # 0 => result'.look \in Picture
      <4>1. CASE UNCHANGED result
        BY <4>1 DEF SessionInv, QualityInv, QualityFiles
      <4>2. CASE \E look \in Look : result' \in {[of |-> result.of + 1, look |-> look], [of |-> 0, look |-> NoPicture]}
        BY <4>2, QualityAssumption
      <4> QED BY <1>12, <4>1, <4>2, Zenon DEF ResultMoves
    <3> QED BY <2>1, <3>1 DEF SessionInv, QualityInv, QualityFiles, ApprovalsAsPromised
  <2>3. ASSUME NEW g \in Handler, call'[g].kind = "assess"
        PROVE  Assesses(call'[g], Head(call'[g].rest), result'.of)
    <3>1. DOMAIN call[g] = Fields /\ call'[g] = [call[g] EXCEPT !.solo = call[g].kind = "none"]
      BY <2>1 DEF SessionInv, Orderly, Programmed
    <3>2. Same(call'[g], call[g]) /\ call'[g].solo = (call[g].kind = "none")
      BY <3>1 DEF Fields, Same
    <3>3. ~call'[g].solo /\ Assesses(call[g], Head(call[g].rest), result.of)
      BY <2>3, <3>2 DEF SessionInv, QualityInv, QualityKnows, Same
    <3> QED BY <3>2, <3>3 DEF Assesses, Same
  <2>4. QualityInv'
    BY <2>2, <2>3 DEF QualityInv, QualityKnows
  <2> QED BY <1>1, <1>3, <1>4, <1>5, <2>1, <2>4 DEF SessionInv
<1> QED BY <1>8, <1>9, <1>10, <1>11, <1>12

\* The invariant holds of an empty session.
LEMMA SessionInitHolds == QualityInit => SessionInv
<1> SUFFICES ASSUME QualityInit PROVE SessionInv
  OBVIOUS
<1>i. DeliveryInit /\ SessionInit /\ IntakeInit
  BY DEF QualityInit, IntakeInit, DeliveryInit
<1>1. call = [h \in Handler |-> Idle] /\ \A h \in Handler : call[h] = Idle /\ call[h].kind = "none"
  BY <1>i, IdleProgrammed, Zenon DEF SessionInit
<1>2. Orderly
  BY <1>1, IdleProgrammed DEF Orderly
<1>3. JobInv
  <2>1. job \in [Job -> IF Seen({"refresh", "retry"}) THEN {"absent", "submitted", "error", "done"} ELSE {"absent"}]
        /\ latest \in {j \in Job : job[j] # "absent"} \cup {None}
    BY <1>i, Zenon DEF SessionInit
  <2>2. failed \in [Job -> IF Seen({"retry"}) THEN 0..MaxLetters ELSE {0}]
    BY <1>i, Zenon DEF SessionInit
  <2>3. job \in [Job -> Status]
    <3>1. {"absent", "submitted", "error", "done"} \subseteq Status
      BY DEF Status, Failing, Active
    <3> QED BY <2>1, <3>1
  <2>4. failed \in [Job -> 0..MaxLetters]
    BY <2>2, SessionAssumption
  <2>5. latest \in Job \cup {None} /\ (latest # None => job[latest] # "absent")
    BY <2>1
  <2> QED BY <2>3, <2>4, <2>5 DEF JobInv
<1>4. CatalogInv
  <2>1. PICK present \in IF Seen({"catalog"}) THEN SUBSET Session ELSE {{}} : catalog = [s \in present |-> File(Untouched)]
    BY <1>i, Zenon DEF SessionInit
  <2>2. IsFile(File(Untouched)) /\ File(Untouched).text \in [Field -> BOOLEAN]
    BY DEF IsFile, File, Untouched
  <2>3. present \subseteq Session
    BY <2>1
  <2> QED BY <1>1, <2>1, <2>2, <2>3 DEF CatalogInv, CatalogKnows
<1>5. EditInv
  <2>1. selection = [images |-> None, state |-> File(NoSelection)] /\ linkage = File(NoLinkage)
    BY <1>i, Zenon DEF SessionInit
  <2>2. EditFiles
    BY <2>1, NoLinkageIsLinkage DEF EditFiles, File, IsFile
  <2> QED BY <1>1, <2>2 DEF EditInv, EditKnows, EditKinds
<1>6. LettersInv
  <2>1. letters = File(Unopened)
    BY <1>i, Zenon DEF SessionInit
  <2>2. Open \in Investigation
    BY DEF Open, Investigation
  <2>3. LettersFile
    BY <2>1, <2>2 DEF LettersFile, IsFile, File, Unopened
  <2> QED BY <1>1, <2>3 DEF LettersInv, LettersKnow, InvestigateKnows, RetryKnows
<1>7. CompareInv
  <2>1. decisions = [files |-> 0, lines |-> 0]
    BY <1>i, Zenon DEF SessionInit
  <2>2. Filed = {}
    BY <1>1 DEF Filed
  <2>3. IsFiniteSet(Filed) /\ Cardinality(Filed) = 0
    BY <2>2, FS_EmptySet
  <2> QED BY <2>1, <2>3 DEF CompareInv
<1>8. DeliveryInv
  <2>1. raw \in {{}, RawItem} /\ room = [r \in Room |-> None] /\ zips = <<>> /\ newest = 0 /\ changes = 0
    <3>1. /\ raw \in (IF Seen({"package"}) THEN {{}, RawItem} ELSE {{}})
          /\ room = [r \in Room |-> None] /\ zips = <<>> /\ newest = 0
      BY <1>i, Zenon DEF DeliveryInit
    <3>2. changes = 0
      BY <1>i, Zenon DEF SessionInit
    <3> QED BY <3>1, <3>2
  <2>2. zips \in Seq(Zip) /\ Len(zips) = 0
    BY <2>1
  <2>3. DeliveryFiles
    BY <2>1, <2>2 DEF DeliveryFiles
  <2>4. OpenHeld
    BY <2>2 DEF OpenHeld
  <2> QED BY <1>1, <2>3, <2>4 DEF DeliveryInv, DeliveryKnows, DeliveryKinds
<1>9. IntakeInv
  <2>1. IsDisk(disk) /\ plan = File(NoPlan) /\ requests = 0
    BY <1>i DEF IntakeInit, SessionInit, IsDisk
  <2>2. IntakeFiles
    BY <2>1 DEF IntakeFiles, IsFile, File, IsPlan, NoPlan
  <2> QED BY <1>1, <2>2 DEF IntakeInv, IntakeKnows, IntakeKinds
<1>10. QualityInv
  <2>1. assessments = <<>> /\ result.look \in Picture
    <3>1. PICK look \in Look : result = [of |-> 1, look |-> look]
      BY Zenon DEF QualityInit
    <3>2. assessments = <<>>
      BY Zenon DEF QualityInit
    <3> QED BY <3>1, <3>2, QualityAssumption
  <2>2. assessments \in Seq({}) /\ DOMAIN assessments = {}
    BY <2>1
  <2>3. QualityFiles
    BY <2>1, <2>2 DEF QualityFiles, ApprovalsAsPromised
  <2> QED BY <1>1, <2>3 DEF QualityInv, QualityKnows
<1> QED BY <1>2, <1>3, <1>4, <1>5, <1>6, <1>7, <1>8, <1>9, <1>10 DEF SessionInv

\* Every step keeps it.
LEMMA SessionStepKeeps == SessionInv /\ [QualityStep]_qvars => SessionInv'
<1> SUFFICES ASSUME SessionInv, [QualityStep]_qvars PROVE SessionInv'
  OBVIOUS
<1>0. requests \in Nat
  BY DEF SessionInv, IntakeInv, IntakeFiles
<1>1. ASSUME NEW h \in Handler, ServeQuality(h) PROVE SessionInv'
  <2>1. CASE Judges(h)
    BY <2>1, JudgesKeep
  <2>2. CASE Propose(h)
    <3>1. UNCHANGED requests \/ requests' = requests + 1
      BY <2>2, Zenon DEF Propose
    <3>2. requests' \in Nat
      BY <1>0, <3>1
    <3> QED BY <2>2, <3>2, NobodyKeeps
  <2> QED BY <1>1, <2>1, <2>2 DEF ServeQuality, Judges
<1>2. ASSUME ResultMoves PROVE SessionInv'
  <2>1. requests' \in Nat
    BY <1>0, <1>2, Zenon DEF ResultMoves
  <2> QED BY <1>2, <2>1, NobodyKeeps
<1>3. ASSUME NEW h \in Handler, ServeIntake(h), UNCHANGED quality PROVE SessionInv'
  BY <1>3, IntakeKeeps
<1>4. ASSUME NEW h \in Handler, ServeDelivery(h), UNCHANGED <<intake, quality>> PROVE SessionInv'
  BY <1>4, DeliveryKeeps
<1>5. ASSUME NEW h \in Handler, ServeSession(h), UNCHANGED <<delivery, intake, quality>> PROVE SessionInv'
  BY <1>5, CatalogKeeps, EditKeeps, LettersKeep, CompareKeeps DEF ServeSession
<1>6. ASSUME JobMoves, UNCHANGED <<delivery, intake, quality>> PROVE SessionInv'
  <2>1. requests' \in Nat
    BY <1>0, <1>6, Zenon DEF JobMoves
  <2> QED BY <1>6, <2>1, NobodyKeeps
<1>7. ASSUME SessionCrash, UNCHANGED <<delivery, intake, quality>> PROVE SessionInv'
  <2>1. requests' \in Nat /\ UNCHANGED sfiles /\ call' = [h \in Handler |-> Idle] /\ changes' = changes + 1
    BY <1>0, <1>7, Zenon DEF SessionCrash
  <2> QED BY <1>7, <2>1, NobodyKeeps
<1>8. ASSUME RawMoves, UNCHANGED <<intake, quality>> PROVE SessionInv'
  <2>1. requests' \in Nat
    BY <1>0, <1>8, Zenon DEF RawMoves
  <2> QED BY <1>8, <2>1, NobodyKeeps
<1>9. ASSUME UNCHANGED qvars PROVE SessionInv'
  <2>1. UNCHANGED <<sfiles, delivery, intake, quality>> /\ call' = call /\ requests' = requests /\ changes' = changes
    BY <1>9 DEF qvars, ivars, dvars, svars, scounts
  <2> QED BY <1>0, <2>1, NobodyKeeps
<1>10. QualityStep => \/ \E h \in Handler : ServeQuality(h)
                      \/ ResultMoves
                      \/ \E h \in Handler : ServeIntake(h) /\ UNCHANGED quality
                      \/ \E h \in Handler : ServeDelivery(h) /\ UNCHANGED <<intake, quality>>
                      \/ \E h \in Handler : ServeSession(h) /\ UNCHANGED <<delivery, intake, quality>>
                      \/ JobMoves /\ UNCHANGED <<delivery, intake, quality>>
                      \/ SessionCrash /\ UNCHANGED <<delivery, intake, quality>>
                      \/ RawMoves /\ UNCHANGED <<intake, quality>>
  BY DEF QualityStep, IntakeStep, DeliveryStep
<1> QED BY <1>1, <1>2, <1>3, <1>4, <1>5, <1>6, <1>7, <1>8, <1>9, <1>10

\* It holds in every state.
LEMMA SessionKept == SessionSpec => []SessionInv
BY SessionInitHolds, SessionStepKeeps, PTL DEF SessionSpec

-----------------------------------------------------------------------------
\* Files, requests and copies of a session are well formed, for any number of sessions, jobs, rooms and
\* requests that overlap or are cut off (the writers of studio_catalog, studio_edit_linkage, studio_ops and others).
THEOREM SessionTypesHold == SessionSpec => []SessionTypeOK
<1>1. SessionInv => SessionTypeOK
  <2> SUFFICES ASSUME SessionInv PROVE SessionTypeOK
    OBVIOUS
  <2>1. \A s \in DOMAIN catalog : s \in Session /\ catalog[s].text \in [Field -> BOOLEAN]
    BY DEF SessionInv, CatalogInv
  <2>2. /\ letters.text \in [Letter -> Investigation] /\ job \in [Job -> Status] /\ failed \in [Job -> 0..MaxLetters]
        /\ latest # None => job[latest] # "absent"
    BY DEF SessionInv, LettersInv, LettersFile, JobInv
  <2>3. decisions.lines <= decisions.files
    <3>1. Cardinality(Filed) \in Nat
      BY FS_CardinalityType DEF SessionInv, CompareInv
    <3> QED BY <3>1 DEF SessionInv, CompareInv
  <2>4. linkage.text.history # <<>> => linkage.text.index < Len(linkage.text.history)
    BY DEF SessionInv, EditInv, EditFiles, IsLinkage
  <2>5. \A h \in Handler : call[h].kind = "none" <=> call[h].rest = <<>>
    BY DEF SessionInv, Orderly, Programmed
  <2> QED BY <2>1, <2>2, <2>3, <2>4, <2>5 DEF SessionTypeOK
<1> QED BY <1>1, SessionKept, PTL

\* Whatever was assessed, a person is asked unless the verdict is a pass of confidence 70 that nothing
\* adjusted (calibrate in studio_quality_automation).
THEOREM ApprovalsHold == SessionSpec => []ApprovalsAsPromised
<1>1. SessionInv => ApprovalsAsPromised
  BY DEF SessionInv, QualityInv, QualityFiles
<1> QED BY <1>1, SessionKept, PTL

\* An update that nobody disturbed changes only the fields it was asked for, and an investigation only the
\* letter it is about, although each rewrites a whole file (studio_catalog, the investigations in studio_ops).
THEOREM EditsAreLocal == SessionSpec => UndisturbedEditsAreLocal
<1>1. ASSUME SessionInv, NEW h \in Handler, call[h].solo, ~call[h].blind
      PROVE  /\ SaveCatalog(h) =>
                  LET s == Head(call[h].todo)
                  IN  \A f \in Field \ DOMAIN call[h].ask : catalog'[s].text[f] = catalog[s].text[f]
             /\ Note(h) => \A l \in Letter \ {Head(call[h].todo)} : letters'.text[l] = letters.text[l]
  <2>1. SaveCatalog(h) => LET s == Head(call[h].todo)
                          IN  \A f \in Field \ DOMAIN call[h].ask : catalog'[s].text[f] = catalog[s].text[f]
    BY <1>1, SaveIsLocal DEF SessionInv
  <2>2. Note(h) => \A l \in Letter \ {Head(call[h].todo)} : letters'.text[l] = letters.text[l]
    BY <1>1, NoteIsLocal DEF SessionInv
  <2> QED BY <2>1, <2>2
<1>2. SessionInv => [\A h \in Handler : call[h].solo /\ ~call[h].blind =>
       /\ SaveCatalog(h) =>
            LET s == Head(call[h].todo)
            IN  \A f \in Field \ DOMAIN call[h].ask : catalog'[s].text[f] = catalog[s].text[f]
       /\ Note(h) => \A l \in Letter \ {Head(call[h].todo)} : letters'.text[l] = letters.text[l]]_svars
  BY <1>1
<1> QED BY <1>2, SessionKept, PTL DEF UndisturbedEditsAreLocal

\* When a request that nobody disturbed links an edit, the linkage has the mask of the selection on file
\* (studio_edit_linkage after apply, sync and the end of a job).
THEOREM LinkageIsOfSelection == SessionSpec => LinkageFollowsSelection
<1>1. SessionInv => [\A h \in Handler : call[h].solo /\ Link(h) /\ selection.state.text.mask # None
       => linkage'.text.mask = selection.state.text.mask]_svars
  BY LinkFollows DEF SessionInv
<1> QED BY <1>1, SessionKept, PTL DEF LinkageFollowsSelection

\* A retry of dead letters that nobody disturbed resets a job only because it failed, however long ago it was
\* listed, or because it failed twice and has been answered once already (list_dead_letters in studio_ops lists
\* every failed entry of the history, and retry_dead_letters in routes_studio goes through them one by one).
THEOREM RetriesAreOfFailures == SessionSpec => LoneRetryTakesFailures
<1>1. SessionInv => [\A h \in Handler : call[h].solo /\ Reset(h) /\ call[h].ask = None /\ job' # job =>
       LET j == Head(call[h].todo)
       IN  job[j] \in Failing \/ (j \in call[h].hold /\ failed[j] >= 2)]_svars
  BY ResetTakesFailures DEF SessionInv
<1> QED BY <1>1, SessionKept, PTL DEF LoneRetryTakesFailures

\* A package that nobody disturbed has every item chosen for it, and its manifest; a result that is on file
\* when items are chosen is one of them (studio_files).
THEOREM PackagesAreComplete == SessionSpec => LonePackageIsComplete
<1>1. SessionInv => [\A h \in Handler :
       /\ call[h].solo /\ FillZip(h)
            => zips'[call[h].hold.zip].files = {<<h, i>> : i \in call[h].hold.items \cup {Manifest}}
       /\ ChooseItems(h) /\ latest # None
            => (job[latest] = "done" => latest \in call'[h].hold.items)]_dvars
  BY ZipIsComplete, ChosenHasResult DEF SessionInv
<1> QED BY <1>1, SessionKept, PTL DEF LonePackageIsComplete

\* The pod is paused upon a packet only with a zip there: one built for it is closed whatever overlapped, and
\* has the photo and its editable copy if nothing did; one that was found may be half written, unless nothing
\* overlapped and nothing crashed (studio_recovery, and the zip being filled in studio_files).
THEOREM PausesHavePackages == SessionSpec => PauseHadAPackage
<1>1. SessionInv => [\A h \in Handler : PauseUponPacket(h) =>
       /\ call[h].hold.zip \in DOMAIN zips
       /\ LET zip == zips[call[h].hold.zip]
          IN  /\ call[h].ask # None \/ (call[h].solo /\ changes = 0) => zip.closed
              /\ call[h].ask # None /\ call[h].solo
                   => {"staged", "working"} \subseteq {f[2] : f \in zip.files}]_dvars
  BY PauserHasPackage DEF SessionInv
<1> QED BY <1>1, SessionKept, PTL DEF PauseHadAPackage

\* Photos staged, decoded and handed to DreamISP by a request that nobody disturbed are those its plan
\* names (studio_intake, studio_dreamisp_service).
THEOREM PlansAreOfTheirPhotos == SessionSpec => LonePlanIsOfItsPhotos
<1>1. SessionInv => [\A h \in Handler :
       /\ call[h].solo /\ WritePlan(h)
       /\ call[h].kind = "develop" => IsOfItsPhotos(plan.text)
       => IsOfItsPhotos(plan'.text)]_ivars
  BY LonePlanWritten DEF SessionInv
<1> QED BY <1>1, SessionKept, PTL DEF LonePlanIsOfItsPhotos

\* An assessment that needs no approval rests on a confident judge and on clean metrics and, undisturbed, on
\* the picture that is on file (studio_quality_automation).
THEOREM PassesAreClean == SessionSpec => AcceptedPassIsClean
<1>1. SessionInv => [\A h \in Handler : Calibrate(h) /\ seeded =>
       LET a == assessments'[Len(assessments')]
           c == call[h].hold
       IN  ~a.approval =>
             /\ c.judge.verdict = "pass" /\ c.judge.confidence >= 70
             /\ c.judge.axes["subject_preservation"] \notin {"failing", "doubtful"}
             /\ call[h].ask.tool = "replaceBg" => c.judge.axes["mask_boundary"] \notin {"failing", "doubtful"}
             /\ c.metrics.clip = 0 /\ c.metrics.detail > 0
             /\ call[h].ask.reference # NoPicture => c.metrics.detail >= Before.detail /\ c.metrics.tone = Before.tone
             /\ ~call[h].ask.packed /\ call[h].ask.tool = "replaceBg" => call[h].ask.masked
             /\ call[h].solo => c.of = result.of /\ c.shown \in {0, c.of}]_qvars
  BY PassWrittenIsClean DEF SessionInv
<1> QED BY <1>1, SessionKept, PTL DEF AcceptedPassIsClean
=============================================================================
