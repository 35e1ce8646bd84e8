--------------------------- MODULE SubtaskRunProofs ---------------------------
(***************************************************************************)
(* Proofs about SubtaskRun for any requests, any step cap, any number of   *)
(* hand-offs, items and restarts.  What holds of the turn at work holds of *)
(* the one its blob keeps: so the invariant is stated of a turn, its       *)
(* executor and its history, and of both.                                  *)
(***************************************************************************)
EXTENDS SubtaskRun, FiniteSetTheorems, TLAPS

Answers == [of : Nat, capped : BOOLEAN]
PhaseAnswers == [phase : Nat, item : Nat]
Calls == [phases : Seq(Phase), index : Nat, items : Int, item : Nat, first : Nat,
          until : BOOLEAN, answers : Seq(PhaseAnswers), last : Seq(PhaseAnswers),
          outputs : SUBSET Nat, notes : Seq(Nat),
          start : [answers : Nat, last : Seq(PhaseAnswers), notes : Nat]]
Turns == [origins : Seq(Nat), index : Nat, answers : Seq(Answers), exhausted : BOOLEAN,
          next : Nat, call : Calls]
Works == [origin : Nat, first : Nat, said : SUBSET Replies, start : Nat, output : Nat,
          ran : SUBSET PhaseAnswers, dropped : SUBSET Nat]
Pasts == [request : {NoRequest} \cup Requests, outputs : Nat, asked : Nat, restarts : Nat,
          faults : SUBSET {"crash", "redeploy"}]

(* The steps of a run are numbered without a gap. *)
Steps(t, lo, hi) == t \in [lo..hi -> [output : Nat, label : BOOLEAN]]
IsTrajectory(t) == t = Empty \/ \E lo, hi \in DOMAIN t : lo \in Nat /\ hi \in Nat /\ lo <= hi /\ Steps(t, lo, hi)
IsStash(s) ==
    /\ s \in [trajectory : {s.trajectory}, idx : Nat \cup {Unset}]
    /\ IsTrajectory(s.trajectory)
IsAgent(a) ==
    /\ a \in [trajectory : {a.trajectory}, idx : Nat, iteration : Nat, disabled : Replies,
              stash : {a.stash}]
    /\ IsTrajectory(a.trajectory) /\ IsStash(a.stash)
IsMemory(m) ==
    /\ m \in [floors : {m.floors}, live : BOOLEAN, changed : BOOLEAN, floor : Int, final : BOOLEAN]
    /\ m.floors = [o \in DOMAIN m.floors |-> m.floors[o]]
    /\ \A o \in DOMAIN m.floors : o \in Nat /\ m.floors[o] \in Nat

Asked(c) == \A i \in DOMAIN c.origins : c.origins[i] \in 1..past.request.subtasks

Typed ==
    /\ at \in {"idle", "plan", "call", "run", "suspended", "done"}
    /\ ctx \in Turns /\ IsAgent(agent) /\ IsMemory(mem) /\ work \in Works /\ past \in Pasts
    /\ blob \in [ctx : Turns, agent : {blob.agent}, work : Works] /\ IsAgent(blob.agent)
    /\ archive = [i \in DOMAIN archive |-> archive[i]]
    /\ \A i \in DOMAIN archive : i \in Nat /\ archive[i] \in 1..past.outputs
    /\ at \in {"run", "suspended"} => work.output \in 1..past.outputs
    /\ at # "idle" => past.request \in Requests
    /\ Asked(ctx) /\ Asked(blob.ctx)
    /\ at = "idle" => blob = NoBlob /\ work = NoWork /\ archive = Empty
    /\ mem.changed => ~Calm /\ past.restarts > 0

-----------------------------------------------------------------------------
(* The list of sub-tasks: what was run stays; a run that was cut short is    *)
(* followed by its continuation or has made the turn exhausted; what is not  *)
(* begun is each another sub-task.                                           *)
RunsOf(origins, o) == {i \in DOMAIN origins : origins[i] = o}
Entries(c) ==
    /\ c.origins # <<>> /\ c.index \in 1..Len(c.origins) + 1 /\ Len(c.answers) = c.index - 1
    /\ \A i \in 1..c.index - 1 :
          /\ c.answers[i].of = c.origins[i]
          /\ c.answers[i].capped =>
                c.exhausted \/ (i < Len(c.origins) /\ c.origins[i + 1] = c.origins[i])
    /\ \A i \in 1..Len(c.origins) - 1 :
          \/ c.origins[i + 1] = c.origins[i] + 1
          \/ c.origins[i + 1] = c.origins[i] /\ i < c.index /\ c.answers[i].capped
    /\ \A i, j \in 1..Len(c.origins) : i < j =>
          c.origins[i] <= c.origins[j] /\ (j > c.index => c.origins[i] < c.origins[j])
    /\ \A o \in {c.origins[i] : i \in DOMAIN c.origins} :
          Cardinality(RunsOf(c.origins, o)) <= MaxHandoffs + 1

(* A call, by the phases that ran and the ones that were dropped.            *)
OneSource(c, last, dropped) ==
    \E p \in DOMAIN c.phases :
        \A i \in DOMAIN last : last[i].phase = p /\ p < c.index /\ p \notin dropped
Sorted(answers) ==
    \A i, j \in DOMAIN answers : i < j =>
        \/ answers[i].phase < answers[j].phase
        \/ answers[i].phase = answers[j].phase /\ answers[i].item < answers[j].item
PhasesTold(c, ran, dropped) ==
    /\ c.phases # <<>> /\ c.index \in 1..Len(c.phases) + 1
    /\ c.items # Unset => c.index <= Len(c.phases) /\ Fans(c)
    /\ {c.answers[i] : i \in DOMAIN c.answers} = {r \in ran : r.phase \notin dropped}
    /\ Sorted(c.answers)
    /\ \A r \in ran : r.phase < c.index \/ (r.phase = c.index /\ c.items # Unset /\ r.item < c.item)
    /\ \A p \in dropped : p < c.index
    /\ \A p \in c.outputs : p <= c.index /\ p \notin dropped
    /\ \A i \in DOMAIN c.notes :
          /\ c.notes[i] < c.index \/ (c.notes[i] = c.index /\ c.items # Unset)
          /\ c.notes[i] \notin dropped

(* What an optional phase that fails gives back is what was there before it. *)
GivesBack(c, dropped) ==
    /\ c.index <= Len(c.phases)
    /\ c.start.answers <= Len(c.answers)
    /\ \A i \in DOMAIN c.answers : i <= c.start.answers <=> c.answers[i].phase < c.index
    /\ c.start.notes <= Len(c.notes)
    /\ \A i \in DOMAIN c.notes : i <= c.start.notes => c.notes[i] < c.index
    /\ OneSource(c, c.start.last, dropped)
InPhase(c, dropped) ==
    /\ GivesBack(c, dropped) /\ (Fans(c) => c.items # Unset)
    /\ \A i \in DOMAIN c.last : c.last[i].phase = c.index
CallFits(c, ran, dropped, entered) ==
    /\ PhasesTold(c, ran, dropped)
    /\ IF entered \/ c.items # Unset THEN InPhase(c, dropped) ELSE OneSource(c, c.last, dropped)

-----------------------------------------------------------------------------
(* The sub-task at work, the reply that holds in it, the steps of its run.   *)
AtWork(c, a, w) ==
    c.index <= Len(c.origins) /\ w.origin = c.origins[c.index] /\ a.disabled = Strongest(w.said)
Planning(c, a, w) ==
    /\ c.call = NoCall
    /\ IF c.index = 1 THEN w.origin = 0 ELSE w.origin = c.origins[c.index - 1] /\ a.disabled = Strongest(w.said)
Suspended(c, a, w) ==
    /\ Entries(c) /\ AtWork(c, a, w)
    /\ c.call.phases # <<>> => CallFits(c.call, w.ran, w.dropped, TRUE) /\ c.call.first = w.start
    /\ a.stash.idx # Unset /\ w.start <= a.stash.idx /\ Steps(a.stash.trajectory, w.start, a.stash.idx)

Live ==
    /\ at \in {"plan", "call", "run", "suspended"} => Entries(ctx)
    /\ at = "plan" => Planning(ctx, agent, work)
    /\ at \in {"call", "run", "suspended"} => AtWork(ctx, agent, work)
    /\ at = "call" => InCall /\ CallFits(Call, work.ran, work.dropped, FALSE)
    /\ at = "run" =>
          /\ InCall => CallFits(Call, work.ran, work.dropped, TRUE) /\ Call.first = work.start
          /\ work.start <= agent.idx /\ Steps(agent.trajectory, work.start, agent.idx - 1)
    /\ at = "suspended" => Suspended(ctx, agent, work)
    /\ at \in {"idle", "done"} => ctx = NoTurn
Stored == blob # NoBlob => Suspended(blob.ctx, blob.agent, blob.work)

(* No step number is used twice, and a label stands for what is archived.    *)
Texts(t) ==
    \A i \in DOMAIN t : t[i].output # 0 =>
        /\ t[i].label => i \in DOMAIN archive
        /\ i \in DOMAIN archive => archive[i] = t[i].output
Below(n) == \A i \in DOMAIN archive : i < n
Kept ==
    Calm =>
        /\ at \in {"plan", "call"} => Below(ctx.next) /\ ctx.next <= After(agent.trajectory)
        /\ at = "run" => Below(agent.idx) /\ Texts(agent.trajectory)
        /\ at = "suspended" =>
              /\ Below(agent.stash.idx) /\ Texts(agent.stash.trajectory)
              /\ blob.agent.stash = agent.stash

(* In one process the finish check counts from where it should.              *)
Counted ==
    past.restarts = 0 =>
        /\ at \in {"plan", "call", "run", "suspended"} =>
              /\ \A o \in DOMAIN mem.floors : o <= work.origin
              /\ work.origin # 0 => work.origin \in DOMAIN mem.floors /\ mem.floors[work.origin] = work.first
        /\ at \in {"run", "suspended"} =>
              /\ mem.floor = IF InCall THEN work.start ELSE work.first
              /\ mem.final <=> LastSubtask /\ (InCall => LastOfCall)

-----------------------------------------------------------------------------
(* A call before and after what the program does to it, field by field.      *)
LEMMA EnteredCall ==
    ASSUME NEW c \in Calls
    PROVE  /\ Entered(c) \in Calls
           /\ Entered(c).phases = c.phases /\ Entered(c).index = c.index
           /\ Entered(c).items = c.items /\ Entered(c).item = c.item
           /\ Entered(c).answers = c.answers /\ Entered(c).last = c.last
           /\ Entered(c).outputs = c.outputs /\ Entered(c).notes = c.notes
           /\ Entered(c).start = [answers |-> Len(c.answers), last |-> c.last, notes |-> Len(c.notes)]
           /\ Entered(c).start.answers = Len(c.answers) /\ Entered(c).start.last = c.last
           /\ Entered(c).start.notes = Len(c.notes)
  <1>1. Len(c.answers) \in Nat /\ Len(c.notes) \in Nat /\ c.last \in Seq(PhaseAnswers)
    BY DEF Calls
  <1> DEFINE s == [answers |-> Len(c.answers), last |-> c.last, notes |-> Len(c.notes)]
  <1>2. s \in [answers : Nat, last : Seq(PhaseAnswers), notes : Nat]
        /\ s.answers = Len(c.answers) /\ s.last = c.last /\ s.notes = Len(c.notes)
    BY <1>1
  <1>3. Entered(c) = [c EXCEPT !.start = s]
    BY DEF Entered
  <1>4. s = [answers |-> Len(c.answers), last |-> c.last, notes |-> Len(c.notes)]
    OBVIOUS
  <1> HIDE DEF s
  <1> QED
    BY <1>2, <1>3, <1>4 DEF Calls

LEMMA PassedCall ==
    ASSUME NEW c \in Calls
    PROVE  /\ Passed(c) \in Calls
           /\ Passed(c).phases = c.phases /\ Passed(c).index = c.index + 1
           /\ Passed(c).items = Unset /\ Passed(c).answers = c.answers /\ Passed(c).last = c.last
           /\ Passed(c).outputs = c.outputs /\ Passed(c).notes = c.notes
  <1>1. c.index + 1 \in Nat /\ -1 \in Int /\ 0 \in Nat
    BY DEF Calls
  <1> QED
    BY <1>1 DEF Passed, Calls, Unset

LEMMA DroppedCall ==
    ASSUME NEW c \in Calls, c.start.answers <= Len(c.answers), c.start.notes <= Len(c.notes)
    PROVE  /\ Dropped(c) \in Calls
           /\ Dropped(c).phases = c.phases /\ Dropped(c).index = c.index + 1
           /\ Dropped(c).items = Unset
           /\ Dropped(c).answers = SubSeq(c.answers, 1, c.start.answers)
           /\ Dropped(c).last = c.start.last
           /\ Dropped(c).notes = SubSeq(c.notes, 1, c.start.notes)
           /\ Dropped(c).outputs = c.outputs \ {c.index}
  <1>1. PICK d \in Calls : d = Passed(c) /\ d.phases = c.phases /\ d.index = c.index + 1
             /\ d.items = Unset /\ d.answers = c.answers /\ d.outputs = c.outputs /\ d.notes = c.notes
    BY PassedCall
  <1>2. /\ c.start.answers \in 0..Len(c.answers) /\ c.start.notes \in 0..Len(c.notes)
        /\ c.start.last \in Seq(PhaseAnswers) /\ c.answers \in Seq(PhaseAnswers)
        /\ c.notes \in Seq(Nat)
    <2>1. /\ c.start \in [answers : Nat, last : Seq(PhaseAnswers), notes : Nat]
          /\ c.answers \in Seq(PhaseAnswers) /\ c.notes \in Seq(Nat)
      BY DEF Calls
    <2> QED
      BY <2>1
  <1>3. SubSeq(c.answers, 1, c.start.answers) \in Seq(PhaseAnswers)
        /\ SubSeq(c.notes, 1, c.start.notes) \in Seq(Nat)
    BY <1>2, SMTT(30)
  <1>4. c.outputs \ {c.index} \in SUBSET Nat
    BY DEF Calls
  <1> QED
    BY <1>1, <1>2, <1>3, <1>4 DEF Dropped, Calls

ToldCall(c, answer) == [c EXCEPT !.answers = Append(@, answer), !.last = Append(@, answer)]
LEMMA AppendedCall ==
    ASSUME NEW c \in Calls, NEW answer \in PhaseAnswers
    PROVE  /\ ToldCall(c, answer) \in Calls
           /\ ToldCall(c, answer).phases = c.phases /\ ToldCall(c, answer).index = c.index
           /\ ToldCall(c, answer).items = c.items /\ ToldCall(c, answer).item = c.item
           /\ ToldCall(c, answer).answers = Append(c.answers, answer)
           /\ ToldCall(c, answer).last = Append(c.last, answer)
           /\ ToldCall(c, answer).outputs = c.outputs /\ ToldCall(c, answer).notes = c.notes
           /\ ToldCall(c, answer).start = c.start
  <1>1. Append(c.answers, answer) \in Seq(PhaseAnswers) /\ Append(c.last, answer) \in Seq(PhaseAnswers)
    BY DEF Calls
  <1> QED
    BY <1>1 DEF ToldCall, Calls

LEMMA FilledCall ==
    ASSUME NEW c \in Calls
    PROVE  LET filled == [c EXCEPT !.outputs = @ \cup {c.index}]
           IN  /\ filled \in Calls
               /\ filled.phases = c.phases /\ filled.index = c.index
               /\ filled.items = c.items /\ filled.item = c.item
               /\ filled.answers = c.answers /\ filled.last = c.last
               /\ filled.outputs = c.outputs \cup {c.index} /\ filled.notes = c.notes
               /\ filled.start = c.start
  <1>1. c.outputs \cup {c.index} \in SUBSET Nat
    BY DEF Calls
  <1> QED
    BY <1>1 DEF Calls

LEMMA NextItemCall ==
    ASSUME NEW c \in Calls, NEW until \in BOOLEAN
    PROVE  LET moved == [c EXCEPT !.item = @ + 1, !.until = until]
           IN  /\ moved \in Calls
               /\ moved.phases = c.phases /\ moved.index = c.index
               /\ moved.items = c.items /\ moved.item = c.item + 1
               /\ moved.answers = c.answers /\ moved.last = c.last
               /\ moved.outputs = c.outputs /\ moved.notes = c.notes
               /\ moved.start = c.start
  <1>1. c.item + 1 \in Nat
    BY DEF Calls
  <1> QED
    BY <1>1 DEF Calls

LEMMA FirstCall ==
    ASSUME NEW c \in Calls, NEW n \in Nat
    PROVE  LET d == [c EXCEPT !.first = n]
           IN  /\ d \in Calls
               /\ d.phases = c.phases /\ d.index = c.index /\ d.items = c.items /\ d.item = c.item
               /\ d.answers = c.answers /\ d.last = c.last /\ d.outputs = c.outputs
               /\ d.notes = c.notes /\ d.start = c.start /\ d.first = n
  BY DEF Calls

LEMMA ClearedCall ==
    ASSUME NEW c \in Calls, NEW n \in Nat
    PROVE  LET d == [c EXCEPT !.last = <<>>, !.first = n]
           IN  /\ d \in Calls
               /\ d.phases = c.phases /\ d.index = c.index /\ d.items = c.items /\ d.item = c.item
               /\ d.answers = c.answers /\ d.last = <<>> /\ d.outputs = c.outputs
               /\ d.notes = c.notes /\ d.start = c.start /\ d.first = n
  <1>1. <<>> \in Seq(PhaseAnswers)
    OBVIOUS
  <1> QED
    BY <1>1 DEF Calls

LEMMA CallTypes ==
    ASSUME NEW c \in Calls
    PROVE  /\ c.phases \in Seq(Phase) /\ Len(c.phases) \in Nat /\ DOMAIN c.phases = 1..Len(c.phases)
           /\ c.index \in Nat /\ c.index + 1 \in Nat /\ c.item \in Nat /\ c.items \in Int
           /\ c.answers \in Seq(PhaseAnswers) /\ c.last \in Seq(PhaseAnswers)
           /\ c.notes \in Seq(Nat) /\ Len(c.notes) \in Nat /\ DOMAIN c.notes = 1..Len(c.notes)
           /\ \A i \in 1..Len(c.notes) : c.notes[i] \in Nat
           /\ c.outputs \in SUBSET Nat /\ \A p \in c.outputs : p \in Nat
           /\ c.outputs \cup {c.index} \in SUBSET Nat
  <1>1. /\ c.phases \in Seq(Phase) /\ c.index \in Nat /\ c.item \in Nat /\ c.items \in Int
        /\ c.answers \in Seq(PhaseAnswers) /\ c.last \in Seq(PhaseAnswers)
        /\ c.notes \in Seq(Nat) /\ c.outputs \in SUBSET Nat
    BY DEF Calls
  <1> QED
    BY <1>1, SMTT(30)

-----------------------------------------------------------------------------
(* A phase is entered: what it may give back is what is there.               *)
LEMMA EnteredFits ==
    ASSUME NEW c \in Calls, NEW ran \in SUBSET PhaseAnswers, NEW dropped \in SUBSET Nat,
           CallFits(c, ran, dropped, FALSE), c.items = Unset, c.index <= Len(c.phases)
    PROVE  PhasesTold(Entered(c), ran, dropped) /\ GivesBack(Entered(c), dropped)
  <1>1. PICK d \in Calls :
             /\ d = Entered(c)
             /\ d.phases = c.phases /\ d.index = c.index /\ d.items = c.items /\ d.item = c.item
             /\ d.answers = c.answers /\ d.outputs = c.outputs /\ d.notes = c.notes
             /\ d.start.answers = Len(c.answers) /\ d.start.last = c.last
             /\ d.start.notes = Len(c.notes)
    BY EnteredCall
  <1>2. PhasesTold(c, ran, dropped) /\ OneSource(c, c.last, dropped)
    BY DEF CallFits
  <1>3. PhasesTold(d, ran, dropped)
    BY <1>1, <1>2 DEF PhasesTold, Fans
  <1>4. c.answers \in Seq(PhaseAnswers) /\ c.notes \in Seq(Nat) /\ c.index \in Nat
    BY DEF Calls
  <1>5. \A i \in DOMAIN c.answers : c.answers[i].phase < c.index
    BY <1>2, <1>4 DEF PhasesTold
  <1>6. \A i \in DOMAIN c.notes : c.notes[i] < c.index
    BY <1>2, <1>4 DEF PhasesTold
  <1>7. OneSource(d, d.start.last, dropped)
    BY <1>1, <1>2 DEF OneSource
  <1>8. GivesBack(d, dropped)
    BY <1>1, <1>4, <1>5, <1>6, <1>7 DEF GivesBack
  <1> QED
    BY <1>1, <1>3, <1>8

(* An optional phase that fails, with an answer or without, leaves nothing.  *)
LEMMA DroppedFits ==
    ASSUME NEW c \in Calls, NEW ran \in SUBSET PhaseAnswers, NEW dropped \in SUBSET Nat,
           PhasesTold(c, ran, dropped), GivesBack(c, dropped), NEW t \in Calls,
           t.phases = c.phases, t.index = c.index, t.outputs = c.outputs, t.notes = c.notes,
           t.start = c.start,
           t.answers = c.answers \/ \E x \in PhaseAnswers : t.answers = Append(c.answers, x)
    PROVE  Dropped(t) \in Calls /\ CallFits(Dropped(t), ran, dropped \cup {c.index}, FALSE)
  <1> DEFINE n == c.start.answers
             m == c.start.notes
             all == dropped \cup {c.index}
  <1>0. /\ c.answers \in Seq(PhaseAnswers) /\ c.notes \in Seq(Nat) /\ c.index \in Nat
        /\ c.phases \in Seq(Phase) /\ c.start.last \in Seq(PhaseAnswers)
        /\ n \in Nat /\ m \in Nat /\ n <= Len(c.answers) /\ m <= Len(c.notes)
    <2>1. c.start \in [answers : Nat, last : Seq(PhaseAnswers), notes : Nat]
      BY DEF Calls
    <2> QED
      BY <2>1 DEF Calls, GivesBack
  <1>1. n <= Len(t.answers) /\ SubSeq(t.answers, 1, n) = SubSeq(c.answers, 1, n)
    <2>1. CASE t.answers = c.answers
      BY <2>1, <1>0
    <2>2. ASSUME NEW x \in PhaseAnswers, t.answers = Append(c.answers, x)
          PROVE  n <= Len(t.answers) /\ SubSeq(t.answers, 1, n) = SubSeq(c.answers, 1, n)
      BY <2>2, <1>0
    <2> QED
      BY <2>1, <2>2
  <1>2. PICK d \in Calls :
             /\ d = Dropped(t) /\ d.phases = c.phases /\ d.index = c.index + 1 /\ d.items = Unset
             /\ d.answers = SubSeq(c.answers, 1, n) /\ d.last = c.start.last
             /\ d.notes = SubSeq(c.notes, 1, m) /\ d.outputs = c.outputs \ {c.index}
    <2>1. t.start.answers = n /\ t.start.notes = m /\ t.start.answers <= Len(t.answers)
          /\ t.start.notes <= Len(t.notes)
      BY <1>0, <1>1
    <2>2. PICK d \in Calls :
             /\ d = Dropped(t) /\ d.phases = t.phases /\ d.index = t.index + 1 /\ d.items = Unset
             /\ d.answers = SubSeq(t.answers, 1, t.start.answers) /\ d.last = t.start.last
             /\ d.notes = SubSeq(t.notes, 1, t.start.notes) /\ d.outputs = t.outputs \ {t.index}
      BY <2>1, DroppedCall
    <2> HIDE DEF n, m
    <2> QED
      BY <1>1, <2>1, <2>2
  <1>3. /\ DOMAIN d.answers = 1..n /\ \A i \in 1..n : d.answers[i] = c.answers[i]
        /\ DOMAIN d.notes = 1..m /\ \A i \in 1..m : d.notes[i] = c.notes[i]
        /\ 1..n \subseteq DOMAIN c.answers /\ 1..m \subseteq DOMAIN c.notes
    <2> HIDE DEF n, m
    <2>1. DOMAIN c.answers = 1..Len(c.answers) /\ DOMAIN c.notes = 1..Len(c.notes)
      BY <1>0
    <2>2. 1..n \subseteq DOMAIN c.answers /\ 1..m \subseteq DOMAIN c.notes
      BY <1>0, <2>1
    <2>3. DOMAIN SubSeq(c.answers, 1, n) = 1..n /\ \A i \in 1..n : SubSeq(c.answers, 1, n)[i] = c.answers[i]
      BY <1>0
    <2>4. DOMAIN SubSeq(c.notes, 1, m) = 1..m /\ \A i \in 1..m : SubSeq(c.notes, 1, m)[i] = c.notes[i]
      BY <1>0
    <2> QED
      BY <1>2, <2>2, <2>3, <2>4
  <1> HIDE DEF n, m
  <1>4. {d.answers[i] : i \in DOMAIN d.answers} = {r \in ran : r.phase \notin all}
    <2>1. \A i \in 1..n : c.answers[i] \in ran /\ c.answers[i].phase \notin all
      BY <1>0, <1>3 DEF PhasesTold, GivesBack, n
    <2>2. ASSUME NEW r \in ran, r.phase \notin all PROVE \E i \in 1..n : c.answers[i] = r
      <3>1. PICK i \in DOMAIN c.answers : c.answers[i] = r
        BY <2>2 DEF PhasesTold
      <3>2. r.phase < c.index
        BY <2>2 DEF PhasesTold
      <3>3. i \in 1..n
        BY <1>0, <3>1, <3>2 DEF GivesBack, n
      <3> QED
        BY <3>1, <3>3
    <2> QED
      BY <1>3, <2>1, <2>2
  <1>5. Sorted(d.answers)
    BY <1>3 DEF Sorted, PhasesTold
  <1>6. \A r \in ran : r.phase < c.index + 1
    BY <1>0 DEF PhasesTold, PhaseAnswers
  <1>7. \A p \in all : p < c.index + 1
    BY <1>0 DEF PhasesTold
  <1>8. \A p \in d.outputs : p <= c.index + 1 /\ p \notin all
    <2>1. \A p \in c.outputs : p \in Nat /\ p <= c.index /\ p \notin dropped
      BY DEF PhasesTold, Calls
    <2> QED
      BY <1>0, <1>2, <2>1
  <1>9. \A i \in 1..m : c.notes[i] < c.index + 1 /\ c.notes[i] \notin all
    BY <1>0, <1>3, SMTT(30) DEF PhasesTold, GivesBack, m
  <1>10. c.phases # <<>> /\ c.index + 1 \in 1..Len(c.phases) + 1
    BY <1>0 DEF PhasesTold, GivesBack
  <1>11. PhasesTold(d, ran, all)
    <2> HIDE DEF all
    <2>1. d.items = Unset /\ d.index = c.index + 1 /\ d.phases = c.phases
      BY <1>2
    <2>2. \A i \in DOMAIN d.notes : d.notes[i] < d.index /\ d.notes[i] \notin all
      BY <1>3, <1>9, <2>1
    <2> QED
      BY <1>4, <1>5, <1>6, <1>7, <1>8, <1>10, <2>1, <2>2 DEF PhasesTold
  <1>12. OneSource(d, d.last, all)
    <2>1. PICK p \in DOMAIN c.phases :
             \A i \in DOMAIN c.start.last : c.start.last[i].phase = p /\ p < c.index /\ p \notin dropped
      BY DEF GivesBack, OneSource
    <2>2. p < c.index /\ p \notin dropped => p < c.index + 1 /\ p \notin all
      BY <1>0, <2>1
    <2> QED
      BY <1>2, <2>1, <2>2 DEF OneSource
  <1> QED
    BY <1>2, <1>11, <1>12 DEF CallFits

(* A phase's run begins with the turn's next step.                           *)
ChosenOf(c, n) == IF Fans(c) THEN [c EXCEPT !.first = n]
                  ELSE [Entered(c) EXCEPT !.last = <<>>, !.first = n]
LEMMA ChosenFits ==
    ASSUME NEW c \in Calls, NEW ran \in SUBSET PhaseAnswers, NEW dropped \in SUBSET Nat, NEW n \in Nat,
           CallFits(c, ran, dropped, FALSE), c.index <= Len(c.phases), Fans(c) => c.items # Unset
    PROVE  /\ ChosenOf(c, n) \in Calls /\ CallFits(ChosenOf(c, n), ran, dropped, TRUE)
           /\ ChosenOf(c, n).first = n /\ ChosenOf(c, n).phases = c.phases
           /\ ChosenOf(c, n).index = c.index /\ ChosenOf(c, n).items = c.items
           /\ ChosenOf(c, n).item = c.item
  <1>1. CASE Fans(c)
    <2>1. PICK d \in Calls :
             /\ d = [c EXCEPT !.first = n]
             /\ d.phases = c.phases /\ d.index = c.index /\ d.items = c.items /\ d.item = c.item
             /\ d.answers = c.answers /\ d.last = c.last /\ d.outputs = c.outputs /\ d.notes = c.notes
             /\ d.start = c.start /\ d.first = n
      BY FirstCall
    <2>2. PhasesTold(c, ran, dropped) /\ InPhase(c, dropped)
      BY <1>1 DEF CallFits
    <2>3. PhasesTold(d, ran, dropped)
      BY <2>1, <2>2 DEF PhasesTold, Fans
    <2>4. InPhase(d, dropped)
      BY <2>1, <2>2 DEF InPhase, GivesBack, OneSource, Fans
    <2> QED
      BY <1>1, <2>1, <2>3, <2>4 DEF CallFits, ChosenOf
  <1>2. CASE ~Fans(c)
    <2>1. c.items = Unset
      BY <1>2 DEF CallFits, PhasesTold
    <2>2. PICK e \in Calls :
             /\ e = Entered(c) /\ PhasesTold(e, ran, dropped) /\ GivesBack(e, dropped)
             /\ e.phases = c.phases /\ e.index = c.index /\ e.items = c.items /\ e.item = c.item
      BY <2>1, EnteredFits, EnteredCall
    <2>3. PICK d \in Calls :
             /\ d = [e EXCEPT !.last = <<>>, !.first = n]
             /\ d.phases = e.phases /\ d.index = e.index /\ d.items = e.items /\ d.item = e.item
             /\ d.answers = e.answers /\ d.last = <<>> /\ d.outputs = e.outputs /\ d.notes = e.notes
             /\ d.start = e.start /\ d.first = n
      BY ClearedCall
    <2>4. PhasesTold(d, ran, dropped)
      BY <2>2, <2>3 DEF PhasesTold, Fans
    <2>5. GivesBack(d, dropped)
      BY <2>2, <2>3 DEF GivesBack, OneSource
    <2>6. InPhase(d, dropped)
      BY <1>2, <2>2, <2>3, <2>5 DEF InPhase, Fans
    <2> QED
      BY <1>2, <2>2, <2>3, <2>4, <2>6 DEF CallFits, ChosenOf
  <1> QED
    BY <1>1, <1>2

(* A phase's answer is there: the next item, or the next phase.              *)
FilledOf(c) ==
    LET told == ToldCall(c, [phase |-> c.index, item |-> c.item])
    IN [told EXCEPT !.outputs = @ \cup {c.index}]
LEMMA FilledFits ==
    ASSUME NEW c \in Calls, NEW ran \in SUBSET PhaseAnswers, NEW dropped \in SUBSET Nat,
           CallFits(c, ran, dropped, TRUE), NEW until \in BOOLEAN
    PROVE  LET counted == ran \cup {[phase |-> c.index, item |-> c.item]}
               moved == [FilledOf(c) EXCEPT !.item = @ + 1, !.until = until]
           IN  /\ counted \in SUBSET PhaseAnswers
               /\ Fans(c) => moved \in Calls /\ CallFits(moved, counted, dropped, FALSE)
               /\ ~Fans(c) => /\ Passed(FilledOf(c)) \in Calls
                              /\ CallFits(Passed(FilledOf(c)), counted, dropped, FALSE)
  <1> DEFINE x == [phase |-> c.index, item |-> c.item]
             counted == ran \cup {x}
  <1>x. x \in PhaseAnswers /\ x.phase = c.index /\ x.item = c.item
    BY DEF Calls, PhaseAnswers
  <1>t. PICK t \in Calls :
           /\ t = ToldCall(c, x)
           /\ t.phases = c.phases /\ t.index = c.index /\ t.items = c.items /\ t.item = c.item
           /\ t.answers = Append(c.answers, x) /\ t.last = Append(c.last, x)
           /\ t.outputs = c.outputs /\ t.notes = c.notes /\ t.start = c.start
    BY <1>x, AppendedCall
  <1>f. PICK f \in Calls :
           /\ f = FilledOf(c)
           /\ f.phases = c.phases /\ f.index = c.index /\ f.items = c.items /\ f.item = c.item
           /\ f.answers = Append(c.answers, x) /\ f.last = Append(c.last, x)
           /\ f.outputs = c.outputs \cup {c.index} /\ f.notes = c.notes /\ f.start = c.start
    <2>1. PICK f \in Calls :
           /\ f = [t EXCEPT !.outputs = @ \cup {t.index}]
           /\ f.phases = t.phases /\ f.index = t.index /\ f.items = t.items /\ f.item = t.item
           /\ f.answers = t.answers /\ f.last = t.last
           /\ f.outputs = t.outputs \cup {t.index} /\ f.notes = t.notes /\ f.start = t.start
      BY FilledCall
    <2> QED
      <3>1. f = FilledOf(c)
        BY <1>t, <2>1 DEF FilledOf
      <3>2. /\ f.phases = c.phases /\ f.index = c.index /\ f.items = c.items /\ f.item = c.item
            /\ f.answers = Append(c.answers, x) /\ f.last = Append(c.last, x)
            /\ f.outputs = c.outputs \cup {c.index} /\ f.notes = c.notes /\ f.start = c.start
        BY <1>t, <2>1, Zenon
      <3> QED
        BY <2>1, <3>1, <3>2, Zenon
  <1> HIDE DEF x
  <1>c. PhasesTold(c, ran, dropped) /\ InPhase(c, dropped) /\ GivesBack(c, dropped)
    BY DEF CallFits, InPhase
  <1>0. /\ c.answers \in Seq(PhaseAnswers) /\ c.last \in Seq(PhaseAnswers) /\ c.notes \in Seq(Nat)
        /\ c.index \in Nat /\ c.item \in Nat /\ c.phases \in Seq(Phase)
        /\ c.index \in 1..Len(c.phases)
    BY <1>c DEF Calls, GivesBack, PhasesTold
  <1>1. /\ Len(c.answers) \in Nat /\ Len(f.answers) = Len(c.answers) + 1
        /\ DOMAIN c.answers = 1..Len(c.answers) /\ DOMAIN f.answers = 1..Len(c.answers) + 1
        /\ f.answers[Len(c.answers) + 1] = x /\ \A i \in 1..Len(c.answers) : f.answers[i] = c.answers[i]
    BY <1>0, <1>f, <1>x
  <1>2. \A i \in 1..Len(c.answers) : c.answers[i] \in ran
    BY <1>1, <1>c DEF PhasesTold
  <1>3. \A p \in dropped : p < c.index
    BY <1>c DEF PhasesTold
  <1>4. {f.answers[i] : i \in DOMAIN f.answers} = {r \in counted : r.phase \notin dropped}
    <2>1. x.phase \notin dropped
      BY <1>3, <1>x, <1>0
    <2>2. {c.answers[i] : i \in DOMAIN c.answers} = {r \in ran : r.phase \notin dropped}
      BY <1>c DEF PhasesTold
    <2>3. {f.answers[i] : i \in DOMAIN f.answers} = {c.answers[i] : i \in DOMAIN c.answers} \cup {x}
      BY <1>1, SMTT(30)
    <2> QED
      BY <2>1, <2>2, <2>3
  <1>5. \A r \in ran : r.phase < c.index \/ (r.phase = c.index /\ c.items # Unset /\ r.item < c.item)
    BY <1>c DEF PhasesTold
  <1>6. Sorted(f.answers)
    <2> SUFFICES ASSUME NEW i \in DOMAIN f.answers, NEW j \in DOMAIN f.answers, i < j
                 PROVE  \/ f.answers[i].phase < f.answers[j].phase
                        \/ f.answers[i].phase = f.answers[j].phase /\ f.answers[i].item < f.answers[j].item
      BY DEF Sorted
    <2>1. i \in 1..Len(c.answers)
      BY <1>1
    <2>2. CASE j \in 1..Len(c.answers)
      BY <1>1, <1>c, <2>1, <2>2, SMTT(30) DEF PhasesTold, Sorted
    <2>3. CASE j = Len(c.answers) + 1
      BY <1>1, <1>2, <1>5, <1>x, <2>1, <2>3
    <2> QED
      BY <1>1, <2>2, <2>3
  <1>7. \A p \in f.outputs : p \in Nat /\ p <= c.index /\ p \notin dropped
    <2>1. \A p \in c.outputs : p \in Nat /\ p <= c.index /\ p \notin dropped
      BY <1>c DEF PhasesTold, Calls
    <2> QED
      BY <1>f, <1>0, <1>3, <2>1
  <1>8. \A i \in DOMAIN c.notes :
           /\ c.notes[i] \in Nat /\ c.notes[i] \notin dropped
           /\ c.notes[i] < c.index \/ (c.notes[i] = c.index /\ c.items # Unset)
    BY <1>0, <1>c DEF PhasesTold
  <1>9. \A i \in DOMAIN f.last : f.last[i].phase = c.index
    <2>1. \A i \in 1..Len(c.last) : c.last[i].phase = c.index
      BY <1>0, <1>c DEF InPhase
    <2>2. Len(c.last) \in Nat /\ DOMAIN f.last = 1..Len(c.last) + 1 /\ f.last[Len(c.last) + 1] = x
          /\ \A i \in 1..Len(c.last) : f.last[i] = c.last[i]
      BY <1>0, <1>f, <1>x
    <2> QED
      BY <1>x, <2>1, <2>2
  <1>10. counted \in SUBSET PhaseAnswers /\ \A r \in ran : r.item \in Nat /\ r.phase \in Nat
    BY <1>x DEF PhaseAnswers
  <1> HIDE DEF counted
  <1>11. ASSUME Fans(c), NEW d \in Calls,
                d.phases = f.phases, d.index = f.index, d.items = f.items, d.item = f.item + 1,
                d.answers = f.answers, d.last = f.last, d.outputs = f.outputs, d.notes = f.notes,
                d.start = f.start
         PROVE  CallFits(d, counted, dropped, FALSE)
    <2>1. c.items # Unset /\ Fans(d)
      BY <1>11, <1>c, <1>f DEF InPhase, Fans
    <2>2. \A r \in counted : r.phase < c.index \/ (r.phase = c.index /\ c.items # Unset /\ r.item < c.item + 1)
      BY <1>0, <1>5, <1>10, <1>x, <2>1 DEF counted
    <2>3. PhasesTold(d, counted, dropped)
      <3>1. /\ d.phases = c.phases /\ d.index = c.index /\ d.items = c.items /\ d.item = c.item + 1
            /\ d.answers = f.answers /\ d.outputs = f.outputs /\ d.notes = c.notes
        BY <1>11, <1>f
      <3>2. d.phases # <<>> /\ d.index \in 1..Len(d.phases) + 1 /\ d.index <= Len(d.phases)
        BY <1>0, <1>c, <3>1 DEF PhasesTold
      <3>3. {d.answers[i] : i \in DOMAIN d.answers} = {r \in counted : r.phase \notin dropped}
            /\ Sorted(d.answers)
        BY <1>4, <1>6, <3>1
      <3>4. \A p \in dropped : p < d.index
        BY <1>3, <3>1
      <3>5. \A p \in d.outputs : p <= d.index /\ p \notin dropped
        BY <1>7, <3>1
      <3>6. \A i \in DOMAIN d.notes :
              /\ d.notes[i] < d.index \/ (d.notes[i] = d.index /\ d.items # Unset)
              /\ d.notes[i] \notin dropped
        BY <1>8, <3>1
      <3>7. \A r \in counted : r.phase < d.index \/ (r.phase = d.index /\ d.items # Unset /\ r.item < d.item)
        BY <2>2, <3>1
      <3> QED
        BY <2>1, <3>2, <3>3, <3>4, <3>5, <3>6, <3>7 DEF PhasesTold
    <2>4. GivesBack(d, dropped)
      <3>1. /\ c.start.answers <= Len(c.answers) /\ c.start.answers \in Nat
            /\ \A i \in 1..Len(c.answers) : i <= c.start.answers <=> c.answers[i].phase < c.index
        BY <1>c, <1>1 DEF GivesBack, Calls
      <3>2. \A i \in DOMAIN f.answers : i <= c.start.answers <=> f.answers[i].phase < c.index
        <4> SUFFICES ASSUME NEW i \in DOMAIN f.answers
                     PROVE  i <= c.start.answers <=> f.answers[i].phase < c.index
          OBVIOUS
        <4>1. CASE i \in 1..Len(c.answers)
          BY <1>1, <3>1, <4>1
        <4>2. CASE i = Len(c.answers) + 1
          BY <1>1, <1>0, <1>x, <3>1, <4>2
        <4> QED
          BY <1>1, <4>1, <4>2
      <3>3. c.start.answers <= Len(f.answers)
        BY <1>1, <3>1
      <3> QED
        BY <1>11, <1>f, <1>c, <3>2, <3>3, SMTT(30) DEF GivesBack, OneSource
    <2>5. InPhase(d, dropped)
      BY <1>11, <1>9, <1>f, <2>1, <2>4 DEF InPhase
    <2> QED
      BY <1>11, <1>f, <2>1, <2>3, <2>5 DEF CallFits
  <1>12. ASSUME ~Fans(c), NEW d \in Calls,
                d.phases = f.phases, d.index = f.index + 1, d.items = Unset,
                d.answers = f.answers, d.last = f.last, d.outputs = f.outputs, d.notes = f.notes
         PROVE  CallFits(d, counted, dropped, FALSE)
    <2>1. \A r \in counted : r.phase < c.index + 1
      BY <1>0, <1>5, <1>10, <1>x DEF counted
    <2>2. /\ \A p \in dropped : p < c.index + 1
          /\ \A p \in f.outputs : p <= c.index + 1 /\ p \notin dropped
          /\ \A i \in DOMAIN c.notes : c.notes[i] < c.index + 1 /\ c.notes[i] \notin dropped
      <3>1. \A n \in Nat : n <= c.index => n < c.index + 1 /\ n <= c.index + 1
        BY <1>0
      <3>2. \A p \in dropped : p < c.index + 1
        BY <1>0, <1>3
      <3>3. \A p \in f.outputs : p <= c.index + 1 /\ p \notin dropped
        BY <1>7, <3>1
      <3>4. \A i \in DOMAIN c.notes : c.notes[i] < c.index + 1 /\ c.notes[i] \notin dropped
        <4> SUFFICES ASSUME NEW i \in DOMAIN c.notes
                     PROVE  c.notes[i] < c.index + 1 /\ c.notes[i] \notin dropped
          OBVIOUS
        <4>0. PICK m : m = c.notes[i]
          OBVIOUS
        <4>1. m \in Nat /\ m \notin dropped /\ (m < c.index \/ m = c.index)
          BY <1>8, <4>0, Zenon
        <4>2. m <= c.index
          BY <1>0, <4>1
        <4> QED
          BY <3>1, <4>0, <4>1, <4>2
      <3> QED
        BY <3>2, <3>3, <3>4
    <2>3. c.phases # <<>> /\ c.index + 1 \in 1..Len(c.phases) + 1
      BY <1>0, <1>c DEF PhasesTold
    <2>4. PhasesTold(d, counted, dropped)
      BY <1>12, <1>f, <1>4, <1>6, <2>1, <2>2, <2>3 DEF PhasesTold
    <2>5. OneSource(d, d.last, dropped)
      <3>1. c.index \in DOMAIN d.phases /\ c.index < d.index /\ c.index \notin dropped
        BY <1>12, <1>f, <1>0, <1>3
      <3> QED
        BY <1>12, <1>9, <3>1 DEF OneSource
    <2> QED
      BY <1>12, <2>4, <2>5 DEF CallFits
  <1>13. Fans(c) => LET d == [f EXCEPT !.item = @ + 1, !.until = until]
                    IN d \in Calls /\ CallFits(d, counted, dropped, FALSE)
    BY <1>11, NextItemCall
  <1>14. ~Fans(c) => Passed(f) \in Calls /\ CallFits(Passed(f), counted, dropped, FALSE)
    BY <1>12, PassedCall
  <1> QED
    BY <1>f, <1>10, <1>13, <1>14 DEF counted, x

(* A note more, or none.                                                     *)
LEMMA NoteFits ==
    ASSUME NEW c \in Calls, NEW dropped \in SUBSET Nat, NEW notes \in Seq(Nat),
           \A p \in dropped : p < c.index,
           \A i \in DOMAIN c.notes : c.notes[i] <= c.index /\ c.notes[i] \notin dropped,
           notes = c.notes \/ notes = Append(c.notes, c.index)
    PROVE  /\ \A i \in DOMAIN notes : notes[i] <= c.index /\ notes[i] \notin dropped
           /\ Len(c.notes) <= Len(notes)
           /\ \A i \in 1..Len(c.notes) : notes[i] = c.notes[i]
  <1>1. c.notes \in Seq(Nat) /\ c.index \in Nat /\ Len(c.notes) \in Nat /\ DOMAIN c.notes = 1..Len(c.notes)
    BY CallTypes
  <1>2. CASE notes = c.notes
    BY <1>1, <1>2, SMTT(30)
  <1>3. CASE notes = Append(c.notes, c.index)
    <2>1. /\ DOMAIN notes = 1..Len(c.notes) + 1 /\ notes[Len(c.notes) + 1] = c.index
          /\ \A i \in 1..Len(c.notes) : notes[i] = c.notes[i]
          /\ Len(notes) = Len(c.notes) + 1
      BY <1>1, <1>3
    <2>2. c.index \notin dropped
      BY <1>1
    <2>3. ASSUME NEW i \in DOMAIN notes PROVE notes[i] <= c.index /\ notes[i] \notin dropped
      <3>1. CASE i \in 1..Len(c.notes)
        BY <1>1, <2>1, <3>1
      <3>2. CASE i = Len(c.notes) + 1
        BY <1>1, <2>1, <2>2, <3>2
      <3>3. i \in 1..Len(c.notes) + 1
        BY <2>1
      <3> QED
        BY <1>1, <3>1, <3>2, <3>3
    <2> QED
      BY <1>1, <2>1, <2>3
  <1> QED
    BY <1>2, <1>3

(* A fan-out begins: its items are to come.                                  *)
FannedOf(c, n, notes) ==
    [Entered(c) EXCEPT !.last = <<>>, !.items = n, !.item = 0, !.until = FALSE,
                       !.outputs = @ \cup {c.index}, !.notes = notes]
LEMMA FannedFits ==
    ASSUME NEW c \in Calls, NEW ran \in SUBSET PhaseAnswers, NEW dropped \in SUBSET Nat,
           CallFits(c, ran, dropped, FALSE), c.items = Unset, c.index <= Len(c.phases), Fans(c),
           NEW n \in Nat, NEW notes \in Seq(Nat), notes = c.notes \/ notes = Append(c.notes, c.index)
    PROVE  /\ FannedOf(c, n, notes) \in Calls /\ FannedOf(c, n, notes).phases = c.phases
           /\ CallFits(FannedOf(c, n, notes), ran, dropped, FALSE)
  <1>1. PICK e \in Calls :
           /\ e = Entered(c) /\ PhasesTold(e, ran, dropped) /\ GivesBack(e, dropped)
           /\ e.phases = c.phases /\ e.index = c.index /\ e.items = c.items /\ e.item = c.item
           /\ e.answers = c.answers /\ e.outputs = c.outputs /\ e.notes = c.notes
           /\ e.start.notes = Len(c.notes)
    BY EnteredFits, EnteredCall
  <1> DEFINE d == [e EXCEPT !.last = <<>>, !.items = n, !.item = 0, !.until = FALSE,
                            !.outputs = @ \cup {c.index}, !.notes = notes]
  <1>2. /\ d \in Calls /\ d.phases = c.phases /\ d.index = c.index /\ d.items = n /\ d.item = 0
        /\ d.answers = c.answers /\ d.last = <<>> /\ d.outputs = c.outputs \cup {c.index}
        /\ d.notes = notes /\ d.start = e.start
    <2>1. e.outputs \cup {c.index} \in SUBSET Nat /\ <<>> \in Seq(PhaseAnswers) /\ n \in Int /\ 0 \in Nat
      BY <1>1, CallTypes
    <2>2. d \in Calls
      BY <2>1 DEF Calls
    <2> QED
      BY <1>1, <2>1 DEF Calls
  <1>3. d = FannedOf(c, n, notes)
    BY <1>1 DEF FannedOf
  <1> HIDE DEF d
  <1>4. PhasesTold(c, ran, dropped)
    BY DEF CallFits
  <1>5. /\ c.index \in Nat /\ c.notes \in Seq(Nat) /\ n # Unset
        /\ \A p \in c.outputs : p \in Nat
    BY CallTypes DEF Unset
  <1>6. /\ \A p \in dropped : p < c.index
        /\ \A i \in DOMAIN c.notes : c.notes[i] \in Nat /\ c.notes[i] < c.index /\ c.notes[i] \notin dropped
    BY <1>4, <1>5 DEF PhasesTold
  <1>7. /\ \A i \in DOMAIN notes : notes[i] <= c.index /\ notes[i] \notin dropped
        /\ Len(c.notes) <= Len(notes) /\ \A i \in 1..Len(c.notes) : notes[i] = c.notes[i]
    <2>1. \A i \in DOMAIN c.notes : c.notes[i] <= c.index /\ c.notes[i] \notin dropped
      BY <1>5, <1>6
    <2>2. \A p \in dropped : p < c.index
      BY <1>6
    <2>3. notes = c.notes \/ notes = Append(c.notes, c.index)
      OBVIOUS
    <2>4. \A i \in DOMAIN notes : notes[i] <= c.index /\ notes[i] \notin dropped
      BY <2>1, <2>2, <2>3, NoteFits
    <2>5. Len(c.notes) <= Len(notes)
      BY <2>1, <2>2, <2>3, NoteFits
    <2>6. \A i \in 1..Len(c.notes) : notes[i] = c.notes[i]
      BY <2>1, <2>2, <2>3, NoteFits, SMTT(30)
    <2> QED
      BY <2>4, <2>5, <2>6
  <1>8. \A i \in DOMAIN notes : notes[i] \in Nat /\ i \in Nat /\ i >= 1
    OBVIOUS
  <1>9. PhasesTold(d, ran, dropped)
    <2>1. \A i \in DOMAIN notes : notes[i] < c.index \/ notes[i] = c.index
      BY <1>5, <1>7, <1>8
    <2>2. \A p \in d.outputs : p <= c.index /\ p \notin dropped
      BY <1>2, <1>4, <1>5, <1>6 DEF PhasesTold
    <2>3. Fans(d)
      BY <1>2 DEF Fans
    <2>4. \A r \in ran : r.phase < c.index
      BY <1>4 DEF PhasesTold
    <2> QED
      BY <1>2, <1>4, <1>5, <1>6, <1>7, <2>1, <2>2, <2>3, <2>4 DEF PhasesTold
  <1>10. GivesBack(d, dropped)
    <2>1. \A i \in DOMAIN notes : i <= Len(c.notes) => notes[i] < c.index
      BY <1>5, <1>6, <1>7, <1>8, SMTT(30)
    <2> QED
      BY <1>1, <1>2, <1>7, <2>1 DEF GivesBack, OneSource
  <1>11. InPhase(d, dropped)
    BY <1>2, <1>5, <1>10 DEF InPhase
  <1> QED
    BY <1>2, <1>3, <1>5, <1>9, <1>11 DEF CallFits

(* It is over: the next phase.                                               *)
LEMMA FannedOutFits ==
    ASSUME NEW c \in Calls, NEW ran \in SUBSET PhaseAnswers, NEW dropped \in SUBSET Nat,
           CallFits(c, ran, dropped, FALSE), c.items # Unset,
           NEW notes \in Seq(Nat), notes = c.notes \/ notes = Append(c.notes, c.index)
    PROVE  LET d == Passed([c EXCEPT !.notes = notes])
           IN  d \in Calls /\ d.phases = c.phases /\ CallFits(d, ran, dropped, FALSE)
  <1> DEFINE e == [c EXCEPT !.notes = notes]
  <1>1. /\ e \in Calls /\ e.phases = c.phases /\ e.index = c.index
        /\ e.answers = c.answers /\ e.last = c.last /\ e.outputs = c.outputs /\ e.notes = notes
    BY DEF Calls
  <1> HIDE DEF e
  <1>2. PICK d \in Calls :
           /\ d = Passed(e) /\ d.phases = c.phases /\ d.index = c.index + 1 /\ d.items = Unset
           /\ d.answers = c.answers /\ d.last = c.last /\ d.outputs = c.outputs /\ d.notes = notes
    BY <1>1, PassedCall
  <1>3. PhasesTold(c, ran, dropped) /\ InPhase(c, dropped)
    BY DEF CallFits
  <1>4. c.index \in Nat /\ c.notes \in Seq(Nat) /\ c.item \in Nat /\ c.phases \in Seq(Phase)
        /\ \A p \in c.outputs : p \in Nat
    BY CallTypes
  <1>5. /\ \A p \in dropped : p < c.index
        /\ \A i \in DOMAIN c.notes : c.notes[i] \in Nat /\ c.notes[i] <= c.index /\ c.notes[i] \notin dropped
    <2>1. \A i \in DOMAIN c.notes : c.notes[i] \in Nat
      BY CallTypes
    <2>2. \A i \in DOMAIN c.notes : (c.notes[i] < c.index \/ c.notes[i] = c.index) /\ c.notes[i] \notin dropped
      BY <1>3 DEF PhasesTold
    <2>0. c.index \in Nat
      BY <1>4
    <2>3. ASSUME NEW i \in DOMAIN c.notes PROVE c.notes[i] <= c.index
      <3>1. PICK m \in Nat, n \in Nat : m = c.notes[i] /\ n = c.index
        BY <2>0, <2>1
      <3>2. m < n \/ m = n
        BY <2>2, <3>1
      <3> QED
        BY <3>1, <3>2
    <2>4. \A p \in dropped : p < c.index
      BY <1>3 DEF PhasesTold
    <2> QED
      BY <2>1, <2>2, <2>3, <2>4
  <1>6. \A i \in DOMAIN notes : notes[i] <= c.index /\ notes[i] \notin dropped /\ notes[i] \in Nat
    <2>1. \A i \in DOMAIN c.notes : c.notes[i] <= c.index /\ c.notes[i] \notin dropped
      BY <1>5
    <2>2. \A i \in DOMAIN notes : notes[i] <= c.index /\ notes[i] \notin dropped
      BY <1>5, <2>1, NoteFits
    <2> QED
      BY <2>2
  <1>7. /\ \A p \in dropped : p < c.index + 1 /\ p \in Nat
        /\ \A p \in c.outputs : p <= c.index + 1 /\ p \notin dropped
        /\ \A i \in DOMAIN notes : notes[i] < c.index + 1
        /\ \A r \in ran : r.phase < c.index + 1
        /\ c.index + 1 \in 1..Len(c.phases) + 1 /\ c.phases # <<>> /\ c.index \notin dropped
        /\ c.index \in DOMAIN c.phases
    <2>1. c.index \in 1..Len(c.phases) /\ c.phases # <<>> /\ Len(c.phases) \in Nat
          /\ DOMAIN c.phases = 1..Len(c.phases)
      BY <1>3, <1>4, CallTypes DEF PhasesTold, InPhase, GivesBack
    <2>2. \A r \in ran : r.phase < c.index + 1
      BY <1>3, <1>4 DEF PhasesTold, PhaseAnswers
    <2>3. \A p \in c.outputs : p <= c.index + 1 /\ p \notin dropped
      BY <1>3, <1>4 DEF PhasesTold
    <2> QED
      BY <1>4, <1>5, <1>6, <2>1, <2>2, <2>3
  <1>8. PhasesTold(d, ran, dropped)
    BY <1>2, <1>3, <1>6, <1>7 DEF PhasesTold
  <1>9. OneSource(d, d.last, dropped)
    <2>1. \A i \in DOMAIN d.last : d.last[i].phase = c.index /\ c.index < d.index /\ c.index \notin dropped
      BY <1>2, <1>3, <1>4, <1>7 DEF InPhase
    <2> QED
      BY <1>2, <1>7, <2>1 DEF OneSource
  <1> QED
    BY <1>2, <1>8, <1>9 DEF CallFits, e

(* A phase whose condition does not hold.                                    *)
LEMMA SkippedFits ==
    ASSUME NEW c \in Calls, NEW ran \in SUBSET PhaseAnswers, NEW dropped \in SUBSET Nat,
           CallFits(c, ran, dropped, FALSE), c.items = Unset, c.index <= Len(c.phases)
    PROVE  LET d == [Entered(c) EXCEPT !.index = @ + 1]
           IN  d \in Calls /\ d.phases = c.phases /\ CallFits(d, ran, dropped, FALSE)
  <1>1. PICK e \in Calls :
           /\ e = Entered(c)
           /\ e.phases = c.phases /\ e.index = c.index /\ e.items = c.items /\ e.item = c.item
           /\ e.answers = c.answers /\ e.last = c.last /\ e.outputs = c.outputs /\ e.notes = c.notes
    BY EnteredCall
  <1> DEFINE d == [e EXCEPT !.index = @ + 1]
  <1>4. c.index \in Nat /\ c.notes \in Seq(Nat) /\ c.phases \in Seq(Phase) /\ c.index + 1 \in Nat
        /\ \A p \in c.outputs : p \in Nat
    BY CallTypes
  <1>2. /\ d \in Calls /\ d.phases = c.phases /\ d.index = c.index + 1 /\ d.items = Unset
        /\ d.answers = c.answers /\ d.last = c.last /\ d.outputs = c.outputs /\ d.notes = c.notes
    BY <1>1, <1>4 DEF Calls
  <1> HIDE DEF d
  <1>3. PhasesTold(c, ran, dropped) /\ OneSource(c, c.last, dropped)
    BY DEF CallFits
  <1>7. /\ \A p \in dropped : p < c.index + 1 /\ p \in Nat
        /\ \A p \in c.outputs : p <= c.index + 1 /\ p \notin dropped
        /\ \A i \in DOMAIN c.notes : c.notes[i] < c.index + 1 /\ c.notes[i] \notin dropped
        /\ \A r \in ran : r.phase < c.index + 1
        /\ c.index + 1 \in 1..Len(c.phases) + 1 /\ c.phases # <<>>
    BY <1>3, <1>4 DEF PhasesTold, PhaseAnswers
  <1>8. PhasesTold(d, ran, dropped)
    BY <1>2, <1>3, <1>7 DEF PhasesTold
  <1>9. OneSource(d, d.last, dropped)
    <2>1. PICK p \in DOMAIN c.phases :
            \A i \in DOMAIN c.last : c.last[i].phase = p /\ p < c.index /\ p \notin dropped
      BY <1>3 DEF OneSource
    <2>2. p < c.index => p < c.index + 1
      BY <1>4, <2>1
    <2> QED
      BY <1>2, <2>1, <2>2 DEF OneSource
  <1> QED
    BY <1>1, <1>2, <1>8, <1>9 DEF CallFits, d

-----------------------------------------------------------------------------
(* The list of sub-tasks.                                                    *)
LEMMA NoCallTyped == NoCall \in Calls /\ NoCall.phases = <<>>
  <1>1. <<>> \in Seq(Phase) /\ <<>> \in Seq(PhaseAnswers) /\ <<>> \in Seq(Nat) /\ {} \in SUBSET Nat
        /\ Unset \in Int
    BY DEF Unset
  <1>2. FALSE \in BOOLEAN
    BY Zenon
  <1> QED
    BY <1>1, <1>2 DEF NoCall, Calls

ToldTurn(c, capped, n) ==
    [c EXCEPT !.answers = Append(@, [of |-> c.origins[c.index], capped |-> capped]),
              !.next = n, !.call = NoCall, !.index = @ + 1]
LEMMA ToldTurnTyped ==
    ASSUME NEW c \in Turns, NEW capped \in BOOLEAN, NEW n \in Nat, c.index \in 1..Len(c.origins)
    PROVE  LET t == ToldTurn(c, capped, n)
           IN  /\ t \in Turns /\ t.origins = c.origins /\ t.index = c.index + 1
               /\ t.answers = Append(c.answers, [of |-> c.origins[c.index], capped |-> capped])
               /\ t.exhausted = c.exhausted /\ t.next = n /\ t.call = NoCall
  <1>1. c.origins \in Seq(Nat) /\ c.answers \in Seq(Answers) /\ c.index + 1 \in Nat
    BY DEF Turns
  <1>2. [of |-> c.origins[c.index], capped |-> capped] \in Answers
    BY <1>1 DEF Answers
  <1> DEFINE x == [of |-> c.origins[c.index], capped |-> capped]
  <1>3. Append(c.answers, x) \in Seq(Answers)
    BY <1>1, <1>2
  <1> HIDE DEF x
  <1>4. LET t == [c EXCEPT !.answers = Append(@, x), !.next = n, !.call = NoCall, !.index = @ + 1]
        IN  /\ t \in Turns /\ t.origins = c.origins /\ t.index = c.index + 1
            /\ t.answers = Append(c.answers, x)
            /\ t.exhausted = c.exhausted /\ t.next = n /\ t.call = NoCall
    BY <1>1, <1>3, NoCallTyped DEF Turns
  <1> QED
    BY <1>4 DEF ToldTurn, x

(* A continuation is put in: the entries behind it move by one.              *)
LEMMA Sliced ==
    ASSUME NEW s \in Seq(Nat), NEW m \in 1..Len(s) + 1, NEW n \in 0..Len(s), m <= n + 1
    PROVE  /\ SubSeq(s, m, n) \in Seq(Nat) /\ Len(SubSeq(s, m, n)) = n - m + 1
           /\ \A i \in 1..n - m + 1 : SubSeq(s, m, n)[i] = s[m + i - 1]
  OBVIOUS

LEMMA Concatenated ==
    ASSUME NEW a \in Seq(Nat), NEW b \in Seq(Nat)
    PROVE  /\ a \o b \in Seq(Nat) /\ Len(a \o b) = Len(a) + Len(b)
           /\ \A i \in 1..Len(a) : (a \o b)[i] = a[i]
           /\ \A i \in 1..Len(b) : (a \o b)[Len(a) + i] = b[i]
  OBVIOUS

LEMMA Joined ==
    ASSUME NEW a \in Seq(Nat), NEW x \in Nat, NEW b \in Seq(Nat)
    PROVE  /\ a \o <<x>> \o b \in Seq(Nat) /\ Len(a \o <<x>> \o b) = Len(a) + 1 + Len(b)
           /\ \A i \in 1..Len(a) : (a \o <<x>> \o b)[i] = a[i]
           /\ (a \o <<x>> \o b)[Len(a) + 1] = x
           /\ \A i \in 1..Len(b) : (a \o <<x>> \o b)[Len(a) + 1 + i] = b[i]
  <1>1. <<x>> \in Seq(Nat) /\ Len(<<x>>) = 1 /\ <<x>>[1] = x /\ 1 \in 1..Len(<<x>>)
    OBVIOUS
  <1>0. Len(a) \in Nat /\ Len(b) \in Nat
    OBVIOUS
  <1>2. /\ a \o <<x>> \in Seq(Nat) /\ Len(a \o <<x>>) = Len(a) + 1
        /\ \A i \in 1..Len(a) : (a \o <<x>>)[i] = a[i]
        /\ (a \o <<x>>)[Len(a) + 1] = x
    BY <1>1
  <1> DEFINE u == a \o <<x>>
  <1>3. u \in Seq(Nat) /\ Len(u) = Len(a) + 1 /\ (\A i \in 1..Len(a) : u[i] = a[i]) /\ u[Len(a) + 1] = x
    BY <1>2
  <1> HIDE DEF u
  <1>4. /\ u \o b \in Seq(Nat) /\ Len(u \o b) = Len(u) + Len(b)
        /\ \A i \in 1..Len(u) : (u \o b)[i] = u[i]
        /\ \A i \in 1..Len(b) : (u \o b)[Len(u) + i] = b[i]
    BY <1>3, Concatenated
  <1> DEFINE w == u \o b
  <1>5. /\ w \in Seq(Nat) /\ Len(w) = Len(u) + Len(b)
        /\ \A i \in 1..Len(u) : w[i] = u[i]
        /\ \A i \in 1..Len(b) : w[Len(u) + i] = b[i]
    BY <1>4
  <1> HIDE DEF w
  <1>6. /\ w \in Seq(Nat) /\ Len(w) = Len(a) + 1 + Len(b)
        /\ \A i \in 1..Len(a) : w[i] = a[i]
        /\ w[Len(a) + 1] = x
        /\ \A i \in 1..Len(b) : w[Len(a) + 1 + i] = b[i]
    <2>1. Len(a) + 1 \in 1..Len(u)
      BY <1>0, <1>3
    <2>2. \A i \in 1..Len(a) : i \in 1..Len(u)
      BY <1>0, <1>3
    <2> QED
      BY <1>3, <1>5, <2>1, <2>2
  <1> QED
    BY <1>6 DEF u, w

LEMMA InsertedAt ==
    ASSUME NEW s, NEW i, NEW x
    PROVE  InsertAt(s, i, x) = SubSeq(s, 1, i - 1) \o <<x>> \o SubSeq(s, i, Len(s))
  BY DEF InsertAt

LEMMA Inserted ==
    ASSUME NEW s \in Seq(Nat), NEW k \in 1..Len(s)
    PROVE  LET t == InsertAt(s, k + 1, s[k])
           IN  /\ t \in Seq(Nat) /\ Len(t) = Len(s) + 1
               /\ \A i \in 1..Len(s) + 1 : t[i] = s[IF i <= k THEN i ELSE i - 1]
  <1> DEFINE a == SubSeq(s, 1, (k + 1) - 1)
             b == SubSeq(s, k + 1, Len(s))
             t == a \o <<s[k]>> \o b
  <1>0. PICK n \in Nat : n = Len(s) /\ k \in 1..n /\ s[k] \in Nat
    OBVIOUS
  <1>7. t = InsertAt(s, k + 1, s[k])
    BY InsertedAt, Zenon
  <1>1. a \in Seq(Nat) /\ Len(a) = k /\ \A i \in 1..k : a[i] = s[i]
    <2>1. 1 \in 1..Len(s) + 1 /\ (k + 1) - 1 \in 0..Len(s) /\ 1 <= ((k + 1) - 1) + 1 /\ k - 1 + 1 = k
          /\ ((k + 1) - 1) - 1 + 1 = k
          /\ \A i \in 1..k : 1 + i - 1 = i
      BY <1>0
    <2>2. a \in Seq(Nat) /\ Len(a) = ((k + 1) - 1) - 1 + 1
          /\ \A i \in 1..((k + 1) - 1) - 1 + 1 : a[i] = s[1 + i - 1]
      BY <2>1, Sliced
    <2> HIDE DEF a
    <2> QED
      BY <2>1, <2>2
  <1>2. b \in Seq(Nat) /\ Len(b) = n - k /\ \A i \in 1..n - k : b[i] = s[k + i]
    <2>1. k + 1 \in 1..Len(s) + 1 /\ Len(s) \in 0..Len(s) /\ k + 1 <= Len(s) + 1
          /\ Len(s) - (k + 1) + 1 = n - k /\ \A i \in 1..n - k : k + 1 + i - 1 = k + i
      BY <1>0
    <2>2. b \in Seq(Nat) /\ Len(b) = Len(s) - (k + 1) + 1
          /\ \A i \in 1..Len(s) - (k + 1) + 1 : b[i] = s[k + 1 + i - 1]
      BY <2>1, Sliced
    <2> HIDE DEF b
    <2> QED
      BY <2>1, <2>2
  <1> HIDE DEF a, b
  <1>3. /\ t \in Seq(Nat) /\ Len(t) = Len(a) + 1 + Len(b)
        /\ \A i \in 1..Len(a) : t[i] = a[i]
        /\ t[Len(a) + 1] = s[k]
        /\ \A i \in 1..Len(b) : t[Len(a) + 1 + i] = b[i]
    <2>1. a \in Seq(Nat) /\ b \in Seq(Nat) /\ s[k] \in Nat
      BY <1>0, <1>1, <1>2
    <2>2. PICK x \in Nat : x = s[k]
      BY <2>1
    <2>3. t = a \o <<x>> \o b
      BY <2>2
    <2> HIDE DEF t
    <2>4. /\ a \o <<x>> \o b \in Seq(Nat) /\ Len(a \o <<x>> \o b) = Len(a) + 1 + Len(b)
          /\ \A i \in 1..Len(a) : (a \o <<x>> \o b)[i] = a[i]
          /\ (a \o <<x>> \o b)[Len(a) + 1] = x
          /\ \A i \in 1..Len(b) : (a \o <<x>> \o b)[Len(a) + 1 + i] = b[i]
      BY <2>1, Joined, SMTT(30)
    <2> QED
      BY <2>2, <2>3, <2>4
  <1> HIDE DEF t
  <1>5. Len(t) = n + 1
    BY <1>0, <1>1, <1>2, <1>3
  <1>6. /\ \A i \in 1..k : t[i] = s[i]
        /\ t[k + 1] = s[k] /\ \A i \in 1..n - k : t[k + 1 + i] = s[k + i]
    BY <1>1, <1>2, <1>3
  <1>4. \A i \in 1..n + 1 : t[i] = s[IF i <= k THEN i ELSE i - 1]
    <2> SUFFICES ASSUME NEW i \in 1..n + 1 PROVE t[i] = s[IF i <= k THEN i ELSE i - 1]
      OBVIOUS
    <2>1. CASE i <= k
      <3>1. i \in 1..k
        BY <1>0, <2>1
      <3> QED
        BY <1>6, <2>1, <3>1
    <2>2. CASE i = k + 1
      <3>1. ~(i <= k) /\ i - 1 = k
        BY <1>0, <2>2
      <3> QED
        BY <1>6, <2>2, <3>1
    <2>3. CASE i > k + 1
      <3>1. ~(i <= k) /\ i - (k + 1) \in 1..n - k /\ k + 1 + (i - (k + 1)) = i
            /\ k + (i - (k + 1)) = i - 1
        BY <1>0, <2>3
      <3>2. t[k + 1 + (i - (k + 1))] = s[k + (i - (k + 1))]
        BY <1>6, <3>1
      <3> QED
        BY <3>1, <3>2
    <2> QED
      BY <1>0, <2>1, <2>2, <2>3
  <1> QED
    BY <1>0, <1>3, <1>4, <1>5, <1>7

LEMMA TurnTypes ==
    ASSUME NEW c \in Turns
    PROVE  /\ c.origins \in Seq(Nat) /\ Len(c.origins) \in Nat /\ DOMAIN c.origins = 1..Len(c.origins)
           /\ \A i \in 1..Len(c.origins) : c.origins[i] \in Nat
           /\ c.index \in Nat /\ c.next \in Nat /\ c.exhausted \in BOOLEAN /\ c.call \in Calls
           /\ c.answers \in Seq(Answers) /\ Len(c.answers) \in Nat /\ DOMAIN c.answers = 1..Len(c.answers)
  <1>1. c.origins \in Seq(Nat) /\ c.answers \in Seq(Answers) /\ c.index \in Nat /\ c.next \in Nat
        /\ c.exhausted \in BOOLEAN /\ c.call \in Calls
    BY DEF Turns
  <1> QED
    BY <1>1

LEMMA RunsAreFinite ==
    ASSUME NEW N \in Nat, NEW s, DOMAIN s = 1..N, NEW o
    PROVE  IsFiniteSet(RunsOf(s, o)) /\ Cardinality(RunsOf(s, o)) \in Nat
  <1>1. RunsOf(s, o) \subseteq 1..N
    BY DEF RunsOf
  <1>2. IsFiniteSet(1..N)
    BY FS_Interval
  <1> QED
    BY <1>1, <1>2, FS_Subset, FS_CardinalityType

(* The sub-task that was answered, with nothing behind it: Entries without   *)
(* what it says of the run that was cut short.                               *)
LEMMA ToldEntries ==
    ASSUME NEW c \in Turns, Entries(c), c.index <= Len(c.origins), NEW capped \in BOOLEAN, NEW n \in Nat,
           NEW t \in Turns, t.origins = c.origins, t.index = c.index + 1,
           t.answers = Append(c.answers, [of |-> c.origins[c.index], capped |-> capped]),
           c.exhausted => t.exhausted, capped => t.exhausted
    PROVE  Entries(t)
  <1> DEFINE s == c.origins
             k == c.index
             N == Len(s)
             x == [of |-> s[k], capped |-> capped]
  <1>1. /\ s \in Seq(Nat) /\ N \in Nat /\ DOMAIN s = 1..N /\ \A i \in 1..N : s[i] \in Nat
        /\ k \in 1..N /\ k \in Nat /\ c.answers \in Seq(Answers)
        /\ Len(c.answers) = k - 1 /\ s # <<>>
    <2>1. /\ s \in Seq(Nat) /\ N \in Nat /\ DOMAIN s = 1..N /\ \A i \in 1..N : s[i] \in Nat
          /\ k \in Nat /\ c.answers \in Seq(Answers)
      BY TurnTypes
    <2>2. k \in 1..N + 1 /\ k <= N /\ Len(c.answers) = k - 1 /\ s # <<>>
      BY DEF Entries
    <2> QED
      BY <2>1, <2>2
  <1>2. /\ Len(t.answers) = k /\ t.answers[k] = x /\ \A i \in 1..k - 1 : t.answers[i] = c.answers[i]
    BY <1>1, SMTT(30) DEF Answers
  <1>3. x.of = s[k] /\ x.capped = capped
    OBVIOUS
  <1>4. /\ \A i \in 1..k - 1 :
             /\ c.answers[i].of = s[i]
             /\ c.answers[i].capped => c.exhausted \/ (i < N /\ s[i + 1] = s[i])
        /\ \A i \in 1..N - 1 :
             \/ s[i + 1] = s[i] + 1
             \/ s[i + 1] = s[i] /\ i < k /\ c.answers[i].capped
        /\ \A i, j \in 1..N : i < j => s[i] <= s[j] /\ (j > k => s[i] < s[j])
        /\ \A o \in {s[i] : i \in DOMAIN s} : Cardinality(RunsOf(s, o)) <= MaxHandoffs + 1
    BY DEF Entries
  <1> HIDE DEF s, k, N, x
  <1>5. t.origins = s /\ t.index = k + 1 /\ Len(t.origins) = N
    BY DEF s, k, N
  <1>6. ASSUME NEW i \in 1..k
        PROVE  /\ t.answers[i].of = s[i]
               /\ t.answers[i].capped => t.exhausted \/ (i < N /\ s[i + 1] = s[i])
    <2>1. CASE i = k
      BY <1>2, <1>3, <2>1
    <2>2. CASE i \in 1..k - 1
      BY <1>2, <1>4, <2>2
    <2> QED
      BY <1>1, <2>1, <2>2
  <1>7. ASSUME NEW i \in 1..N - 1
        PROVE  \/ s[i + 1] = s[i] + 1
               \/ s[i + 1] = s[i] /\ i < k + 1 /\ t.answers[i].capped
    <2>1. CASE s[i + 1] = s[i] + 1
      BY <2>1
    <2>2. CASE s[i + 1] = s[i] /\ i < k /\ c.answers[i].capped
      <3>1. i \in 1..k - 1 /\ i < k + 1
        BY <1>1, <2>2
      <3> QED
        BY <1>2, <2>2, <3>1
    <2> QED
      BY <1>4, <2>1, <2>2
  <1>8. ASSUME NEW i \in 1..N, NEW j \in 1..N, i < j
        PROVE  s[i] <= s[j] /\ (j > k + 1 => s[i] < s[j])
    <2>1. j > k + 1 => j > k
      BY <1>1
    <2> QED
      BY <1>4, <1>8, <2>1
  <1>9. t.index - 1 = k /\ t.index \in 1..N + 1 /\ Len(t.answers) = t.index - 1
    BY <1>1, <1>2, <1>5, SMTT(30)
  <1>10. \A i \in 1..t.index - 1 :
            /\ t.answers[i].of = t.origins[i]
            /\ t.answers[i].capped =>
                  t.exhausted \/ (i < Len(t.origins) /\ t.origins[i + 1] = t.origins[i])
    BY <1>5, <1>6, <1>9, Zenon
  <1>11. \A i \in 1..Len(t.origins) - 1 :
            \/ t.origins[i + 1] = t.origins[i] + 1
            \/ t.origins[i + 1] = t.origins[i] /\ i < t.index /\ t.answers[i].capped
    BY <1>5, <1>7, Zenon
  <1>12. \A i, j \in 1..Len(t.origins) : i < j =>
            t.origins[i] <= t.origins[j] /\ (j > t.index => t.origins[i] < t.origins[j])
    BY <1>5, <1>8, Zenon
  <1>13. t.origins # <<>> /\ t.index \in 1..Len(t.origins) + 1 /\ Len(t.answers) = t.index - 1
         /\ \A o \in {t.origins[i] : i \in DOMAIN t.origins} :
               Cardinality(RunsOf(t.origins, o)) <= MaxHandoffs + 1
    <2>1. t.origins # <<>> /\ t.index \in 1..Len(t.origins) + 1 /\ Len(t.answers) = t.index - 1
      BY <1>1, <1>5, <1>9
    <2>2. \A o \in {s[i] : i \in DOMAIN s} : Cardinality(RunsOf(s, o)) <= MaxHandoffs + 1
      BY <1>4
    <2>3. \A o \in {t.origins[i] : i \in DOMAIN t.origins} :
             Cardinality(RunsOf(t.origins, o)) <= MaxHandoffs + 1
      BY <1>5, <2>2
    <2> QED
      BY <2>1, <2>3
  <1> QED
    BY <1>10, <1>11, <1>12, <1>13, Zenon DEF Entries

(* How many runs a sub-task has, when one more is put in at the index: only  *)
(* the one that was cut short has another.                                   *)
LEMMA RunsOfInserted ==
    ASSUME NEW N \in Nat, NEW s, NEW u, NEW k \in 1..N,
           DOMAIN s = 1..N, DOMAIN u = 1..N + 1, \A i \in 1..N : s[i] \in Nat,
           \A i \in 1..k : u[i] = s[i], u[k + 1] = s[k],
           \A i \in k + 2..N + 1 : u[i] = s[i - 1] /\ i - 1 \in 1..N /\ i - 1 > k,
           \A i, j \in 1..N : i < j => s[i] <= s[j] /\ (j > k => s[i] < s[j]),
           \A o \in {s[i] : i \in DOMAIN s} : Cardinality(RunsOf(s, o)) <= MaxHandoffs + 1,
           Cardinality(RunsOf(s, s[k])) <= MaxHandoffs,
           NEW o \in {u[i] : i \in DOMAIN u}
    PROVE  Cardinality(RunsOf(u, o)) <= MaxHandoffs + 1
  <1>0. MaxHandoffs \in Nat
    BY SubtaskAssumption
  <1>1. k \in Nat /\ k + 1 \in 1..N + 1 /\ (\A i \in 1..k : i \in 1..N) /\ s[k] \in Nat
        /\ \A i \in k + 2..N + 1 : i \in 1..N + 1
    OBVIOUS
  <1>3. \A i \in 1..N : i <= k => s[i] <= s[k]
    OBVIOUS
  <1>4. \A i \in 1..N : i > k => s[k] < s[i]
    OBVIOUS
  <1>5. CASE o = s[k]
    <2>1. RunsOf(u, o) = RunsOf(s, o) \cup {k + 1}
      <3>1. \A i \in RunsOf(s, o) : i \in 1..k
        BY <1>4, <1>5, SMTT(30) DEF RunsOf
      <3>2. \A i \in 1..k : i \in RunsOf(s, o) <=> i \in RunsOf(u, o)
        BY <1>1 DEF RunsOf
      <3>3. k + 1 \in RunsOf(u, o)
        BY <1>5 DEF RunsOf
      <3>4. \A i \in k + 2..N + 1 : i \notin RunsOf(u, o)
        BY <1>4, <1>5 DEF RunsOf
      <3>5. \A i \in RunsOf(u, o) : i \in 1..k \/ i = k + 1 \/ i \in k + 2..N + 1
        BY DEF RunsOf
      <3> QED
        BY <3>1, <3>2, <3>3, <3>4, <3>5
    <2>2. IsFiniteSet(RunsOf(s, o)) /\ Cardinality(RunsOf(s, o)) \in Nat
      BY RunsAreFinite
    <2>3. Cardinality(RunsOf(s, o) \cup {k + 1}) <= Cardinality(RunsOf(s, o)) + 1
      <3>1. CASE k + 1 \in RunsOf(s, o)
        <4>1. RunsOf(s, o) \cup {k + 1} = RunsOf(s, o)
          BY <3>1
        <4>2. Cardinality(RunsOf(s, o) \cup {k + 1}) = Cardinality(RunsOf(s, o))
          BY <4>1
        <4> QED
          BY <2>2, <4>2
      <3>2. CASE k + 1 \notin RunsOf(s, o)
        <4>1. Cardinality(RunsOf(s, o) \cup {k + 1}) = Cardinality(RunsOf(s, o)) + 1
          BY <2>2, <3>2, FS_AddElement
        <4> QED
          BY <2>2, <4>1
      <3> QED
        BY <3>1, <3>2
    <2>4. Cardinality(RunsOf(u, o)) \in Nat
      BY RunsAreFinite
    <2>5. Cardinality(RunsOf(s, o)) <= MaxHandoffs
      BY <1>5
    <2> QED
      BY <1>0, <2>1, <2>2, <2>3, <2>4, <2>5
  <1>6. CASE o # s[k] /\ \E i \in 1..k : u[i] = o
    <2>1. PICK m \in 1..k : s[m] = o
      BY <1>6
    <2>2. o < s[k] /\ o \in Nat /\ s[k] \in Nat
      BY <1>3, <1>6, <2>1
    <2>3. RunsOf(u, o) = RunsOf(s, o)
      <3>1. \A i \in RunsOf(s, o) : i \in 1..k
        BY <1>4, <2>2 DEF RunsOf
      <3>2. \A i \in 1..k : i \in RunsOf(s, o) <=> i \in RunsOf(u, o)
        BY <1>1 DEF RunsOf
      <3>3. k + 1 \notin RunsOf(u, o)
        BY <1>6 DEF RunsOf
      <3>4. \A i \in k + 2..N + 1 : i \notin RunsOf(u, o)
        BY <1>4, <2>2 DEF RunsOf
      <3>5. \A i \in RunsOf(u, o) : i \in 1..k \/ i = k + 1 \/ i \in k + 2..N + 1
        BY DEF RunsOf
      <3> QED
        BY <3>1, <3>2, <3>3, <3>4, <3>5
    <2>4. o \in {s[i] : i \in DOMAIN s}
      BY <1>1, <2>1
    <2> QED
      BY <2>3, <2>4
  <1>7. CASE o # s[k] /\ ~\E i \in 1..k : u[i] = o
    <2>1. PICK m \in k + 2..N + 1 : u[m] = o
      BY <1>7
    <2>2. s[k] < o /\ o = s[m - 1] /\ m - 1 \in 1..N /\ m - 1 > k
      BY <1>4, <2>1
    <2>3. \A i \in RunsOf(u, o) : i = m
      <3> SUFFICES ASSUME NEW i \in 1..N + 1, u[i] = o PROVE i = m
        BY DEF RunsOf
      <3>1. i \in k + 2..N + 1
        BY <1>7
      <3>2. s[i - 1] = s[m - 1] /\ i - 1 \in 1..N /\ i - 1 > k
        BY <2>2, <3>1
      <3>3. \A p, q \in 1..N : p < q /\ q > k => s[p] # s[q]
        OBVIOUS
      <3>4. ~(i - 1 < m - 1) /\ ~(m - 1 < i - 1)
        BY <2>2, <3>2, <3>3
      <3> QED
        BY <2>1, <3>1, <3>4
    <2>4. RunsOf(u, o) = {m}
      BY <2>1, <2>3 DEF RunsOf
    <2>5. Cardinality({m}) = 1
      BY FS_Singleton
    <2> QED
      BY <1>0, <2>4, <2>5
  <1> QED
    BY <1>5, <1>6, <1>7

(* What is said of the entries, when one more is put in at the index.        *)
Insertion(N, s, u, k, old, new, e) ==
    /\ \A i \in 1..N : s[i] \in Nat
    /\ \A i \in 1..k : u[i] = s[i]
    /\ u[k + 1] = s[k]
    /\ \A i \in k + 2..N + 1 : u[i] = s[i - 1] /\ i - 1 \in 1..N /\ i - 1 > k
    /\ \A i \in 1..k - 1 : new[i] = old[i]
    /\ new[k].of = s[k] /\ new[k].capped
    /\ \A i \in 1..k - 1 :
          /\ old[i].of = s[i]
          /\ old[i].capped => e \/ (i < N /\ s[i + 1] = s[i])
    /\ \A i \in 1..N - 1 :
          \/ s[i + 1] = s[i] + 1
          \/ s[i + 1] = s[i] /\ i < k /\ old[i].capped
    /\ \A i, j \in 1..N : i < j => s[i] <= s[j] /\ (j > k => s[i] < s[j])
MovedTold(N, u, k, new, e) ==
    \A i \in 1..k :
        /\ new[i].of = u[i]
        /\ new[i].capped => e \/ (i < N + 1 /\ u[i + 1] = u[i])
MovedSteps(N, u, k, new) ==
    \A i \in 1..N :
        \/ u[i + 1] = u[i] + 1
        \/ u[i + 1] = u[i] /\ i < k + 1 /\ new[i].capped
MovedOrder(N, u, k) ==
    \A i, j \in 1..N + 1 : i < j => u[i] <= u[j] /\ (j > k + 1 => u[i] < u[j])
LEMMA MovedEntries ==
    ASSUME NEW N \in Nat, NEW s, NEW u, NEW k \in 1..N, NEW old, NEW new, NEW e \in BOOLEAN,
           Insertion(N, s, u, k, old, new, e)
    PROVE  MovedTold(N, u, k, new, e) /\ MovedSteps(N, u, k, new) /\ MovedOrder(N, u, k)
  <1>0. /\ \A i \in 1..N : s[i] \in Nat
        /\ \A i \in 1..k : u[i] = s[i]
        /\ u[k + 1] = s[k]
        /\ \A i \in k + 2..N + 1 : u[i] = s[i - 1] /\ i - 1 \in 1..N /\ i - 1 > k
        /\ \A i \in 1..k - 1 : new[i] = old[i]
        /\ new[k].of = s[k] /\ new[k].capped
        /\ \A i \in 1..k - 1 :
              /\ old[i].of = s[i]
              /\ old[i].capped => e \/ (i < N /\ s[i + 1] = s[i])
        /\ \A i \in 1..N - 1 :
              \/ s[i + 1] = s[i] + 1
              \/ s[i + 1] = s[i] /\ i < k /\ old[i].capped
        /\ \A i, j \in 1..N : i < j => s[i] <= s[j] /\ (j > k => s[i] < s[j])
    BY DEF Insertion
  <1> USE <1>0
  <1>1. k \in Nat /\ (\A i \in 1..k : i \in 1..N)
    OBVIOUS
  <1>2. ASSUME NEW i \in 1..k
        PROVE  /\ new[i].of = u[i]
               /\ new[i].capped => e \/ (i < N + 1 /\ u[i + 1] = u[i])
    <2>1. CASE i = k
      <3>1. k < N + 1 /\ u[k + 1] = u[k]
        BY <1>1
      <3> QED
        BY <2>1, <3>1
    <2>2. CASE i \in 1..k - 1
      <3>1. i + 1 \in 1..k /\ i < N + 1
        BY <1>1, <2>2
      <3> QED
        BY <2>2, <3>1
    <2> QED
      BY <1>1, <2>1, <2>2
  <1>3. ASSUME NEW i \in 1..N
        PROVE  \/ u[i + 1] = u[i] + 1
               \/ u[i + 1] = u[i] /\ i < k + 1 /\ new[i].capped
    <2>1. CASE i < k
      <3>1. i \in 1..k /\ i + 1 \in 1..k /\ i \in 1..k - 1 /\ i \in 1..N - 1 /\ i < k + 1
        BY <1>1, <2>1
      <3> QED
        BY <3>1
    <2>2. CASE i = k
      <3>1. k < k + 1 /\ u[k + 1] = u[k]
        BY <1>1
      <3> QED
        BY <2>2, <3>1
    <2>3. CASE i > k
      <3>1. i + 1 \in k + 2..N + 1 /\ i - 1 \in 1..N - 1 /\ ~(i - 1 < k) /\ i + 1 - 1 = i
            /\ (i - 1) + 1 = i
        BY <1>1, <2>3
      <3>2. u[i + 1] = s[i]
        BY <3>1
      <3>3. u[i] = s[i - 1]
        <4>1. CASE i = k + 1
          <5>1. k + 1 - 1 = k
            BY <1>1
          <5> QED
            BY <4>1, <5>1
        <4>2. CASE i \in k + 2..N + 1
          BY <4>2
        <4> QED
          BY <1>1, <2>3, <4>1, <4>2
      <3>4. s[i] = s[i - 1] + 1
        BY <3>1
      <3> QED
        BY <3>2, <3>3, <3>4
    <2>4. i < k \/ i = k \/ i > k
      BY <1>1
    <2> QED
      BY <2>1, <2>2, <2>3, <2>4, Zenon
  <1>4. ASSUME NEW i \in 1..N + 1, NEW j \in 1..N + 1, i < j
        PROVE  u[i] <= u[j] /\ (j > k + 1 => u[i] < u[j])
    <2> DEFINE p == IF i <= k THEN i ELSE i - 1
               q == IF j <= k THEN j ELSE j - 1
    <2>1. /\ p \in 1..N /\ q \in 1..N /\ (p < q \/ p = q)
          /\ j > k + 1 => q > k /\ p < q
      BY <1>1, <1>4
    <2>2. ASSUME NEW m \in 1..N + 1 PROVE u[m] = s[IF m <= k THEN m ELSE m - 1]
      <3>1. CASE m <= k
        <4>1. m \in 1..k
          BY <1>1, <3>1
        <4> QED
          BY <3>1, <4>1
      <3>2. CASE m = k + 1
        <4>1. ~(k + 1 <= k) /\ k + 1 - 1 = k
          BY <1>1
        <4> QED
          BY <3>2, <4>1
      <3>3. CASE m > k + 1
        <4>1. m \in k + 2..N + 1 /\ ~(m <= k)
          BY <1>1, <3>3
        <4> QED
          BY <4>1
      <3> QED
        BY <1>1, <3>1, <3>2, <3>3
    <2>3. u[i] = s[p] /\ u[j] = s[q]
      BY <2>2
    <2> HIDE DEF p, q
    <2>4. s[p] \in Nat /\ s[q] \in Nat
      BY <2>1
    <2> QED
      BY <2>1, <2>3, <2>4
  <1> QED
    BY <1>2, <1>3, <1>4 DEF MovedTold, MovedSteps, MovedOrder

(* A run that was cut short, and its continuation behind it.                 *)
LEMMA ContinuedEntries ==
    ASSUME NEW c \in Turns, Entries(c), c.index <= Len(c.origins),
           NEW t \in Turns, t.origins = InsertAt(c.origins, c.index + 1, c.origins[c.index]),
           t.index = c.index + 1,
           t.answers = Append(c.answers, [of |-> c.origins[c.index], capped |-> TRUE]),
           t.exhausted = c.exhausted,
           Cardinality(RunsOf(c.origins, c.origins[c.index])) <= MaxHandoffs
    PROVE  /\ Entries(t) /\ t.origins[c.index] = c.origins[c.index]
           /\ \A i \in DOMAIN t.origins : \E j \in DOMAIN c.origins : t.origins[i] = c.origins[j]
  <1>1. PICK N \in Nat, k \in Nat : N = Len(c.origins) /\ k = c.index /\ k \in 1..N
    <2>1. Len(c.origins) \in Nat /\ c.index \in 1..Len(c.origins)
      BY TurnTypes DEF Entries
    <2> QED
      BY <2>1
  <1>2. PICK s : s = c.origins /\ s \in Seq(Nat) /\ Len(s) = N
    BY <1>1, TurnTypes
  <1>3. PICK u : u = t.origins /\ u \in Seq(Nat) /\ Len(u) = N + 1
                 /\ \A i \in 1..N + 1 : u[i] = s[IF i <= k THEN i ELSE i - 1]
    <2>1. k \in 1..Len(s)
      BY <1>1, <1>2
    <2>2. LET v == InsertAt(s, k + 1, s[k])
          IN  v \in Seq(Nat) /\ Len(v) = Len(s) + 1
              /\ \A i \in 1..Len(s) + 1 : v[i] = s[IF i <= k THEN i ELSE i - 1]
      BY <1>2, <2>1, Inserted
    <2>3. t.origins = InsertAt(s, k + 1, s[k])
      BY <1>1, <1>2
    <2> QED
      BY <1>2, <2>2, <2>3
  <1>4. PICK old, new : old = c.answers /\ new = t.answers
    OBVIOUS
  <1>5. /\ Len(new) = k /\ new[k].of = s[k] /\ new[k].capped
        /\ \A i \in 1..k - 1 : new[i] = old[i]
    <2>1. old \in Seq(Answers) /\ Len(old) = k - 1 /\ s[k] \in Nat /\ k - 1 \in Nat
      BY <1>1, <1>2, <1>4, TurnTypes DEF Entries
    <2>2. PICK x \in Answers : x = [of |-> s[k], capped |-> TRUE] /\ x.of = s[k] /\ x.capped
      <3>1. LET x == [of |-> s[k], capped |-> TRUE] IN x \in Answers /\ x.of = s[k] /\ x.capped
        BY <2>1 DEF Answers
      <3> QED
        BY <3>1
    <2>3. new = Append(old, x)
      BY <1>1, <1>2, <1>4, <2>2
    <2>4. Len(new) = k - 1 + 1 /\ new[k - 1 + 1] = x /\ \A i \in 1..k - 1 : new[i] = old[i]
      BY <2>1, <2>3
    <2>5. k - 1 + 1 = k
      BY <1>1
    <2> QED
      BY <2>2, <2>4, <2>5
  <1>6. /\ \A i \in 1..k - 1 :
             /\ old[i].of = s[i]
             /\ old[i].capped => c.exhausted \/ (i < N /\ s[i + 1] = s[i])
        /\ \A i \in 1..N - 1 :
             \/ s[i + 1] = s[i] + 1
             \/ s[i + 1] = s[i] /\ i < k /\ old[i].capped
        /\ \A i, j \in 1..N : i < j => s[i] <= s[j] /\ (j > k => s[i] < s[j])
        /\ \A o \in {s[i] : i \in DOMAIN s} : Cardinality(RunsOf(s, o)) <= MaxHandoffs + 1
    BY <1>1, <1>2, <1>4 DEF Entries
  <1>7. /\ Cardinality(RunsOf(s, s[k])) <= MaxHandoffs /\ t.index = k + 1 /\ t.exhausted = c.exhausted
        /\ c.origins[c.index] = s[k]
    BY <1>1, <1>2
  <1>8. DOMAIN s = 1..N /\ DOMAIN u = 1..N + 1 /\ \A i \in 1..N : s[i] \in Nat
    <2>1. s \in Seq(Nat) /\ Len(s) = N /\ N \in Nat
      BY <1>2
    <2>2. u \in Seq(Nat) /\ Len(u) = N + 1
      BY <1>3
    <2>3. DOMAIN s = 1..N /\ \A i \in 1..N : s[i] \in Nat
      BY <2>1
    <2>4. DOMAIN u = 1..N + 1
      BY <2>2
    <2> QED
      BY <2>3, <2>4
  <1>9. /\ \A i \in 1..k : u[i] = s[i]
        /\ u[k + 1] = s[k]
        /\ \A i \in k + 2..N + 1 : u[i] = s[i - 1] /\ i - 1 \in 1..N /\ i - 1 > k
    <2>0. \A i \in 1..N + 1 : u[i] = s[IF i <= k THEN i ELSE i - 1]
      BY <1>3
    <2>1. \A i \in 1..k : i \in 1..N + 1 /\ i <= k
      BY <1>1
    <2>2. k + 1 \in 1..N + 1 /\ ~(k + 1 <= k) /\ k + 1 - 1 = k
      BY <1>1
    <2>3. \A i \in k + 2..N + 1 : i \in 1..N + 1 /\ ~(i <= k) /\ i - 1 \in 1..N /\ i - 1 > k
      BY <1>1
    <2> QED
      BY <2>0, <2>1, <2>2, <2>3, SMTT(30)
  <1>10. \A o \in {u[i] : i \in DOMAIN u} : Cardinality(RunsOf(u, o)) <= MaxHandoffs + 1
    <2>1. N \in Nat /\ k \in 1..N
      BY <1>1
    <2>2. \A i, j \in 1..N : i < j => s[i] <= s[j] /\ (j > k => s[i] < s[j])
      BY <1>6
    <2>3. \A o \in {s[i] : i \in DOMAIN s} : Cardinality(RunsOf(s, o)) <= MaxHandoffs + 1
      BY <1>6
    <2>4. Cardinality(RunsOf(s, s[k])) <= MaxHandoffs
      BY <1>7
    <2> SUFFICES ASSUME NEW o \in {u[i] : i \in DOMAIN u}
                 PROVE  Cardinality(RunsOf(u, o)) <= MaxHandoffs + 1
      OBVIOUS
    <2> QED
      BY <1>8, <1>9, <2>1, <2>2, <2>3, <2>4, RunsOfInserted
  <1>11. MovedTold(N, u, k, new, c.exhausted) /\ MovedSteps(N, u, k, new) /\ MovedOrder(N, u, k)
    <2>1. c.exhausted \in BOOLEAN
      BY TurnTypes
    <2>2. Insertion(N, s, u, k, old, new, c.exhausted)
      BY <1>5, <1>6, <1>8, <1>9, Zenon DEF Insertion
    <2> QED
      BY <1>1, <2>1, <2>2, MovedEntries
  <1>12. k + 1 - 1 = k /\ k + 1 \in 1..N + 1 + 1 /\ N + 1 - 1 = N /\ u # <<>> /\ 1 \in 1..N
    <2>1. N \in Nat /\ k \in 1..N
      BY <1>1
    <2>2. k + 1 - 1 = k /\ k + 1 \in 1..N + 1 + 1 /\ N + 1 - 1 = N /\ 1 \in 1..N /\ N + 1 # 0
      BY <2>1
    <2>3. u \in Seq(Nat) /\ Len(u) = N + 1
      BY <1>3
    <2>4. u # <<>>
      BY <2>1, <2>2, <2>3
    <2> QED
      BY <2>2, <2>4
  <1>13. Entries(t)
    <2>0. /\ t.origins = u /\ Len(u) = N + 1 /\ t.index = k + 1 /\ t.answers = new
          /\ t.exhausted = c.exhausted
      BY <1>3, <1>4, <1>7
    <2>a. t.index - 1 = k /\ Len(t.origins) - 1 = N /\ Len(t.origins) = N + 1
      BY <2>0, <1>12
    <2>1. \A i \in 1..t.index - 1 :
            /\ t.answers[i].of = t.origins[i]
            /\ t.answers[i].capped =>
                  t.exhausted \/ (i < Len(t.origins) /\ t.origins[i + 1] = t.origins[i])
      BY <2>0, <2>a, <1>11, <1>12, Zenon DEF MovedTold
    <2>2. \A i \in 1..Len(t.origins) - 1 :
            \/ t.origins[i + 1] = t.origins[i] + 1
            \/ t.origins[i + 1] = t.origins[i] /\ i < t.index /\ t.answers[i].capped
      BY <2>0, <2>a, <1>11, <1>12, Zenon DEF MovedSteps
    <2>3. \A i, j \in 1..Len(t.origins) : i < j =>
            t.origins[i] <= t.origins[j] /\ (j > t.index => t.origins[i] < t.origins[j])
      BY <2>0, <2>a, <1>11, Zenon DEF MovedOrder
    <2>4. t.origins # <<>> /\ t.index \in 1..Len(t.origins) + 1 /\ Len(t.answers) = t.index - 1
      BY <1>3, <1>4, <1>5, <1>7, <1>12, SMTT(30)
    <2>5. \A o \in {t.origins[i] : i \in DOMAIN t.origins} :
             Cardinality(RunsOf(t.origins, o)) <= MaxHandoffs + 1
      BY <1>3, <1>10
    <2> QED
      BY <2>1, <2>2, <2>3, <2>4, <2>5, Zenon DEF Entries
  <1>14. ASSUME NEW i \in 1..N + 1 PROVE \E j \in 1..N : u[i] = s[j]
    <2>1. (IF i <= k THEN i ELSE i - 1) \in 1..N
      BY <1>1
    <2>2. u[i] = s[IF i <= k THEN i ELSE i - 1]
      BY <1>3
    <2> QED
      BY <2>1, <2>2
  <1>15. u[k] = s[k]
    BY <1>1, <1>9
  <1> QED
    BY <1>1, <1>2, <1>3, <1>8, <1>13, <1>14, <1>15

(* The sub-task is answered, and what comes next is the list's next entry.   *)
HandedTurn(c, capped, n) ==
    LET t == ToldTurn(c, capped, n) IN IF capped THEN HandedOff(t) ELSE t
LEMMA HandedTurnFits ==
    ASSUME NEW c \in Turns, Entries(c), c.index <= Len(c.origins), NEW capped \in BOOLEAN, NEW n \in Nat
    PROVE  LET r == HandedTurn(c, capped, n)
           IN  /\ r \in Turns /\ Entries(r) /\ r.index = c.index + 1 /\ r.next = n /\ r.call = NoCall
               /\ r.origins[c.index] = c.origins[c.index]
               /\ \A i \in DOMAIN r.origins : \E j \in DOMAIN c.origins : r.origins[i] = c.origins[j]
  <1>1. c.index \in 1..Len(c.origins) /\ c.index \in Nat /\ Len(c.origins) \in Nat
        /\ DOMAIN c.origins = 1..Len(c.origins) /\ c.exhausted \in BOOLEAN
        /\ c.origins[c.index] \in Nat /\ c.origins \in Seq(Nat)
    BY TurnTypes DEF Entries
  <1>2. PICK t \in Turns :
           /\ t = ToldTurn(c, capped, n) /\ t.origins = c.origins /\ t.index = c.index + 1
           /\ t.answers = Append(c.answers, [of |-> c.origins[c.index], capped |-> capped])
           /\ t.exhausted = c.exhausted /\ t.next = n /\ t.call = NoCall
    BY <1>1, ToldTurnTyped
  <1>3. CASE ~capped
    <2>1. Entries(t)
      BY <1>2, <1>3, ToldEntries
    <2> QED
      BY <1>1, <1>2, <1>3, <2>1 DEF HandedTurn
  <1>4. CASE capped
    <2> DEFINE runs == RunsOf(c.origins, c.origins[c.index])
    <2>1. t.index - 1 = c.index
      BY <1>1, <1>2
    <2>2. Cardinality(runs) \in Nat /\ MaxHandoffs \in Nat
      BY <1>1, RunsAreFinite, SubtaskAssumption
    <2>3. HandedOff(t) = IF Cardinality(runs) > MaxHandoffs THEN [t EXCEPT !.exhausted = TRUE]
                         ELSE [t EXCEPT !.origins = InsertAt(t.origins, t.index, t.origins[c.index])]
      BY <1>2, <2>1 DEF HandedOff, RunsOf
    <2>4. HandedTurn(c, capped, n) = HandedOff(t)
      BY <1>2, <1>4 DEF HandedTurn
    <2> HIDE DEF runs
    <2>5. CASE Cardinality(runs) > MaxHandoffs
      <3>1. PICK r : r = [t EXCEPT !.exhausted = TRUE]
        OBVIOUS
      <3>2. /\ r \in Turns /\ r.origins = t.origins /\ r.index = t.index /\ r.answers = t.answers
            /\ r.exhausted = TRUE /\ r.next = n /\ r.call = NoCall
        <4>1. TRUE \in BOOLEAN
          BY Zenon
        <4> QED
          BY <1>2, <3>1, <4>1 DEF Turns
      <3>3. Entries(r)
        BY <1>2, <3>2, ToldEntries
      <3> QED
        <4>1. HandedTurn(c, capped, n) = r
          BY <2>3, <2>4, <2>5, <3>1, Zenon
        <4>2. r.origins = c.origins /\ r.index = c.index + 1
          BY <1>2, <3>2, Zenon
        <4>3. \A i \in DOMAIN r.origins : \E j \in DOMAIN c.origins : r.origins[i] = c.origins[j]
          BY <4>2, Zenon
        <4> QED
          BY <3>2, <3>3, <4>1, <4>2, <4>3, Zenon
    <2>6. CASE ~(Cardinality(runs) > MaxHandoffs)
      <3>1. PICK r : r = [t EXCEPT !.origins = InsertAt(t.origins, t.index, t.origins[c.index])]
        OBVIOUS
      <3>2. InsertAt(c.origins, c.index + 1, c.origins[c.index]) \in Seq(Nat)
        BY <1>1, Inserted
      <3>3. /\ r \in Turns /\ r.origins = InsertAt(c.origins, c.index + 1, c.origins[c.index])
            /\ r.index = c.index + 1 /\ r.answers = t.answers
            /\ r.exhausted = c.exhausted /\ r.next = n /\ r.call = NoCall
        BY <1>2, <3>1, <3>2 DEF Turns
      <3>4. r.answers = Append(c.answers, [of |-> c.origins[c.index], capped |-> TRUE])
        BY <1>2, <1>4, <3>3
      <3>5. Cardinality(runs) <= MaxHandoffs
        BY <2>2, <2>6
      <3>6. /\ Entries(r) /\ r.origins[c.index] = c.origins[c.index]
            /\ \A i \in DOMAIN r.origins : \E j \in DOMAIN c.origins : r.origins[i] = c.origins[j]
        BY <3>3, <3>4, <3>5, ContinuedEntries DEF runs
      <3> QED
        BY <2>3, <2>4, <2>6, <3>1, <3>3, <3>6
    <2> QED
      BY <2>5, <2>6
  <1> QED
    BY <1>3, <1>4

-----------------------------------------------------------------------------
(* Where a run's step numbers end.                                           *)
LEMMA AfterSteps ==
    ASSUME NEW t, NEW lo \in Nat, NEW hi \in Nat, lo <= hi, Steps(t, lo, hi)
    PROVE  After(t) = hi + 1
  <1>1. DOMAIN t = lo..hi /\ hi \in lo..hi
    BY DEF Steps
  <1>2. Max(lo..hi) = hi
    BY <1>1 DEF Max
  <1> QED
    BY <1>1, <1>2 DEF After

LEMMA AfterIsNatural ==
    ASSUME NEW t, IsTrajectory(t), ctx.next \in Nat
    PROVE  After(t) \in Nat
  <1>1. CASE t = Empty
    BY <1>1 DEF After, Empty
  <1>2. CASE t # Empty
    <2>1. PICK lo, hi \in DOMAIN t : lo \in Nat /\ hi \in Nat /\ lo <= hi /\ Steps(t, lo, hi)
      BY <1>2 DEF IsTrajectory
    <2> QED
      BY <2>1, AfterSteps
  <1> QED
    BY <1>1, <1>2

-----------------------------------------------------------------------------
(* What every step that ends a run, a phase or a call comes to: the next     *)
(* phase, or the list's next entry.                                          *)
Onward ==
    /\ at' \in {"plan", "call"} /\ ctx' \in Turns /\ Asked(ctx') /\ Entries(ctx')
    /\ work' \in Works /\ IsMemory(mem') /\ mem'.changed = mem.changed
    /\ at' = "plan" => Planning(ctx', agent', work')
    /\ at' = "call" =>
          /\ AtWork(ctx', agent', work') /\ ctx'.call.phases # <<>>
          /\ CallFits(ctx'.call, work'.ran, work'.dropped, FALSE)

LEMMA SameEntries ==
    ASSUME NEW c, NEW t, t.origins = c.origins, t.index = c.index, t.answers = c.answers,
           t.exhausted = c.exhausted, Entries(c)
    PROVE  Entries(t)
  BY DEF Entries

LEMMA CountedWork ==
    ASSUME NEW w \in Works, NEW ran \in SUBSET PhaseAnswers
    PROVE  LET v == [w EXCEPT !.ran = ran]
           IN  /\ v \in Works /\ v.origin = w.origin /\ v.said = w.said /\ v.first = w.first
               /\ v.start = w.start /\ v.output = w.output /\ v.ran = ran /\ v.dropped = w.dropped
  BY DEF Works

LEMMA DroppedWork ==
    ASSUME NEW w \in Works, NEW dropped \in SUBSET Nat
    PROVE  LET v == [w EXCEPT !.dropped = dropped]
           IN  /\ v \in Works /\ v.origin = w.origin /\ v.said = w.said /\ v.first = w.first
               /\ v.start = w.start /\ v.output = w.output /\ v.ran = w.ran /\ v.dropped = dropped
  BY DEF Works

LEMMA QuietMemory ==
    ASSUME NEW m, IsMemory(m), NEW live \in BOOLEAN
    PROVE  LET n == [m EXCEPT !.live = live]
           IN  /\ IsMemory(n) /\ n.changed = m.changed /\ n.floors = m.floors /\ n.floor = m.floor
               /\ n.final = m.final
  <1>1. PICK n : n = [m EXCEPT !.live = live]
    OBVIOUS
  <1>2. m \in [floors : {m.floors}, live : BOOLEAN, changed : BOOLEAN, floor : Int, final : BOOLEAN]
    BY DEF IsMemory
  <1>3. /\ n \in [floors : {m.floors}, live : BOOLEAN, changed : BOOLEAN, floor : Int, final : BOOLEAN]
        /\ n.changed = m.changed /\ n.floors = m.floors /\ n.floor = m.floor /\ n.final = m.final
    BY <1>1, <1>2
  <1>4. n \in [floors : {n.floors}, live : BOOLEAN, changed : BOOLEAN, floor : Int, final : BOOLEAN]
    BY <1>3
  <1>5. IsMemory(n)
    BY <1>3, <1>4 DEF IsMemory
  <1> QED
    BY <1>1, <1>3, <1>5

(* The run of a sub-task, or its call, is answered.                          *)
LEMMA AnsweredOnward ==
    ASSUME Typed, Entries(ctx), AtWork(ctx, agent, work), NEW capped \in BOOLEAN,
           IsAgent(agent'), agent'.disabled = Strongest(work'.said), work' \in Works, work'.origin = work.origin,
           IsMemory(mem'), mem'.changed = mem.changed, ctx' = Answered(capped), at' = "plan"
    PROVE  Onward
  <1>1. ctx \in Turns /\ ctx.next \in Nat /\ Asked(ctx)
    BY TurnTypes DEF Typed
  <1>2. IsTrajectory(agent'.trajectory)
    BY DEF IsAgent
  <1>3. PICK n \in Nat : n = After(agent'.trajectory)
    BY <1>1, <1>2, AfterIsNatural
  <1>4. ctx' = HandedTurn(ctx, capped, n)
    BY <1>3 DEF Answered, HandedTurn, ToldTurn, AtWork
  <1>5. ctx.index <= Len(ctx.origins) /\ work.origin = ctx.origins[ctx.index]
    BY DEF AtWork
  <1>6. /\ ctx' \in Turns /\ Entries(ctx') /\ ctx'.index = ctx.index + 1 /\ ctx'.call = NoCall
        /\ ctx'.origins[ctx.index] = ctx.origins[ctx.index]
        /\ \A i \in DOMAIN ctx'.origins : \E j \in DOMAIN ctx.origins : ctx'.origins[i] = ctx.origins[j]
    BY <1>1, <1>4, <1>5, HandedTurnFits
  <1>7. Asked(ctx')
    BY <1>1, <1>6 DEF Asked
  <1>8. Planning(ctx', agent', work')
    <2>1. ctx.index \in Nat /\ ctx.index >= 1
      BY <1>1, TurnTypes DEF Entries
    <2>2. ctx'.index # 1 /\ ctx'.index - 1 = ctx.index
      BY <1>6, <2>1
    <2> QED
      BY <1>5, <1>6, <2>2, Zenon DEF Planning
  <1> QED
    BY <1>6, <1>7, <1>8 DEF Onward

(* A phase fails: with an answer or without.                                 *)
LEMMA FailedOnward ==
    ASSUME Typed, Entries(ctx), AtWork(ctx, agent, work), NEW b \in Calls,
           PhasesTold(b, work.ran, work.dropped), GivesBack(b, work.dropped), NEW t \in Calls,
           t.phases = b.phases, t.index = b.index, t.outputs = b.outputs, t.notes = b.notes,
           t.start = b.start,
           t.answers = b.answers \/ \E x \in PhaseAnswers : t.answers = Append(b.answers, x),
           NEW n \in Nat, Failed(t, n), IsAgent(agent'), agent'.disabled = agent.disabled
    PROVE  Onward
  <1>1. ctx \in Turns /\ work \in Works /\ Asked(ctx) /\ IsMemory(mem)
    BY DEF Typed
  <1>2. b.index \in Nat /\ work.ran \in SUBSET PhaseAnswers /\ work.dropped \in SUBSET Nat
    BY <1>1, CallTypes DEF Works
  <1>3. /\ work' \in Works /\ work'.origin = work.origin /\ work'.said = work.said
        /\ work'.ran = work.ran /\ work'.dropped = work.dropped \cup {b.index}
    <2>1. work.dropped \cup {b.index} \in SUBSET Nat
      BY <1>2
    <2>2. work' = [work EXCEPT !.dropped = work.dropped \cup {b.index}]
      BY DEF Failed
    <2> QED
      BY <1>1, <2>1, <2>2, DroppedWork
  <1>4. agent'.disabled = Strongest(work'.said)
    BY <1>3 DEF AtWork
  <1>5. CASE t.phases[t.index].optional
    <2>1. ctx' = [ctx EXCEPT !.call = Dropped(t), !.next = n] /\ at' = "call" /\ mem' = mem
      BY <1>5 DEF Failed
    <2>2. PICK d \in Calls : d = Dropped(t) /\ CallFits(d, work.ran, work.dropped \cup {b.index}, FALSE)
      BY <1>2, DroppedFits
    <2>3. /\ ctx' \in Turns /\ ctx'.origins = ctx.origins /\ ctx'.index = ctx.index
          /\ ctx'.answers = ctx.answers /\ ctx'.exhausted = ctx.exhausted /\ ctx'.call = d
      <3>1. LET r == [ctx EXCEPT !.call = d, !.next = n]
            IN  /\ r \in Turns /\ r.origins = ctx.origins /\ r.index = ctx.index
                /\ r.answers = ctx.answers /\ r.exhausted = ctx.exhausted /\ r.call = d
        BY <1>1 DEF Turns
      <3> QED
        BY <2>1, <2>2, <3>1
    <2>4. Entries(ctx')
      BY <2>3, SameEntries
    <2>5. AtWork(ctx', agent', work')
      BY <1>3, <1>4, <2>3 DEF AtWork
    <2>6. Asked(ctx')
      BY <1>1, <2>3 DEF Asked
    <2>7. d.phases # <<>>
      BY <2>2 DEF CallFits, PhasesTold
    <2> QED
      BY <1>1, <1>3, <2>1, <2>2, <2>3, <2>4, <2>5, <2>6, <2>7 DEF Onward
  <1>6. CASE ~t.phases[t.index].optional
    <2>1. ctx' = Answered(FALSE) /\ at' = "plan" /\ mem' = [mem EXCEPT !.live = FALSE]
      BY <1>6 DEF Failed
    <2>2. FALSE \in BOOLEAN
      BY Zenon
    <2>3. IsMemory(mem') /\ mem'.changed = mem.changed
      BY <1>1, <2>1, <2>2, QuietMemory
    <2> QED
      BY <1>3, <1>4, <2>1, <2>2, <2>3, AnsweredOnward
  <1> QED
    BY <1>5, <1>6

(* The answer of a phase's run is there.                                     *)
LEMMA PhaseEndsOnward ==
    ASSUME Typed, Entries(ctx), AtWork(ctx, agent, work), NEW c \in Calls,
           CallFits(c, work.ran, work.dropped, TRUE), NEW n \in Nat, PhaseEnds(c, n),
           IsAgent(agent'), agent'.disabled = agent.disabled
    PROVE  Onward
  <1> DEFINE answer == [phase |-> c.index, item |-> c.item]
             counted == [work EXCEPT !.ran = @ \cup {answer}]
  <1>1. ctx \in Turns /\ work \in Works /\ Asked(ctx) /\ IsMemory(mem)
    BY DEF Typed
  <1>2. work.ran \in SUBSET PhaseAnswers /\ work.dropped \in SUBSET Nat /\ answer \in PhaseAnswers
    BY <1>1, CallTypes DEF Works, PhaseAnswers
  <1>3. PhasesTold(c, work.ran, work.dropped) /\ GivesBack(c, work.dropped)
    BY DEF CallFits, InPhase
  <1>4. PICK t \in Calls :
           /\ t = ToldCall(c, answer) /\ t.phases = c.phases /\ t.index = c.index
           /\ t.answers = Append(c.answers, answer) /\ t.outputs = c.outputs
           /\ t.notes = c.notes /\ t.start = c.start
    BY <1>2, AppendedCall
  <1>5. PICK f : f = FilledOf(c) /\ f = [t EXCEPT !.outputs = @ \cup {c.index}]
    BY <1>4 DEF FilledOf
  <1>6. \/ /\ IF Fans(c)
              THEN \E until \in {FALSE, c.phases[c.index].over = "until"} :
                      ctx' = [ctx EXCEPT !.next = n, !.call = [f EXCEPT !.item = @ + 1, !.until = until]]
              ELSE ctx' = [ctx EXCEPT !.next = n, !.call = Passed(f)]
           /\ at' = "call" /\ work' = counted /\ mem' = mem
        \/ Failed(t, n)
    BY <1>4, <1>5 DEF PhaseEnds, ToldCall
  <1>7. ASSUME NEW d \in Calls, CallFits(d, work.ran \cup {answer}, work.dropped, FALSE),
               ctx' = [ctx EXCEPT !.next = n, !.call = d], at' = "call", work' = counted, mem' = mem
        PROVE  Onward
    <2>1. /\ ctx' \in Turns /\ ctx'.origins = ctx.origins /\ ctx'.index = ctx.index
          /\ ctx'.answers = ctx.answers /\ ctx'.exhausted = ctx.exhausted /\ ctx'.call = d
      <3>1. ctx' = [ctx EXCEPT !.call = d, !.next = n]
        BY <1>1, <1>7 DEF Turns
      <3>2. LET r == [ctx EXCEPT !.call = d, !.next = n]
            IN  /\ r \in Turns /\ r.origins = ctx.origins /\ r.index = ctx.index
                /\ r.answers = ctx.answers /\ r.exhausted = ctx.exhausted /\ r.call = d
        BY <1>1 DEF Turns
      <3> QED
        BY <3>1, <3>2
    <2>2. work.ran \cup {answer} \in SUBSET PhaseAnswers
      BY <1>2
    <2>3. /\ work' \in Works /\ work'.origin = work.origin /\ work'.said = work.said
          /\ work'.ran = work.ran \cup {answer} /\ work'.dropped = work.dropped
      <3> HIDE DEF answer
      <3>1. work' = [work EXCEPT !.ran = work.ran \cup {answer}]
        BY <1>7
      <3> QED
        BY <1>1, <2>2, <3>1, CountedWork
    <2>4. Entries(ctx')
      BY <2>1, SameEntries
    <2>5. AtWork(ctx', agent', work')
      BY <2>1, <2>3 DEF AtWork
    <2>6. Asked(ctx')
      BY <1>1, <2>1 DEF Asked
    <2>7. d.phases # <<>>
      BY <1>7 DEF CallFits, PhasesTold
    <2> HIDE DEF answer
    <2> QED
      BY <1>1, <1>7, <2>1, <2>3, <2>4, <2>5, <2>6, <2>7 DEF Onward
  <1>8. ASSUME NEW until \in BOOLEAN, Fans(c)
        PROVE  LET d == [f EXCEPT !.item = @ + 1, !.until = until]
               IN  d \in Calls /\ CallFits(d, work.ran \cup {answer}, work.dropped, FALSE)
    BY <1>2, <1>5, <1>8, FilledFits
  <1>9. ~Fans(c) => /\ Passed(f) \in Calls
                    /\ CallFits(Passed(f), work.ran \cup {answer}, work.dropped, FALSE)
    <2>1. FALSE \in BOOLEAN
      BY Zenon
    <2> QED
      BY <1>2, <1>5, <2>1, FilledFits
  <1>10. \A until \in {FALSE, c.phases[c.index].over = "until"} : until \in BOOLEAN
    BY Zenon
  <1>11. CASE Failed(t, n)
    <2>1. t.answers = c.answers \/ \E x \in PhaseAnswers : t.answers = Append(c.answers, x)
      BY <1>2, <1>4
    <2> HIDE DEF answer
    <2> QED
      BY <1>3, <1>4, <1>11, <2>1, FailedOnward
  <1> HIDE DEF answer, counted
  <1>12. CASE Fans(c) /\ ~Failed(t, n)
    <2>1. PICK until \in {FALSE, c.phases[c.index].over = "until"} :
             ctx' = [ctx EXCEPT !.next = n, !.call = [f EXCEPT !.item = @ + 1, !.until = until]]
      BY <1>6, <1>12
    <2>2. at' = "call" /\ work' = counted /\ mem' = mem
      BY <1>6, <1>12
    <2>3. until \in BOOLEAN
      BY <1>10
    <2> QED
      BY <1>7, <1>8, <1>12, <2>1, <2>2, <2>3
  <1>13. CASE ~Fans(c) /\ ~Failed(t, n)
    BY <1>6, <1>7, <1>9, <1>13
  <1> QED
    BY <1>11, <1>12, <1>13

LEMMA AnsweringOnward ==
    ASSUME Typed, Live, at = "run", NEW capped \in BOOLEAN, Answering(capped),
           IsAgent(agent'), agent'.disabled = agent.disabled
    PROVE  Onward
  <1>1. /\ Entries(ctx) /\ AtWork(ctx, agent, work)
        /\ InCall => CallFits(Call, work.ran, work.dropped, TRUE)
    BY DEF Live
  <1>2. ctx \in Turns /\ ctx.next \in Nat /\ Call \in Calls /\ work \in Works /\ IsMemory(mem)
    BY TurnTypes DEF Typed, Call
  <1>3. CASE InCall
    <2>1. IsTrajectory(agent'.trajectory)
      BY DEF IsAgent
    <2>2. PICK n \in Nat : n = After(agent'.trajectory)
      BY <1>2, <2>1, AfterIsNatural
    <2>3. PhaseEnds(Call, n)
      BY <1>3, <2>2 DEF Answering
    <2> QED
      BY <1>1, <1>2, <1>3, <2>3, PhaseEndsOnward
  <1>4. CASE ~InCall
    <2>1. ctx' = Answered(capped) /\ at' = "plan" /\ mem' = mem /\ work' = work
      BY <1>4 DEF Answering
    <2>2. agent'.disabled = Strongest(work'.said)
      BY <1>1, <2>1 DEF AtWork
    <2> QED
      BY <1>1, <1>2, <2>1, <2>2, AnsweredOnward
  <1> QED
    BY <1>3, <1>4

-----------------------------------------------------------------------------
(* The invariant of the turn and of its blob; what the archive and the       *)
(* finish check say comes on top of it.                                      *)
Core == Typed /\ Live /\ Stored

IsArchive(a) ==
    /\ a = [i \in DOMAIN a |-> a[i]]
    /\ \A i \in DOMAIN a : i \in Nat /\ a[i] \in 1..past.outputs

LEMMA OnwardHolds ==
    ASSUME Typed, Stored, at # "idle", Onward, IsAgent(agent'), past' = past, blob' = blob,
           IsArchive(archive')
    PROVE  Core'
  <1>1. at' \in {"plan", "call"} /\ Asked(ctx') /\ Asked(blob.ctx) /\ past.request \in Requests
    BY DEF Onward, Typed
  <1>2. Asked(ctx)' /\ Asked(blob.ctx)'
    BY <1>1 DEF Asked
  <1>3. at' \in {"idle", "plan", "call", "run", "suspended", "done"}
    BY <1>1
  <1>4. ctx' \in Turns /\ IsMemory(mem') /\ work' \in Works /\ past' \in Pasts
    BY DEF Onward, Typed
  <1>5. blob' \in [ctx : Turns, agent : {blob'.agent}, work : Works] /\ IsAgent(blob'.agent)
    BY DEF Typed
  <1>6. mem'.changed => ~Calm' /\ past'.restarts > 0
    BY DEF Onward, Typed, Calm
  <1>7. Typed'
    BY <1>1, <1>2, <1>3, <1>4, <1>5, <1>6 DEF Typed, IsArchive
  <1>8. Live'
    <2>1. Entries(ctx')
      BY DEF Onward
    <2>2. at' = "plan" => Planning(ctx', agent', work')
      BY DEF Onward
    <2>3. at' = "call" => /\ AtWork(ctx', agent', work') /\ InCall'
                          /\ CallFits(Call', work'.ran, work'.dropped, FALSE)
      BY DEF Onward, InCall, Call
    <2> QED
      BY <1>1, <2>1, <2>2, <2>3 DEF Live
  <1>9. Stored'
    BY DEF Stored
  <1> QED
    BY <1>7, <1>8, <1>9 DEF Core

LEMMA AgentOf ==
    ASSUME NEW a, NEW t, NEW s, IsTrajectory(t), IsStash(s),
           a \in [trajectory : {t}, idx : Nat, iteration : Nat, disabled : Replies, stash : {s}]
    PROVE  IsAgent(a) /\ a.trajectory = t /\ a.stash = s
  <1>1. a.trajectory = t /\ a.stash = s
    OBVIOUS
  <1>2. a \in [trajectory : {a.trajectory}, idx : Nat, iteration : Nat, disabled : Replies,
               stash : {a.stash}]
    BY <1>1
  <1> QED
    BY <1>1, <1>2 DEF IsAgent

LEMMA NoStashTyped ==
    /\ IsTrajectory(Empty) /\ IsStash(NoStash) /\ None \in Replies
    /\ NoStash.trajectory = Empty /\ NoStash.idx = Unset
  <1>1. IsTrajectory(Empty)
    BY DEF IsTrajectory
  <1>2. NoStash.trajectory = Empty /\ NoStash.idx = Unset
        /\ NoStash \in [trajectory : {Empty}, idx : Nat \cup {Unset}]
    BY DEF NoStash, Unset
  <1> QED
    BY <1>1, <1>2 DEF IsStash, Replies

(* The call goes on, and nothing else.                                       *)
LEMMA CallGoesOn ==
    ASSUME Core, at = "call", NEW d \in Calls, CallFits(d, work.ran, work.dropped, FALSE),
           ctx' = [ctx EXCEPT !.call = d], UNCHANGED <<at, mem, agent, blob, archive, work, past>>
    PROVE  Core'
  <1>1. /\ ctx \in Turns /\ work \in Works /\ Asked(ctx) /\ IsMemory(mem) /\ IsAgent(agent)
        /\ IsArchive(archive)
    BY DEF Core, Typed, IsArchive
  <1>2. Entries(ctx) /\ AtWork(ctx, agent, work)
    BY DEF Core, Live
  <1>3. /\ ctx' \in Turns /\ ctx'.origins = ctx.origins /\ ctx'.index = ctx.index
        /\ ctx'.answers = ctx.answers /\ ctx'.exhausted = ctx.exhausted /\ ctx'.call = d
    BY <1>1 DEF Turns
  <1>4. Entries(ctx')
    BY <1>2, <1>3, SameEntries
  <1>5. AtWork(ctx', agent', work')
    BY <1>2, <1>3 DEF AtWork
  <1>6. Asked(ctx')
    BY <1>1, <1>3 DEF Asked
  <1>7. d.phases # <<>>
    BY DEF CallFits, PhasesTold
  <1>8. Onward
    BY <1>1, <1>3, <1>4, <1>5, <1>6, <1>7 DEF Onward
  <1>9. IsAgent(agent') /\ IsArchive(archive')
    BY <1>1
  <1> QED
    BY <1>8, <1>9, OnwardHolds DEF Core

(* What is known of a call at one of its phases.                             *)
LEMMA AtPhaseCall ==
    ASSUME Core, AtPhase
    PROVE  /\ Call \in Calls /\ CallFits(Call, work.ran, work.dropped, FALSE)
           /\ Call.index \in Nat /\ Call.index <= Len(Call.phases)
           /\ work.ran \in SUBSET PhaseAnswers /\ work.dropped \in SUBSET Nat
           /\ Starting => Call.items = Unset
           /\ ~Starting => Call.items # Unset
           /\ Entries(ctx) /\ AtWork(ctx, agent, work) /\ ctx \in Turns /\ ctx.next \in Nat
  <1>1. at = "call" /\ Call.index \in DOMAIN Call.phases
    BY DEF AtPhase
  <1>2. ctx \in Turns /\ work \in Works /\ Call \in Calls /\ ctx.next \in Nat
    BY TurnTypes DEF Core, Typed, Call
  <1>3. CallFits(Call, work.ran, work.dropped, FALSE) /\ Entries(ctx) /\ AtWork(ctx, agent, work)
    BY <1>1 DEF Core, Live
  <1>4. Call.index \in Nat /\ Call.index <= Len(Call.phases)
    BY <1>1, <1>2, CallTypes
  <1>5. work.ran \in SUBSET PhaseAnswers /\ work.dropped \in SUBSET Nat
    BY <1>2 DEF Works
  <1>6. Call.items # Unset => Fans(Call)
    BY <1>3 DEF CallFits, PhasesTold
  <1> QED
    BY <1>2, <1>3, <1>4, <1>5, <1>6 DEF Starting

LEMMA SkipStep == ASSUME Core, Skip PROVE Core'
  <1>1. AtPhase /\ Starting /\ at = "call"
    BY DEF Skip, AtPhase
  <1>2. PICK d \in Calls :
           d = [Entered(Call) EXCEPT !.index = @ + 1] /\ CallFits(d, work.ran, work.dropped, FALSE)
    BY <1>1, AtPhaseCall, SkippedFits
  <1>3. ctx' = [ctx EXCEPT !.call = d] /\ UNCHANGED <<at, mem, agent, blob, archive, work, past>>
    BY <1>2 DEF Skip
  <1> QED
    BY <1>1, <1>2, <1>3, CallGoesOn

LEMMA FanOutStep ==
    ASSUME Core, NEW n \in 0..MaxItems, NEW cut \in BOOLEAN, FanOut(n, cut) PROVE Core'
  <1>1. AtPhase /\ at = "call" /\ Fans(Call) /\ Call.items = Unset
    BY DEF FanOut, AtPhase
  <1>2. n \in Nat
    BY SubtaskAssumption
  <1>3. PICK e \in Calls : e = Entered(Call) /\ e.notes = Call.notes
    BY <1>1, AtPhaseCall, EnteredCall
  <1>4. Call.notes \in Seq(Nat) /\ Call.index \in Nat
    BY <1>1, AtPhaseCall, CallTypes
  <1>5. PICK notes \in Seq(Nat) :
           /\ notes = IF cut /\ Here.over = "each" THEN Append(Call.notes, Call.index) ELSE Call.notes
           /\ notes = Call.notes \/ notes = Append(Call.notes, Call.index)
    <2> DEFINE more == cut /\ Here.over = "each"
    <2>1. Append(Call.notes, Call.index) \in Seq(Nat)
      BY <1>4
    <2> HIDE DEF more
    <2>2. CASE more
      BY <2>1, <2>2 DEF more
    <2>3. CASE ~more
      BY <1>4, <2>3 DEF more
    <2> QED
      BY <2>2, <2>3
  <1>6. PICK d \in Calls : d = FannedOf(Call, n, notes) /\ CallFits(d, work.ran, work.dropped, FALSE)
    BY <1>1, <1>2, <1>5, AtPhaseCall, FannedFits
  <1>7. ctx' = [ctx EXCEPT !.call = d] /\ UNCHANGED <<at, mem, agent, blob, archive, work, past>>
    BY <1>3, <1>5, <1>6 DEF FanOut, FannedOf
  <1> QED
    BY <1>1, <1>6, <1>7, CallGoesOn

LEMMA FannedOutStep ==
    ASSUME Core, NEW noted \in BOOLEAN, FannedOut(noted) PROVE Core'
  <1>1. AtPhase /\ at = "call" /\ Fans(Call) /\ Call.items # Unset
    BY DEF FannedOut, AtPhase
  <1>4. Call.notes \in Seq(Nat) /\ Call.index \in Nat
    BY <1>1, AtPhaseCall, CallTypes
  <1>5. PICK notes \in Seq(Nat) :
           /\ notes = IF noted /\ Here.over = "until" THEN Append(Call.notes, Call.index) ELSE Call.notes
           /\ notes = Call.notes \/ notes = Append(Call.notes, Call.index)
    <2> DEFINE more == noted /\ Here.over = "until"
    <2>1. Append(Call.notes, Call.index) \in Seq(Nat)
      BY <1>4
    <2> HIDE DEF more
    <2>2. CASE more
      BY <2>1, <2>2 DEF more
    <2>3. CASE ~more
      BY <1>4, <2>3 DEF more
    <2> QED
      BY <2>2, <2>3
  <1>6. PICK d \in Calls :
           d = Passed([Call EXCEPT !.notes = notes]) /\ CallFits(d, work.ran, work.dropped, FALSE)
    BY <1>1, <1>5, AtPhaseCall, FannedOutFits
  <1>7. ctx' = [ctx EXCEPT !.call = d] /\ UNCHANGED <<at, mem, agent, blob, archive, work, past>>
    BY <1>5, <1>6 DEF FannedOut
  <1> QED
    BY <1>1, <1>6, <1>7, CallGoesOn

(* A phase that fails before it has run.                                     *)
LEMMA FailEarlyStep == ASSUME Core, FailEarly PROVE Core'
  <1>1. AtPhase /\ at = "call" /\ agent' = agent /\ blob' = blob /\ archive' = archive /\ past' = past
    BY DEF FailEarly, AtPhase
  <1>2. Typed /\ Stored /\ IsAgent(agent') /\ IsArchive(archive')
    BY <1>1 DEF Core, Typed, IsArchive
  <1>3. PICK b \in Calls :
           /\ b = IF Starting THEN Entered(Call) ELSE Call
           /\ PhasesTold(b, work.ran, work.dropped) /\ GivesBack(b, work.dropped)
    <2>1. CASE Starting
      BY <1>1, <2>1, AtPhaseCall, EnteredFits, EnteredCall
    <2>2. CASE ~Starting
      <3>1. Call \in Calls /\ PhasesTold(Call, work.ran, work.dropped) /\ GivesBack(Call, work.dropped)
        BY <1>1, <2>2, AtPhaseCall DEF CallFits, InPhase
      <3> QED
        BY <2>2, <3>1
    <2> QED
      BY <2>1, <2>2
  <1>4. Failed(b, ctx.next)
    BY <1>3 DEF FailEarly
  <1>5. Onward
    BY <1>1, <1>2, <1>3, <1>4, AtPhaseCall, FailedOnward
  <1> QED
    BY <1>1, <1>2, <1>5, OnwardHolds

LEMMA ChosenCall ==
    ASSUME Core, Runs
    PROVE  /\ Chosen \in Calls /\ CallFits(Chosen, work.ran, work.dropped, TRUE)
           /\ Chosen.first = ctx.next /\ Chosen.phases = Call.phases /\ Chosen.index = Call.index
           /\ Chosen.items = Call.items /\ Chosen.item = Call.item
  <1>1. AtPhase
    BY DEF Runs
  <1>2. Chosen = ChosenOf(Call, ctx.next)
    BY DEF Chosen, ChosenOf
  <1> QED
    <2>1. /\ Call \in Calls /\ CallFits(Call, work.ran, work.dropped, FALSE)
          /\ Call.index <= Len(Call.phases) /\ ctx.next \in Nat
          /\ work.ran \in SUBSET PhaseAnswers /\ work.dropped \in SUBSET Nat
      BY <1>1, AtPhaseCall
    <2>2. Fans(Call) => Call.items # Unset
      BY DEF Runs
    <2>3. PICK c \in Calls, n \in Nat, ran \in SUBSET PhaseAnswers, dropped \in SUBSET Nat :
             c = Call /\ n = ctx.next /\ ran = work.ran /\ dropped = work.dropped
      BY <2>1
    <2>4. /\ CallFits(c, ran, dropped, FALSE) /\ c.index <= Len(c.phases)
          /\ Fans(c) => c.items # Unset
      BY <2>1, <2>2, <2>3
    <2>5. /\ ChosenOf(c, n) \in Calls /\ CallFits(ChosenOf(c, n), ran, dropped, TRUE)
          /\ ChosenOf(c, n).first = n /\ ChosenOf(c, n).phases = c.phases
          /\ ChosenOf(c, n).index = c.index /\ ChosenOf(c, n).items = c.items
          /\ ChosenOf(c, n).item = c.item
      BY <2>4, ChosenFits
    <2> QED
      BY <1>2, <2>3, <2>5, Zenon

LEMMA AnswerOnlyStep == ASSUME Core, AnswerOnly PROVE Core'
  <1>1. AtPhase /\ Runs /\ at = "call" /\ agent' = agent /\ blob' = blob /\ archive' = archive
        /\ past' = past
    BY DEF AnswerOnly, AtPhase, Runs
  <1>2. Typed /\ Stored /\ IsAgent(agent') /\ IsArchive(archive')
    BY <1>1 DEF Core, Typed, IsArchive
  <1>3. PICK c \in Calls : c = Chosen /\ CallFits(c, work.ran, work.dropped, TRUE)
    BY <1>1, ChosenCall
  <1>4. PhaseEnds(c, ctx.next)
    BY <1>3 DEF AnswerOnly
  <1>5. Onward
    BY <1>1, <1>2, <1>3, <1>4, AtPhaseCall, PhaseEndsOnward
  <1> QED
    BY <1>1, <1>2, <1>5, OnwardHolds

LEMMA CallDoneStep == ASSUME Core, CallDone PROVE Core'
  <1>1. /\ at = "call" /\ at' = "plan" /\ agent' = agent /\ blob' = blob /\ archive' = archive
        /\ past' = past /\ work' = work /\ ctx' = Answered(FALSE) /\ mem' = [mem EXCEPT !.live = FALSE]
    BY DEF CallDone
  <1>2. Typed /\ Stored /\ IsAgent(agent') /\ IsArchive(archive') /\ work' \in Works /\ IsMemory(mem)
    BY <1>1 DEF Core, Typed, IsArchive
  <1>3. Entries(ctx) /\ AtWork(ctx, agent, work) /\ agent'.disabled = Strongest(work'.said)
    BY <1>1 DEF Core, Live, AtWork
  <1>4. FALSE \in BOOLEAN
    BY Zenon
  <1>5. IsMemory(mem') /\ mem'.changed = mem.changed
    BY <1>1, <1>2, <1>4, QuietMemory
  <1>6. Onward
    BY <1>1, <1>2, <1>3, <1>4, <1>5, AnsweredOnward
  <1> QED
    BY <1>1, <1>2, <1>6, OnwardHolds

-----------------------------------------------------------------------------
(* The steps of a run: a new one, at the next number, and the labels.        *)
Entry == [output : Nat, label : BOOLEAN]

LEMMA StepsAreTrajectory ==
    ASSUME NEW t, NEW lo \in Nat, NEW hi \in Nat, lo <= hi, Steps(t, lo, hi)
    PROVE  IsTrajectory(t)
  <1>1. DOMAIN t = lo..hi
    BY DEF Steps
  <1>2. lo \in DOMAIN t /\ hi \in DOMAIN t
    BY <1>1
  <1> QED
    BY <1>2 DEF IsTrajectory

LEMMA WithSteps ==
    ASSUME NEW lo \in Nat, agent.idx \in Nat, lo <= agent.idx,
           Steps(agent.trajectory, lo, agent.idx - 1), NEW entry \in Entry
    PROVE  /\ Steps(With(entry), lo, agent.idx) /\ With(entry)[agent.idx] = entry
           /\ \A i \in lo..agent.idx - 1 : With(entry)[i] = agent.trajectory[i]
           /\ DOMAIN With(entry) = DOMAIN agent.trajectory \cup {agent.idx}
  <1>0. PICK t : t = agent.trajectory
    OBVIOUS
  <1>1. PICK k \in Nat : t = agent.trajectory /\ k = agent.idx
    BY <1>0
  <1>2. t \in [lo..k - 1 -> Entry]
    BY <1>1 DEF Steps, Entry
  <1>3. DOMAIN t = lo..k - 1 /\ \A i \in lo..k - 1 : t[i] \in Entry
    BY <1>2
  <1>4. With(entry) = [i \in DOMAIN t \cup {k} |-> IF i = k THEN entry ELSE t[i]]
    BY <1>1 DEF With
  <1>5. lo..k - 1 \cup {k} = lo..k
    BY <1>1
  <1>6. \A i \in lo..k : i # k => i \in lo..k - 1
    BY <1>1
  <1>7. With(entry) = [i \in lo..k |-> IF i = k THEN entry ELSE t[i]]
    BY <1>3, <1>4, <1>5
  <1>8. k \in lo..k /\ \A i \in lo..k - 1 : i \in lo..k /\ i # k
    BY <1>1
  <1>9. With(entry) \in [lo..k -> Entry]
    BY <1>3, <1>6, <1>7
  <1>10. With(entry)[k] = entry /\ \A i \in lo..k - 1 : With(entry)[i] = t[i]
    BY <1>7, <1>8
  <1> QED
    BY <1>1, <1>3, <1>5, <1>7, <1>9, <1>10 DEF Steps, Entry

LEMMA LabelledSteps ==
    ASSUME NEW t, NEW lo, NEW hi, Steps(t, lo, hi), NEW labels
    PROVE  /\ Steps(Labelled(t, labels), lo, hi)
           /\ \A i \in DOMAIN t : /\ Labelled(t, labels)[i].output = t[i].output
                                  /\ Labelled(t, labels)[i].label => t[i].label \/ i \in labels
  <1>1. DOMAIN t = lo..hi /\ \A i \in lo..hi : t[i] \in Entry
    BY DEF Steps, Entry
  <1> DEFINE l == Labelled(t, labels)
  <1>2. l = [i \in lo..hi |-> [t[i] EXCEPT !.label = @ \/ i \in labels]]
    BY <1>1 DEF Labelled
  <1>3. ASSUME NEW e \in Entry, NEW b \in BOOLEAN
        PROVE  LET f == [e EXCEPT !.label = b]
               IN  f \in Entry /\ f.output = e.output /\ f.label = b
    BY DEF Entry
  <1>4. ASSUME NEW i \in lo..hi
        PROVE  l[i] \in Entry /\ l[i].output = t[i].output /\ (l[i].label => t[i].label \/ i \in labels)
    <2>1. PICK e \in Entry : e = t[i]
      BY <1>1
    <2>2. PICK b \in BOOLEAN : b = (e.label \/ i \in labels)
      BY Zenon
    <2>3. l[i] = [e EXCEPT !.label = b]
      BY <1>2, <2>1, <2>2
    <2> QED
      BY <1>3, <2>1, <2>2, <2>3
  <1>5. DOMAIN l = lo..hi
    BY <1>2
  <1>6. l \in [lo..hi -> Entry]
    BY <1>2, <1>4, <1>5
  <1> QED
    BY <1>1, <1>4, <1>6 DEF Steps, Entry

LEMMA ArchivedTyped ==
    ASSUME Typed, work.output \in 1..past.outputs, agent.idx \in Nat, NEW stored,
           archive' = Archived(agent.idx, stored)
    PROVE  IsArchive(archive')
  <1>1. IsArchive(archive)
    BY DEF Typed, IsArchive
  <1>2. CASE stored /\ agent.idx \notin DOMAIN archive
    <2>1. archive' = [j \in DOMAIN archive \cup {agent.idx} |->
                        IF j = agent.idx THEN work.output ELSE archive[j]]
      BY <1>2 DEF Archived
    <2>2. archive' = [i \in DOMAIN archive' |-> archive'[i]]
      BY <2>1
    <2>3. DOMAIN archive' = DOMAIN archive \cup {agent.idx}
      BY <2>1
    <2>4. \A j \in DOMAIN archive' : archive'[j] = IF j = agent.idx THEN work.output ELSE archive[j]
      BY <2>1
    <2>5. \A j \in DOMAIN archive' : j \in Nat /\ archive'[j] \in 1..past.outputs
      BY <1>1, <2>3, <2>4 DEF IsArchive
    <2> QED
      BY <2>2, <2>5 DEF IsArchive
  <1>3. CASE ~(stored /\ agent.idx \notin DOMAIN archive)
    BY <1>1, <1>3 DEF Archived
  <1> QED
    BY <1>2, <1>3

LEMMA NewOutput ==
    ASSUME Typed, NewOutputs
    PROVE  /\ past' \in Pasts /\ past'.request = past.request /\ past'.asked = past.asked
           /\ past'.restarts = past.restarts /\ past'.faults = past.faults
           /\ past'.outputs = past.outputs + 1 /\ past'.outputs \in 1..past'.outputs
           /\ \A i \in DOMAIN archive : i \in Nat /\ archive[i] \in 1..past'.outputs
  <1>1. past \in Pasts /\ past.outputs \in Nat
    BY DEF Typed, Pasts
  <1>2. /\ past' \in Pasts /\ past'.request = past.request /\ past'.asked = past.asked
        /\ past'.restarts = past.restarts /\ past'.faults = past.faults
        /\ past'.outputs = past.outputs + 1
    <2>1. past.outputs + 1 \in Nat
      BY <1>1
    <2> QED
      BY <1>1, <2>1 DEF NewOutputs, Pasts
  <1>3. \A n \in 1..past.outputs : n \in 1..past'.outputs
    BY <1>1, <1>2
  <1>4. past'.outputs \in 1..past'.outputs
    BY <1>1, <1>2
  <1> QED
    BY <1>2, <1>3, <1>4 DEF Typed

LEMMA MemoryOf ==
    ASSUME NEW m, NEW f, f = [o \in DOMAIN f |-> f[o]], \A o \in DOMAIN f : o \in Nat /\ f[o] \in Nat,
           m \in [floors : {f}, live : BOOLEAN, changed : BOOLEAN, floor : Int, final : BOOLEAN]
    PROVE  IsMemory(m) /\ m.floors = f
  <1>1. m.floors = f
    OBVIOUS
  <1>2. m \in [floors : {m.floors}, live : BOOLEAN, changed : BOOLEAN, floor : Int, final : BOOLEAN]
    BY <1>1
  <1> QED
    BY <1>1, <1>2 DEF IsMemory

(* A run begins at the turn's next step.                                     *)
LEMMA RunBegins ==
    ASSUME Core, at \in {"plan", "call"}, at' = "run", ctx' \in Turns, Asked(ctx'), Entries(ctx'),
           AtWork(ctx', agent', work'), NewOutputs, blob' = blob, archive' = archive,
           ctx'.call.phases # <<>> =>
              CallFits(ctx'.call, work'.ran, work'.dropped, TRUE) /\ ctx'.call.first = work'.start,
           IsAgent(agent'), agent'.trajectory = Empty, agent'.idx = ctx.next,
           work' \in Works, work'.start = ctx.next, work'.output = past.outputs + 1,
           IsMemory(mem'), mem'.changed = mem.changed
    PROVE  Core'
  <1>1. Typed /\ Stored
    BY DEF Core
  <1>2. /\ past' \in Pasts /\ past'.request = past.request /\ past'.restarts = past.restarts
        /\ past'.faults = past.faults /\ past'.outputs = past.outputs + 1
        /\ work'.output \in 1..past'.outputs
        /\ \A i \in DOMAIN archive' : i \in Nat /\ archive'[i] \in 1..past'.outputs
    BY <1>1, NewOutput
  <1>3. past'.request \in Requests /\ Asked(ctx)' /\ Asked(blob.ctx)'
    BY <1>1, <1>2 DEF Typed, Asked
  <1>4. mem'.changed => ~Calm' /\ past'.restarts > 0
    BY <1>1, <1>2 DEF Typed, Calm
  <1>5. archive' = [i \in DOMAIN archive' |-> archive'[i]]
    BY <1>1 DEF Typed
  <1>6. blob' \in [ctx : Turns, agent : {blob'.agent}, work : Works] /\ IsAgent(blob'.agent)
    BY <1>1 DEF Typed
  <1>7. Typed'
    BY <1>2, <1>3, <1>4, <1>5, <1>6 DEF Typed
  <1>8. ctx.next \in Nat
    BY <1>1, TurnTypes DEF Typed
  <1>9. work'.start <= agent'.idx /\ Steps(agent'.trajectory, work'.start, agent'.idx - 1)
    <2>1. PICK n \in Nat : n = ctx.next
      BY <1>8
    <2>2. n <= n /\ n..n - 1 = {}
      OBVIOUS
    <2>3. Steps(Empty, n, n - 1)
      BY <2>2 DEF Steps, Empty
    <2> QED
      BY <2>1, <2>2, <2>3
  <1>10. Live'
    BY <1>9 DEF Live, InCall, Call
  <1>11. Stored'
    BY <1>1 DEF Stored
  <1> QED
    BY <1>7, <1>10, <1>11 DEF Core

LEMMA PlainOutput == [output |-> 0, label |-> FALSE] \in Entry
  <1>1. FALSE \in BOOLEAN
    BY Zenon
  <1> QED
    BY <1>1 DEF Entry

LEMMA AgentTypes ==
    ASSUME NEW a, IsAgent(a)
    PROVE  /\ a \in [trajectory : {a.trajectory}, idx : Nat, iteration : Nat, disabled : Replies,
                     stash : {a.stash}]
           /\ a.idx \in Nat /\ a.iteration \in Nat /\ a.disabled \in Replies
           /\ IsTrajectory(a.trajectory) /\ IsStash(a.stash)
  <1>1. a \in [trajectory : {a.trajectory}, idx : Nat, iteration : Nat, disabled : Replies,
               stash : {a.stash}]
    BY DEF IsAgent
  <1> QED
    BY <1>1 DEF IsAgent

(* What is known of a run.                                                   *)
LEMMA AtRun ==
    ASSUME Core, at = "run"
    PROVE  /\ Typed /\ Live /\ Stored /\ IsAgent(agent) /\ agent.idx \in Nat /\ work.start \in Nat
           /\ work \in Works /\ ctx \in Turns /\ IsMemory(mem) /\ Asked(ctx)
           /\ Entries(ctx) /\ AtWork(ctx, agent, work)
           /\ InCall => CallFits(Call, work.ran, work.dropped, TRUE) /\ Call.first = work.start
           /\ work.start <= agent.idx /\ Steps(agent.trajectory, work.start, agent.idx - 1)
           /\ work.output \in 1..past.outputs /\ past.outputs \in Nat
  <1>1. /\ Typed /\ Live /\ Stored /\ IsAgent(agent) /\ work \in Works /\ ctx \in Turns
        /\ IsMemory(mem) /\ Asked(ctx) /\ past \in Pasts /\ work.output \in 1..past.outputs
    BY DEF Core, Typed
  <1>2. agent.idx \in Nat /\ work.start \in Nat /\ past.outputs \in Nat
    BY <1>1, AgentTypes DEF Works, Pasts
  <1> QED
    BY <1>1, <1>2 DEF Live

LEMMA RunPhaseStep == ASSUME Core, RunPhase PROVE Core'
  <1>1. /\ AtPhase /\ Runs /\ at = "call" /\ at' = "run" /\ ctx' = [ctx EXCEPT !.call = Chosen]
        /\ agent' = Forwarded(agent) /\ mem' = Checked(ctx.next) /\ work' = Started(work)
        /\ NewOutputs /\ blob' = blob /\ archive' = archive
    BY DEF RunPhase, AtPhase, Runs
  <1>2. /\ Typed /\ IsAgent(agent) /\ work \in Works /\ IsMemory(mem) /\ Asked(ctx) /\ past \in Pasts
    BY DEF Core, Typed
  <1>3. /\ Entries(ctx) /\ AtWork(ctx, agent, work) /\ ctx \in Turns /\ ctx.next \in Nat
    BY <1>1, AtPhaseCall
  <1>4. PICK c \in Calls : /\ c = Chosen /\ CallFits(c, work.ran, work.dropped, TRUE)
                           /\ c.first = ctx.next
    BY <1>1, ChosenCall
  <1>5. /\ ctx' \in Turns /\ ctx'.origins = ctx.origins /\ ctx'.index = ctx.index
        /\ ctx'.answers = ctx.answers /\ ctx'.exhausted = ctx.exhausted /\ ctx'.call = c
    BY <1>1, <1>3, <1>4 DEF Turns
  <1>6. Entries(ctx') /\ Asked(ctx')
    BY <1>2, <1>3, <1>5, SameEntries DEF Asked
  <1>7. /\ work' \in Works /\ work'.start = ctx.next /\ work'.output = past.outputs + 1
        /\ work'.ran = work.ran /\ work'.dropped = work.dropped /\ work'.origin = work.origin
        /\ work'.said = work.said
    <2>1. past.outputs + 1 \in Nat
      BY <1>2 DEF Pasts
    <2> QED
      BY <1>1, <1>2, <1>3, <2>1 DEF Started, Works
  <1>8. /\ IsAgent(agent') /\ agent'.trajectory = Empty /\ agent'.idx = ctx.next
        /\ agent'.disabled = agent.disabled
    <2>1. /\ agent' \in [trajectory : {Empty}, idx : Nat, iteration : Nat, disabled : Replies,
                         stash : {NoStash}]
          /\ agent'.idx = ctx.next /\ agent'.disabled = agent.disabled
      <3>1. agent \in [trajectory : {agent.trajectory}, idx : Nat, iteration : Nat,
                       disabled : Replies, stash : {agent.stash}]
        BY <1>2, AgentTypes
      <3>2. agent' = [agent EXCEPT !.trajectory = Empty, !.idx = ctx.next, !.iteration = 0,
                                   !.stash = NoStash]
        BY <1>1 DEF Forwarded
      <3> QED
        BY <1>3, <3>1, <3>2
    <2> QED
      BY <2>1, AgentOf, NoStashTyped
  <1>9. IsMemory(mem') /\ mem'.changed = mem.changed
    <2>1. (LastOfCall /\ LastSubtask) \in BOOLEAN /\ TRUE \in BOOLEAN
      BY Zenon
    <2>2. mem \in [floors : {mem.floors}, live : BOOLEAN, changed : BOOLEAN, floor : Int, final : BOOLEAN]
      BY <1>2 DEF IsMemory
    <2>3. /\ mem' \in [floors : {mem.floors}, live : BOOLEAN, changed : BOOLEAN, floor : Int,
                       final : BOOLEAN]
          /\ mem'.changed = mem.changed
      <3>1. PICK b \in BOOLEAN : b = (LastOfCall /\ LastSubtask)
        BY <2>1
      <3>2. mem' = [mem EXCEPT !.floor = ctx.next, !.final = b, !.live = TRUE]
        BY <1>1, <3>1 DEF Checked
      <3>3. ctx.next \in Int
        BY <1>3
      <3> QED
        BY <2>1, <2>2, <3>2, <3>3
    <2>4. PICK f : f = mem.floors /\ f = [o \in DOMAIN f |-> f[o]]
                   /\ \A o \in DOMAIN f : o \in Nat /\ f[o] \in Nat
      BY <1>2 DEF IsMemory
    <2> QED
      BY <2>3, <2>4, MemoryOf
  <1>10. AtWork(ctx', agent', work')
    BY <1>3, <1>5, <1>7, <1>8 DEF AtWork
  <1>11. CallFits(ctx'.call, work'.ran, work'.dropped, TRUE) /\ ctx'.call.first = work'.start
    BY <1>4, <1>5, <1>7
  <1> QED
    BY <1>1, <1>5, <1>6, <1>7, <1>8, <1>9, <1>10, <1>11, RunBegins

LEMMA CommandStep == ASSUME Core, NEW stored \in BOOLEAN, Command(stored) PROVE Core'
  <1> DEFINE entry == [output |-> work.output, label |-> FALSE]
  <1>1. /\ at = "run" /\ archive' = Archived(agent.idx, stored) /\ blob' = blob /\ past' = past
        /\ \E labels \in SUBSET Offloadable(With(entry)) :
              agent' = [agent EXCEPT !.trajectory = Labelled(With(entry), labels), !.idx = @ + 1,
                                     !.iteration = @ + 1]
        /\ IF agent'.iteration >= Cap THEN Answering(TRUE) ELSE UNCHANGED <<at, ctx, mem, work>>
    BY DEF Command, Running
  <1>2. PICK labels \in SUBSET Offloadable(With(entry)) :
           agent' = [agent EXCEPT !.trajectory = Labelled(With(entry), labels), !.idx = @ + 1,
                                  !.iteration = @ + 1]
    BY <1>1
  <1>3. entry \in Entry
    <2>1. work.output \in Nat
      BY <1>1, AtRun
    <2>2. FALSE \in BOOLEAN
      BY Zenon
    <2> QED
      BY <2>1, <2>2 DEF Entry
  <1> HIDE DEF entry
  <1>4. Steps(With(entry), work.start, agent.idx)
    BY <1>1, <1>3, AtRun, WithSteps
  <1>5. PICK t : /\ t = Labelled(With(entry), labels) /\ Steps(t, work.start, agent.idx)
                 /\ IsTrajectory(t)
    <2>1. Steps(Labelled(With(entry), labels), work.start, agent.idx)
      BY <1>4, LabelledSteps
    <2> QED
      BY <1>1, <2>1, AtRun, StepsAreTrajectory
  <1>6. /\ IsAgent(agent') /\ agent'.trajectory = t /\ agent'.idx = agent.idx + 1
        /\ agent'.disabled = agent.disabled /\ agent'.stash = agent.stash
    <2>1. IsAgent(agent) /\ agent.idx + 1 \in Nat /\ agent.iteration + 1 \in Nat
      BY <1>1, AtRun, AgentTypes
    <2>2. /\ agent' \in [trajectory : {t}, idx : Nat, iteration : Nat, disabled : Replies,
                         stash : {agent.stash}]
          /\ agent'.idx = agent.idx + 1 /\ agent'.disabled = agent.disabled
      <3>1. agent \in [trajectory : {agent.trajectory}, idx : Nat, iteration : Nat,
                       disabled : Replies, stash : {agent.stash}]
        BY <2>1, AgentTypes
      <3>2. agent' = [agent EXCEPT !.trajectory = t, !.idx = agent.idx + 1,
                                   !.iteration = agent.iteration + 1]
        BY <1>2, <1>5
      <3> QED
        BY <2>1, <3>1, <3>2
    <2> QED
      BY <1>5, <2>1, <2>2, AgentOf, AgentTypes
  <1>7. IsArchive(archive')
    BY <1>1, AtRun, ArchivedTyped
  <1>8. CASE agent'.iteration >= Cap
    <2>1. TRUE \in BOOLEAN
      BY Zenon
    <2>2. Onward
      BY <1>1, <1>6, <1>8, <2>1, AtRun, AnsweringOnward
    <2> QED
      BY <1>1, <1>6, <1>7, <2>2, AtRun, OnwardHolds
  <1>9. CASE ~(agent'.iteration >= Cap)
    <2>1. UNCHANGED <<at, ctx, mem, work>>
      BY <1>1, <1>9
    <2>2. Typed'
      <3>1. Asked(ctx)' /\ Asked(blob.ctx)'
        BY <1>1, <2>1 DEF Core, Typed, Asked
      <3>2. archive' = [i \in DOMAIN archive' |-> archive'[i]]
            /\ \A i \in DOMAIN archive' : i \in Nat /\ archive'[i] \in 1..past'.outputs
        BY <1>1, <1>7 DEF IsArchive
      <3> QED
        BY <1>1, <1>6, <2>1, <3>1, <3>2 DEF Core, Typed, Calm
    <2>3. work.start <= agent'.idx /\ Steps(agent'.trajectory, work.start, agent'.idx - 1)
      <3>1. agent.idx \in Nat /\ work.start \in Nat /\ work.start <= agent.idx
        BY <1>1, AtRun
      <3>2. agent'.idx - 1 = agent.idx /\ work.start <= agent'.idx
        BY <1>6, <3>1
      <3> QED
        BY <1>5, <1>6, <3>2
    <2>4. AtWork(ctx, agent', work)
      BY <1>1, <1>6, AtRun DEF AtWork
    <2>5. Live'
      BY <1>1, <2>1, <2>3, <2>4, AtRun DEF Live, InCall, Call
    <2>6. Stored'
      BY <1>1 DEF Core, Stored
    <2> QED
      BY <2>2, <2>5, <2>6 DEF Core
  <1> QED
    BY <1>8, <1>9

LEMMA ConcludesStep == ASSUME Core, Concludes PROVE Core'
  <1> DEFINE t == With([output |-> 0, label |-> FALSE])
  <1>1. /\ at = "run" /\ agent' = [agent EXCEPT !.trajectory = t] /\ Answering(FALSE)
        /\ blob' = blob /\ archive' = archive /\ past' = past
    BY DEF Concludes, Running
  <1>2. IsTrajectory(t)
    <2>1. Steps(t, work.start, agent.idx)
      BY <1>1, AtRun, PlainOutput, WithSteps
    <2> QED
      BY <1>1, <2>1, AtRun, StepsAreTrajectory
  <1> HIDE DEF t
  <1>3. IsAgent(agent') /\ agent'.disabled = agent.disabled
    <2>1. IsAgent(agent)
      BY <1>1, AtRun
    <2>2. /\ agent' \in [trajectory : {t}, idx : Nat, iteration : Nat, disabled : Replies,
                         stash : {agent.stash}]
          /\ agent'.disabled = agent.disabled
      BY <1>1, <2>1, AgentTypes
    <2> QED
      BY <1>2, <2>1, <2>2, AgentOf, AgentTypes
  <1>4. FALSE \in BOOLEAN
    BY Zenon
  <1>5. Onward
    BY <1>1, <1>3, <1>4, AtRun, AnsweringOnward
  <1>6. IsArchive(archive')
    BY <1>1 DEF Core, Typed, IsArchive
  <1> QED
    BY <1>1, <1>3, <1>5, <1>6, AtRun, OnwardHolds

(* The turn is suspended, and its blob is what is suspended.                 *)
LEMMA AskStep == ASSUME Core, Ask PROVE Core'
  <1> DEFINE t == With([output |-> 0, label |-> FALSE])
             stash == [trajectory |-> t, idx |-> agent.idx]
  <1>1. /\ at = "run" /\ at' = "suspended" /\ agent' = [agent EXCEPT !.stash = stash]
        /\ blob' = [ctx |-> ctx, agent |-> [agent' EXCEPT !.trajectory = Empty, !.idx = 0,
                                                          !.iteration = 0], work |-> work]
        /\ past' = [past EXCEPT !.asked = @ + 1] /\ UNCHANGED <<ctx, mem, archive, work>>
    BY DEF Ask, Running
  <1>2. Steps(t, work.start, agent.idx) /\ IsTrajectory(t)
    <2>1. Steps(t, work.start, agent.idx)
      BY <1>1, AtRun, PlainOutput, WithSteps
    <2> QED
      BY <1>1, <2>1, AtRun, StepsAreTrajectory
  <1> HIDE DEF t
  <1>3. IsStash(stash) /\ stash.trajectory = t /\ stash.idx = agent.idx
    <2>1. agent.idx \in Nat
      BY <1>1, AtRun
    <2>2. /\ stash \in [trajectory : {stash.trajectory}, idx : Nat \cup {Unset}]
          /\ stash.trajectory = t /\ stash.idx = agent.idx
      BY <2>1
    <2> QED
      BY <1>2, <2>2 DEF IsStash
  <1> HIDE DEF stash
  <1>4. /\ IsAgent(agent') /\ agent'.disabled = agent.disabled /\ agent'.stash = stash
    <2>1. IsAgent(agent)
      BY <1>1, AtRun
    <2>2. /\ agent' \in [trajectory : {agent.trajectory}, idx : Nat, iteration : Nat,
                         disabled : Replies, stash : {stash}]
          /\ agent'.disabled = agent.disabled
      BY <1>1, <2>1, AgentTypes
    <2> QED
      BY <1>3, <2>1, <2>2, AgentOf, AgentTypes
  <1>5. PICK a : a = blob'.agent
    OBVIOUS
  <1>6. IsAgent(a) /\ a.disabled = agent.disabled /\ a.stash = stash
    <2>1. a = [agent' EXCEPT !.trajectory = Empty, !.idx = 0, !.iteration = 0]
      BY <1>1, <1>5
    <2>2. /\ a \in [trajectory : {Empty}, idx : Nat, iteration : Nat, disabled : Replies,
                    stash : {stash}]
          /\ a.disabled = agent'.disabled
      <3>1. /\ agent' \in [trajectory : {agent'.trajectory}, idx : Nat, iteration : Nat,
                            disabled : Replies, stash : {agent'.stash}]
            /\ agent'.stash = stash
        BY <1>4, AgentTypes
      <3>2. PICK b : b = agent'
        OBVIOUS
      <3> QED
        BY <2>1, <3>1, <3>2
    <2> QED
      BY <1>3, <1>4, <2>2, AgentOf, NoStashTyped
  <1>7. /\ blob' \in [ctx : Turns, agent : {blob'.agent}, work : Works]
        /\ blob'.ctx = ctx /\ blob'.work = work
    BY <1>1, AtRun
  <1>8. /\ past' \in Pasts /\ past'.request = past.request /\ past'.outputs = past.outputs
        /\ past'.restarts = past.restarts /\ past'.faults = past.faults
    <2>1. past \in Pasts /\ past.asked + 1 \in Nat
      BY DEF Core, Typed, Pasts
    <2> QED
      BY <1>1, <2>1 DEF Pasts
  <1>9. Typed'
    <2>1. Asked(ctx)' /\ Asked(blob.ctx)'
      BY <1>1, <1>7, <1>8, AtRun DEF Asked
    <2>2. mem'.changed => ~Calm' /\ past'.restarts > 0
      BY <1>1, <1>8, AtRun DEF Typed, Calm
    <2>3. /\ archive' = [i \in DOMAIN archive' |-> archive'[i]]
          /\ \A i \in DOMAIN archive' : i \in Nat /\ archive'[i] \in 1..past'.outputs
      BY <1>1, <1>8, AtRun DEF Typed
    <2>4. past'.request \in Requests
      BY <1>1, <1>8, AtRun DEF Typed
    <2>5. /\ ctx' \in Turns /\ IsMemory(mem') /\ work' \in Works /\ work'.output \in 1..past'.outputs
      BY <1>1, <1>8, AtRun
    <2> QED
      BY <1>1, <1>4, <1>5, <1>6, <1>7, <1>8, <2>1, <2>2, <2>3, <2>4, <2>5 DEF Typed
  <1>10. ASSUME NEW b, b.disabled = agent.disabled, b.stash = stash
         PROVE  Suspended(ctx, b, work)
    <2>1. AtWork(ctx, b, work)
      BY <1>1, <1>10, AtRun DEF AtWork
    <2>2. b.stash.idx # Unset /\ work.start <= b.stash.idx
      BY <1>1, <1>3, <1>10, AtRun DEF Unset
    <2>3. Steps(b.stash.trajectory, work.start, b.stash.idx)
      BY <1>2, <1>3, <1>10
    <2> QED
      BY <1>1, <2>1, <2>2, <2>3, AtRun DEF Suspended, InCall, Call
  <1>11. Suspended(ctx', agent', work')
    BY <1>1, <1>4, <1>10
  <1>12. Suspended(blob'.ctx, blob'.agent, blob'.work)
    BY <1>5, <1>6, <1>7, <1>10
  <1>13. Entries(ctx') /\ AtWork(ctx', agent', work')
    BY <1>11 DEF Suspended
  <1>14. Live'
    BY <1>1, <1>11, <1>13 DEF Live
  <1>15. Stored'
    BY <1>12 DEF Stored
  <1> QED
    BY <1>9, <1>14, <1>15 DEF Core

(* What is known of a suspended turn.                                        *)
LEMMA AtSuspended ==
    ASSUME Core, at = "suspended"
    PROVE  /\ Typed /\ Live /\ Stored /\ IsAgent(agent) /\ work \in Works /\ ctx \in Turns
           /\ IsMemory(mem) /\ Asked(ctx) /\ Suspended(ctx, agent, work)
           /\ work.output \in 1..past.outputs /\ work.start \in Nat
           /\ agent.stash.idx \in Nat /\ IsTrajectory(agent.stash.trajectory)
  <1>1. /\ Typed /\ Live /\ Stored /\ IsAgent(agent) /\ work \in Works /\ ctx \in Turns
        /\ IsMemory(mem) /\ Asked(ctx) /\ Suspended(ctx, agent, work)
        /\ work.output \in 1..past.outputs
    BY DEF Core, Typed, Live
  <1>2. IsStash(agent.stash) /\ agent.stash.idx # Unset
    BY <1>1, AgentTypes DEF Suspended
  <1>3. agent.stash.idx \in Nat /\ IsTrajectory(agent.stash.trajectory)
    BY <1>2 DEF IsStash
  <1>4. work.start \in Nat
    BY <1>1 DEF Works
  <1> QED
    BY <1>1, <1>3, <1>4

LEMMA CheckedTyped ==
    ASSUME IsMemory(mem), NEW n \in Nat
    PROVE  IsMemory(Checked(n)) /\ Checked(n).changed = mem.changed
  <1>1. (LastOfCall /\ LastSubtask) \in BOOLEAN /\ TRUE \in BOOLEAN
    BY Zenon
  <1>2. mem \in [floors : {mem.floors}, live : BOOLEAN, changed : BOOLEAN, floor : Int, final : BOOLEAN]
    BY DEF IsMemory
  <1>3. PICK b \in BOOLEAN : b = (LastOfCall /\ LastSubtask)
    BY <1>1
  <1>4. PICK m : m = Checked(n)
    OBVIOUS
  <1>5. /\ m \in [floors : {mem.floors}, live : BOOLEAN, changed : BOOLEAN, floor : Int, final : BOOLEAN]
        /\ m.changed = mem.changed
    <2>1. m = [mem EXCEPT !.floor = n, !.final = b, !.live = TRUE]
      BY <1>3, <1>4 DEF Checked
    <2>2. n \in Int
      OBVIOUS
    <2> QED
      BY <1>1, <1>2, <2>1, <2>2
  <1>6. PICK f : f = mem.floors /\ f = [o \in DOMAIN f |-> f[o]]
                 /\ \A o \in DOMAIN f : o \in Nat /\ f[o] \in Nat
    BY DEF IsMemory
  <1> QED
    BY <1>4, <1>5, <1>6, MemoryOf

(* A reply leaves of the tools what the strongest one so far leaves.         *)
LEMMA SaidWork ==
    ASSUME Core, at = "suspended", NEW reply \in Replies, Heard(reply)
    PROVE  /\ work' \in Works /\ work'.origin = work.origin /\ work'.first = work.first
           /\ work'.start = work.start /\ work'.output = work.output /\ work'.ran = work.ran
           /\ work'.dropped = work.dropped
           /\ \E d \in Replies :
                 d = Strongest(work'.said) /\ Told(reply) = [agent EXCEPT !.disabled = d]
  <1>1. work \in Works /\ IsAgent(agent) /\ agent.disabled = Strongest(work.said)
    BY AtSuspended DEF Suspended, AtWork
  <1>2. PICK more : more = {reply} \ {None}
    OBVIOUS
  <1>3. work' = [work EXCEPT !.said = @ \cup more] /\ more \subseteq Replies
    BY <1>2 DEF Heard
  <1>4. /\ work' \in Works /\ work'.said = work.said \cup more
        /\ work'.origin = work.origin /\ work'.first = work.first
        /\ work'.start = work.start /\ work'.output = work.output /\ work'.ran = work.ran
        /\ work'.dropped = work.dropped
    BY <1>1, <1>3 DEF Works
  <1>5. PICK d : d = IF reply = "abort" \/ agent.disabled = None THEN reply ELSE agent.disabled
    OBVIOUS
  <1>6. agent \in [trajectory : {agent.trajectory}, idx : Nat, iteration : Nat, disabled : Replies,
                   stash : {agent.stash}]
    BY <1>1, AgentTypes
  <1>7. agent.disabled \in Replies
    BY <1>6
  <1>8. d \in Replies /\ d = Strongest(work.said \cup more)
    BY <1>1, <1>2, <1>5, <1>7 DEF Strongest, Replies, None
  <1>9. Told(reply) = [agent EXCEPT !.disabled = d]
    BY <1>5, <1>6 DEF Told
  <1> QED
    BY <1>4, <1>8, <1>9

LEMMA ToldAgent ==
    ASSUME Core, at = "suspended", NEW d \in Replies
    PROVE  LET a == [agent EXCEPT !.disabled = d]
           IN  /\ IsAgent(a) /\ a.disabled = d /\ a.trajectory = agent.trajectory
               /\ a.idx = agent.idx /\ a.stash = agent.stash
  <1>1. PICK a : a = [agent EXCEPT !.disabled = d]
    OBVIOUS
  <1>2. agent \in [trajectory : {agent.trajectory}, idx : Nat, iteration : Nat,
                   disabled : Replies, stash : {agent.stash}]
    BY AtSuspended, AgentTypes
  <1>3. /\ a \in [trajectory : {agent.trajectory}, idx : Nat, iteration : Nat,
                   disabled : Replies, stash : {agent.stash}]
        /\ a.disabled = d /\ a.trajectory = agent.trajectory /\ a.idx = agent.idx
        /\ a.stash = agent.stash
    BY <1>1, <1>2
  <1>4. IsTrajectory(agent.trajectory) /\ IsStash(agent.stash)
    BY AtSuspended, AgentTypes
  <1> QED
    BY <1>1, <1>3, <1>4, AgentOf

(* The reply is taken and the run stays suspended.                           *)
LEMMA ReplanFailsStep == ASSUME Core, NEW reply \in Replies, ReplanFails(reply) PROVE Core'
  <1>1. /\ at = "suspended" /\ agent' = Told(reply) /\ Heard(reply)
        /\ UNCHANGED <<at, ctx, mem, blob, archive, past>>
    BY DEF ReplanFails
  <1>2. /\ work' \in Works /\ work'.origin = work.origin /\ work'.start = work.start
        /\ work'.output = work.output /\ work'.ran = work.ran /\ work'.dropped = work.dropped
    BY <1>1, SaidWork
  <1>3. PICK d \in Replies : d = Strongest(work'.said) /\ agent' = [agent EXCEPT !.disabled = d]
    BY <1>1, SaidWork
  <1>4. IsAgent(agent') /\ agent'.disabled = Strongest(work'.said) /\ agent'.stash = agent.stash
    BY <1>1, <1>3, ToldAgent
  <1>5. Typed'
    <2>1. Asked(ctx)' /\ Asked(blob.ctx)'
      BY <1>1 DEF Core, Typed, Asked
    <2>2. mem'.changed => ~Calm' /\ past'.restarts > 0
      BY <1>1 DEF Core, Typed, Calm
    <2> QED
      BY <1>1, <1>2, <1>4, <2>1, <2>2 DEF Core, Typed
  <1>6. Live'
    <2>1. Suspended(ctx, agent, work)
      BY <1>1, AtSuspended
    <2>2. Suspended(ctx', agent', work')
      BY <1>1, <1>2, <1>4, <2>1 DEF Suspended, AtWork
    <2>3. Entries(ctx') /\ AtWork(ctx', agent', work')
      BY <2>2 DEF Suspended
    <2> QED
      BY <1>1, <2>2, <2>3 DEF Live
  <1>7. Stored'
    BY <1>1 DEF Core, Stored
  <1> QED
    BY <1>5, <1>6, <1>7 DEF Core

(* The run goes on with the reply.                                           *)
LEMMA ResumeStep == ASSUME Core, NEW reply \in Replies, Resume(reply) PROVE Core'
  <1>0. PICK d \in Replies : d = Strongest(work'.said) /\ Told(reply) = [agent EXCEPT !.disabled = d]
    BY SaidWork DEF Resume
  <1>1. /\ at = "suspended" /\ at' = "run"
        /\ agent' = [agent EXCEPT !.disabled = d, !.trajectory = agent.stash.trajectory,
                                  !.idx = agent.stash.idx + 1, !.iteration = 0, !.stash = NoStash]
        /\ mem' = IF InCall THEN Checked(Call.first) ELSE mem
        /\ Heard(reply)
        /\ UNCHANGED <<ctx, blob, archive, past>>
    <2>1. IsAgent(agent)
      BY DEF Core, Typed
    <2>2. agent \in [trajectory : {agent.trajectory}, idx : Nat, iteration : Nat, disabled : Replies,
                     stash : {agent.stash}]
      BY <2>1, AgentTypes
    <2>3. agent' = [[agent EXCEPT !.disabled = d] EXCEPT
                       !.trajectory = agent.stash.trajectory, !.idx = agent.stash.idx + 1,
                       !.iteration = 0, !.stash = NoStash]
      BY <1>0 DEF Resume
    <2>4. agent' = [agent EXCEPT !.disabled = d, !.trajectory = agent.stash.trajectory,
                                 !.idx = agent.stash.idx + 1, !.iteration = 0, !.stash = NoStash]
      BY <2>2, <2>3
    <2> QED
      BY <2>4 DEF Resume
  <1>2. PICK t, i : t = agent.stash.trajectory /\ i = agent.stash.idx
    OBVIOUS
  <1>3. i \in Nat /\ i + 1 \in Nat /\ IsTrajectory(t) /\ work.start <= i /\ Steps(t, work.start, i)
        /\ work.start \in Nat
    BY <1>1, <1>2, AtSuspended DEF Suspended
  <1>4. /\ IsAgent(agent') /\ agent'.trajectory = t /\ agent'.idx = i + 1
        /\ agent'.disabled = d
    <2>1. agent \in [trajectory : {agent.trajectory}, idx : Nat, iteration : Nat,
                     disabled : Replies, stash : {agent.stash}]
      BY <1>1, AtSuspended, AgentTypes
    <2>2. agent' = [agent EXCEPT !.disabled = d, !.trajectory = t, !.idx = i + 1,
                                 !.iteration = 0, !.stash = NoStash]
      BY <1>1, <1>2
    <2>3. /\ agent' \in [trajectory : {t}, idx : Nat, iteration : Nat, disabled : Replies,
                         stash : {NoStash}]
          /\ agent'.idx = i + 1 /\ agent'.disabled = d
      BY <1>3, <2>1, <2>2
    <2> QED
      BY <1>3, <2>3, AgentOf, NoStashTyped
  <1>5. /\ work' \in Works /\ work'.origin = work.origin /\ d = Strongest(work'.said)
        /\ work'.start = work.start /\ work'.output = work.output /\ work'.ran = work.ran
        /\ work'.dropped = work.dropped
    BY <1>0, <1>1, SaidWork
  <1>6. IsMemory(mem') /\ mem'.changed = mem.changed
    <2>1. Call.first \in Nat
      BY <1>1, AtSuspended DEF Call, Turns, Calls
    <2> QED
      BY <1>1, <2>1, AtSuspended, CheckedTyped
  <1>7. Typed'
    <2>1. Asked(ctx)' /\ Asked(blob.ctx)'
      BY <1>1 DEF Core, Typed, Asked
    <2>2. mem'.changed => ~Calm' /\ past'.restarts > 0
      BY <1>1, <1>6 DEF Core, Typed, Calm
    <2> QED
      BY <1>1, <1>4, <1>5, <1>6, <2>1, <2>2 DEF Core, Typed
  <1>8. Live'
    <2>1. Suspended(ctx, agent, work)
      BY <1>1, AtSuspended
    <2>2. Entries(ctx') /\ AtWork(ctx', agent', work')
      BY <1>1, <1>4, <1>5, <2>1 DEF Suspended, AtWork
    <2>3. ctx.call.phases # <<>> =>
             CallFits(ctx.call, work'.ran, work'.dropped, TRUE) /\ ctx.call.first = work'.start
      BY <1>5, <2>1 DEF Suspended
    <2>4. work'.start <= agent'.idx /\ Steps(agent'.trajectory, work'.start, agent'.idx - 1)
      <3>1. i + 1 - 1 = i /\ work.start <= i + 1
        BY <1>3
      <3> QED
        BY <1>3, <1>4, <1>5, <3>1
    <2> QED
      BY <1>1, <2>2, <2>3, <2>4 DEF Live, InCall, Call
  <1>9. Stored'
    BY <1>1 DEF Core, Stored
  <1> QED
    BY <1>7, <1>8, <1>9 DEF Core

LEMMA ResumeFailsStep == ASSUME Core, NEW reply \in Replies, ResumeFails(reply) PROVE Core'
  <1>0. PICK d \in Replies : d = Strongest(work'.said) /\ Told(reply) = [agent EXCEPT !.disabled = d]
    BY SaidWork DEF ResumeFails
  <1>1. /\ at = "suspended" /\ at' = "plan" /\ agent' = [agent EXCEPT !.disabled = d]
        /\ ctx' = Answered(FALSE) /\ Heard(reply)
        /\ UNCHANGED <<mem, blob, archive, past>>
    BY <1>0 DEF ResumeFails
  <1>2. IsAgent(agent') /\ agent'.disabled = d
    BY <1>1, ToldAgent
  <1>3. work' \in Works /\ work'.origin = work.origin /\ d = Strongest(work'.said)
    BY <1>0, <1>1, SaidWork
  <1>4. Entries(ctx) /\ AtWork(ctx, agent, work) /\ IsMemory(mem') /\ mem'.changed = mem.changed
    BY <1>1, AtSuspended DEF Suspended
  <1>5. FALSE \in BOOLEAN
    BY Zenon
  <1>6. Onward
    BY <1>1, <1>2, <1>3, <1>4, <1>5, AtSuspended, AnsweredOnward
  <1>7. IsArchive(archive')
    BY <1>1 DEF Core, Typed, IsArchive
  <1> QED
    BY <1>1, <1>2, <1>6, <1>7, AtSuspended, OnwardHolds

(* Another process takes over what the blob has.                             *)
LEMMA TakesStep ==
    ASSUME Core, at # "idle", NEW faults \in SUBSET {"crash"}, Takes(faults) PROVE Core'
  <1>1. /\ blob # NoBlob /\ at' = "suspended" /\ ctx' = blob.ctx /\ agent' = blob.agent
        /\ work' = [blob.work EXCEPT !.output = past.outputs + 1]
        /\ blob' = blob /\ archive' = archive
    BY DEF Takes
  <1>2. PICK redeployed \in SUBSET ({"redeploy"} \cap past.request.faults) :
          /\ mem' = [Forgotten EXCEPT !.changed = redeployed # {}]
          /\ past' = [past EXCEPT !.restarts = @ + 1, !.outputs = @ + 1,
                                  !.faults = @ \cup faults \cup redeployed]
    BY DEF Takes
  <1>3. /\ Typed /\ Suspended(blob.ctx, blob.agent, blob.work) /\ past \in Pasts
        /\ blob \in [ctx : Turns, agent : {blob.agent}, work : Works] /\ IsAgent(blob.agent)
        /\ past.request \in Requests /\ Asked(blob.ctx)
    BY <1>1 DEF Core, Stored, Typed
  <1>4. blob.work \in Works /\ blob.ctx \in Turns
    BY <1>3
  <1>5. /\ past' \in Pasts /\ past'.request = past.request /\ past'.outputs = past.outputs + 1
        /\ past'.restarts = past.restarts + 1 /\ past'.faults = past.faults \cup faults \cup redeployed
        /\ past.outputs \in Nat /\ past.restarts \in Nat
    <2>1. past.outputs \in Nat /\ past.outputs + 1 \in Nat /\ past.restarts \in Nat
          /\ past.restarts + 1 \in Nat /\ past.faults \in SUBSET {"crash", "redeploy"}
      BY <1>3 DEF Pasts
    <2>2. past.faults \cup faults \cup redeployed \in SUBSET {"crash", "redeploy"}
      BY <2>1
    <2> QED
      BY <1>2, <1>3, <2>1, <2>2 DEF Pasts
  <1>6. /\ work' \in Works /\ work'.origin = blob.work.origin /\ work'.said = blob.work.said
        /\ work'.start = blob.work.start /\ work'.ran = blob.work.ran
        /\ work'.dropped = blob.work.dropped /\ work'.output = past'.outputs
    <2>1. past.outputs + 1 \in Nat
      BY <1>5
    <2> QED
      BY <1>1, <1>4, <1>5, <2>1 DEF Works
  <1>7. IsMemory(mem') /\ mem'.changed = (redeployed # {})
    <2>1. PICK b \in BOOLEAN : b = (redeployed # {})
      BY Zenon
    <2>2. FALSE \in BOOLEAN /\ TRUE \in BOOLEAN
      BY Zenon
    <2>3. Forgotten \in [floors : {Empty}, live : BOOLEAN, changed : BOOLEAN, floor : Int, final : BOOLEAN]
      BY <2>2 DEF Forgotten, Unset
    <2>4. mem' = [Forgotten EXCEPT !.changed = b]
      BY <1>2, <2>1
    <2>5. /\ mem' \in [floors : {Empty}, live : BOOLEAN, changed : BOOLEAN, floor : Int, final : BOOLEAN]
          /\ mem'.changed = b
      BY <2>3, <2>4
    <2>6. Empty = [o \in DOMAIN Empty |-> Empty[o]] /\ \A o \in DOMAIN Empty : o \in Nat /\ Empty[o] \in Nat
      BY DEF Empty
    <2> QED
      BY <2>1, <2>5, <2>6, MemoryOf
  <1>8. Typed'
    <2>1. Asked(ctx)' /\ Asked(blob.ctx)'
      BY <1>1, <1>3, <1>5 DEF Asked
    <2>2. mem'.changed => ~Calm' /\ past'.restarts > 0
      <3>1. past'.restarts > 0
        BY <1>5
      <3>2. redeployed # {} => past'.faults # {}
        BY <1>5
      <3> QED
        BY <1>7, <3>1, <3>2, Zenon DEF Calm
    <2>3. \A n \in 1..past.outputs : n \in 1..past'.outputs
      BY <1>5
    <2>4. /\ archive' = [i \in DOMAIN archive' |-> archive'[i]]
          /\ \A i \in DOMAIN archive' : i \in Nat /\ archive'[i] \in 1..past'.outputs
      BY <1>1, <1>3, <2>3 DEF Typed
    <2>5. work'.output \in 1..past'.outputs
      BY <1>5, <1>6
    <2> QED
      BY <1>1, <1>3, <1>4, <1>5, <1>6, <1>7, <2>1, <2>2, <2>4, <2>5 DEF Typed
  <1>9. Suspended(ctx', agent', work')
    BY <1>1, <1>3, <1>6 DEF Suspended, AtWork
  <1>10. Live'
    BY <1>1, <1>9 DEF Live, Suspended
  <1>11. Stored'
    BY <1>1 DEF Core, Stored
  <1> QED
    BY <1>8, <1>10, <1>11 DEF Core

-----------------------------------------------------------------------------
(* The turn's first and last steps, and what is taken from its list.         *)
LEMMA NoTurnTyped ==
    /\ NoTurn \in Turns /\ NoTurn.origins = <<>> /\ NoTurn.index = 1 /\ NoTurn.answers = <<>>
    /\ NoTurn.exhausted = FALSE /\ NoTurn.next = 0 /\ NoTurn.call = NoCall
  <1>1. FALSE \in BOOLEAN
    BY Zenon
  <1>2. <<>> \in Seq(Nat) /\ <<>> \in Seq(Answers)
    OBVIOUS
  <1> QED
    BY <1>1, <1>2, NoCallTyped DEF NoTurn, Turns

LEMMA ClearedMemory ==
    ASSUME NEW m, IsMemory(m)
    PROVE  LET n == [m EXCEPT !.floors = Empty, !.live = FALSE]
           IN  IsMemory(n) /\ n.changed = m.changed /\ n.floors = Empty
  <1>1. PICK n : n = [m EXCEPT !.floors = Empty, !.live = FALSE]
    OBVIOUS
  <1>2. FALSE \in BOOLEAN
    BY Zenon
  <1>3. m \in [floors : {m.floors}, live : BOOLEAN, changed : BOOLEAN, floor : Int, final : BOOLEAN]
    BY DEF IsMemory
  <1>4. /\ n \in [floors : {Empty}, live : BOOLEAN, changed : BOOLEAN, floor : Int, final : BOOLEAN]
        /\ n.changed = m.changed
    BY <1>1, <1>2, <1>3
  <1>5. Empty = [o \in DOMAIN Empty |-> Empty[o]] /\ \A o \in DOMAIN Empty : o \in Nat /\ Empty[o] \in Nat
    BY DEF Empty
  <1> QED
    BY <1>1, <1>4, <1>5, MemoryOf

LEMMA FirstEntries ==
    ASSUME NEW k \in Nat \ {0}, NEW c, c.origins = [i \in 1..k |-> i], c.index = 1, c.answers = <<>>
    PROVE  /\ Entries(c) /\ c.origins \in Seq(Nat) /\ Len(c.origins) = k
           /\ \A i \in DOMAIN c.origins : c.origins[i] \in 1..k
  <1>1. PICK s : s = c.origins
    OBVIOUS
  <1>2. s \in Seq(Nat) /\ Len(s) = k /\ DOMAIN s = 1..k /\ (\A i \in 1..k : s[i] = i) /\ 1 \in 1..k
    BY <1>1
  <1>3. s # <<>>
    BY <1>2
  <1>4. MaxHandoffs \in Nat
    BY SubtaskAssumption
  <1>5. ASSUME NEW o \in {s[i] : i \in DOMAIN s} PROVE Cardinality(RunsOf(s, o)) <= MaxHandoffs + 1
    <2>1. RunsOf(s, o) = {o}
      BY <1>2 DEF RunsOf
    <2>2. Cardinality({o}) = 1
      BY FS_Singleton
    <2> QED
      BY <1>4, <2>1, <2>2
  <1>6. \A i \in 1..Len(s) - 1 : s[i + 1] = s[i] + 1
    BY <1>2
  <1>7. \A i, j \in 1..Len(s) : i < j => s[i] <= s[j] /\ s[i] < s[j]
    BY <1>2
  <1>8. Len(c.answers) = 1 - 1 /\ 1 \in 1..Len(s) + 1 /\ \A i \in 1..1 - 1 : FALSE
    BY <1>2
  <1>9. Entries(c)
    BY <1>1, <1>3, <1>5, <1>6, <1>7, <1>8 DEF Entries
  <1> QED
    BY <1>1, <1>2, <1>9

LEMMA BeginStep == ASSUME Core, NEW request \in Requests, Begin(request) PROVE Core'
  <1>1. /\ at = "idle" /\ at' = "plan"
        /\ ctx' = [NoTurn EXCEPT !.origins = [i \in 1..request.subtasks |-> i]]
        /\ mem' = [mem EXCEPT !.floors = Empty, !.live = FALSE]
        /\ agent' = [agent EXCEPT !.disabled = None]
        /\ past' = [past EXCEPT !.request = request]
        /\ UNCHANGED <<blob, archive, work>>
    BY DEF Begin
  <1>2. /\ Typed /\ IsAgent(agent) /\ IsMemory(mem) /\ past \in Pasts /\ work \in Works
        /\ blob = NoBlob /\ work = NoWork
    BY <1>1 DEF Core, Typed
  <1>3. PICK k \in Nat \ {0} : k = request.subtasks
    BY SubtaskAssumption
  <1>4. /\ ctx' \in Turns /\ ctx'.origins = [i \in 1..k |-> i] /\ ctx'.index = 1
        /\ ctx'.answers = <<>> /\ ctx'.call = NoCall
    <2>1. [i \in 1..k |-> i] \in Seq(Nat)
      OBVIOUS
    <2> QED
      BY <1>1, <1>3, <2>1, NoTurnTyped DEF Turns
  <1>5. Entries(ctx') /\ \A i \in DOMAIN ctx'.origins : ctx'.origins[i] \in 1..k
    BY <1>4, FirstEntries
  <1>6. /\ past' \in Pasts /\ past'.request = request /\ past'.outputs = past.outputs
        /\ past'.restarts = past.restarts /\ past'.faults = past.faults
    BY <1>1, <1>2 DEF Pasts
  <1>7. IsAgent(agent')
    <2>1. agent \in [trajectory : {agent.trajectory}, idx : Nat, iteration : Nat,
                     disabled : Replies, stash : {agent.stash}]
      BY <1>2, AgentTypes
    <2>2. None \in Replies
      BY NoStashTyped
    <2>3. agent' \in [trajectory : {agent.trajectory}, idx : Nat, iteration : Nat,
                      disabled : Replies, stash : {agent.stash}]
      BY <1>1, <2>1, <2>2
    <2> QED
      BY <1>2, <2>3, AgentOf, AgentTypes
  <1>8. IsMemory(mem') /\ mem'.changed = mem.changed
    BY <1>1, <1>2, ClearedMemory
  <1>9. Typed'
    <2>1. Asked(ctx)'
      BY <1>3, <1>5, <1>6 DEF Asked
    <2>2. Asked(blob.ctx)'
      BY <1>1, <1>2, NoTurnTyped DEF Asked, NoBlob
    <2>3. mem'.changed => ~Calm' /\ past'.restarts > 0
      BY <1>2, <1>6, <1>8 DEF Typed, Calm
    <2> QED
      BY <1>1, <1>2, <1>4, <1>6, <1>7, <1>8, <2>1, <2>2, <2>3 DEF Typed
  <1>10. Planning(ctx', agent', work')
    BY <1>1, <1>2, <1>4 DEF Planning, NoWork
  <1>11. Live'
    BY <1>1, <1>5, <1>10 DEF Live
  <1>12. Stored'
    BY <1>1, <1>2 DEF Stored
  <1> QED
    BY <1>9, <1>11, <1>12 DEF Core

LEMMA FinishStep == ASSUME Core, Finish PROVE Core'
  <1>1. /\ at = "plan" /\ at' = "done" /\ ctx' = NoTurn
        /\ mem' = [mem EXCEPT !.floors = Empty, !.live = FALSE]
        /\ agent' = [agent EXCEPT !.disabled = None, !.stash = NoStash]
        /\ blob' = NoBlob /\ UNCHANGED <<archive, work, past>>
    BY DEF Finish
  <1>2. Typed /\ IsAgent(agent) /\ IsMemory(mem) /\ past \in Pasts /\ work \in Works
    BY <1>1 DEF Core, Typed
  <1>3. IsAgent(agent')
    <2>1. agent \in [trajectory : {agent.trajectory}, idx : Nat, iteration : Nat,
                     disabled : Replies, stash : {agent.stash}]
      BY <1>2, AgentTypes
    <2>2. None \in Replies
      BY NoStashTyped
    <2>3. agent' \in [trajectory : {agent.trajectory}, idx : Nat, iteration : Nat,
                      disabled : Replies, stash : {NoStash}]
      BY <1>1, <2>1, <2>2
    <2> QED
      BY <1>2, <2>3, AgentOf, AgentTypes, NoStashTyped
  <1>4. IsMemory(mem') /\ mem'.changed = mem.changed
    BY <1>1, <1>2, ClearedMemory
  <1>5. blob' \in [ctx : Turns, agent : {blob'.agent}, work : Works] /\ IsAgent(blob'.agent)
        /\ blob'.ctx = NoTurn
    <2>1. NewAgent \in [trajectory : {Empty}, idx : Nat, iteration : Nat, disabled : Replies,
                        stash : {NoStash}]
      BY NoStashTyped DEF NewAgent
    <2>2. IsAgent(NewAgent)
      BY <2>1, AgentOf, NoStashTyped
    <2>3. NoWork \in Works
      BY NoStashTyped DEF NoWork, Works
    <2> QED
      BY <1>1, <2>2, <2>3, NoTurnTyped DEF NoBlob
  <1>6. Typed'
    <2>1. Asked(ctx)' /\ Asked(blob.ctx)'
      BY <1>1, <1>5, NoTurnTyped DEF Asked
    <2>2. mem'.changed => ~Calm' /\ past'.restarts > 0
      BY <1>1, <1>2, <1>4 DEF Typed, Calm
    <2> QED
      BY <1>1, <1>2, <1>3, <1>4, <1>5, <2>1, <2>2, NoTurnTyped DEF Typed
  <1>7. Live'
    BY <1>1 DEF Live
  <1>8. Stored'
    BY <1>1 DEF Stored
  <1> QED
    BY <1>6, <1>7, <1>8 DEF Core

(* The head of the loop: the history at work is the sub-task's own exactly   *)
(* when the entry continues it, and then the reply stands.                   *)
LEMMA TakenWork ==
    ASSUME Core, at = "plan", ctx.index \in DOMAIN ctx.origins
    PROVE  /\ Worked \in Works /\ Worked.origin = Origin /\ IsAgent(Enabled)
           /\ Enabled.disabled = Strongest(Worked.said) /\ Enabled.trajectory = agent.trajectory
           /\ Origin \in Nat /\ ctx.index <= Len(ctx.origins) /\ Entries(ctx) /\ ctx \in Turns
           /\ (Continuation <=> work.origin = Origin)
           /\ (~Continuation => Worked.ran = {} /\ Worked.dropped = {})
           /\ Worked.first = IF Continuation THEN work.first ELSE ctx.next
           /\ ctx.next \in Nat /\ IsMemory(mem) /\ Asked(ctx) /\ Typed
           /\ ctx.call = NoCall
  <1>1. /\ Typed /\ ctx \in Turns /\ IsAgent(agent) /\ work \in Works /\ IsMemory(mem)
        /\ Entries(ctx) /\ Planning(ctx, agent, work) /\ Asked(ctx)
    BY DEF Core, Typed, Live
  <1>2. /\ ctx.next \in Nat /\ ctx.index \in Nat /\ ctx.index <= Len(ctx.origins)
        /\ DOMAIN ctx.origins = 1..Len(ctx.origins) /\ Origin \in Nat /\ Origin >= 1
    <2>1. /\ ctx.next \in Nat /\ ctx.index \in Nat /\ DOMAIN ctx.origins = 1..Len(ctx.origins)
          /\ Len(ctx.origins) \in Nat
      BY <1>1, TurnTypes
    <2>2. ctx.origins[ctx.index] \in 1..past.request.subtasks
      BY <1>1 DEF Asked
    <2>3. past.request.subtasks \in Nat
      BY <1>1, SubtaskAssumption DEF Typed
    <2> QED
      BY <2>1, <2>2, <2>3 DEF Origin
  <1>3. Continuation <=> work.origin = Origin
    <2>1. CASE ctx.index = 1
      BY <1>1, <1>2, <2>1 DEF Planning, Continuation
    <2>2. CASE ctx.index # 1
      <3>1. work.origin = ctx.origins[ctx.index - 1] /\ ctx.index > 1
        BY <1>1, <1>2, <2>2 DEF Planning, Entries
      <3> QED
        BY <3>1 DEF Continuation
    <2> QED
      BY <2>1, <2>2
  <1>4. CASE Continuation
    <2>1. Worked = work /\ Enabled = agent
      BY <1>3, <1>4 DEF Worked, Enabled
    <2>2. agent.disabled = Strongest(work.said)
      BY <1>1, <1>2, <1>4 DEF Continuation, Planning
    <2> QED
      BY <1>1, <1>2, <1>3, <1>4, <2>1, <2>2 DEF Planning
  <1>5. CASE ~Continuation
    <2>1. PICK w : w = [NoWork EXCEPT !.origin = Origin, !.first = ctx.next]
      OBVIOUS
    <2>2. /\ w \in Works /\ w.origin = Origin /\ w.said = {} /\ w.ran = {} /\ w.dropped = {}
          /\ w.first = ctx.next
      BY <1>2, <2>1, NoStashTyped DEF NoWork, Works
    <2>3. PICK a : a = [agent EXCEPT !.disabled = None]
      OBVIOUS
    <2>4. agent \in [trajectory : {agent.trajectory}, idx : Nat, iteration : Nat,
                     disabled : Replies, stash : {agent.stash}]
      BY <1>1, AgentTypes
    <2>5. /\ a \in [trajectory : {agent.trajectory}, idx : Nat, iteration : Nat, disabled : Replies,
                    stash : {agent.stash}]
          /\ a.disabled = None
      BY <2>3, <2>4, NoStashTyped
    <2>6. IsAgent(a) /\ a.trajectory = agent.trajectory
      BY <1>1, <2>5, AgentOf, AgentTypes
    <2>7. Worked = w /\ Enabled = a
      BY <1>3, <1>5, <2>1, <2>3 DEF Worked, Enabled
    <2>8. Strongest(w.said) = None
      BY <2>2 DEF Strongest
    <2> QED
      BY <1>1, <1>2, <1>3, <1>5, <2>2, <2>5, <2>6, <2>7, <2>8 DEF Planning
  <1> QED
    BY <1>4, <1>5

LEMMA FloorsTyped ==
    ASSUME IsMemory(mem), Origin \in Nat, ctx.next \in Nat
    PROVE  /\ Floors = [o \in DOMAIN Floors |-> Floors[o]]
           /\ DOMAIN Floors = DOMAIN mem.floors \cup {Origin}
           /\ \A o \in DOMAIN Floors : o \in Nat /\ Floors[o] \in Nat
           /\ \A o \in DOMAIN mem.floors : Floors[o] = mem.floors[o]
           /\ Origin \notin DOMAIN mem.floors => Floors[Origin] = ctx.next
  <1>1. PICK f : f = mem.floors
    OBVIOUS
  <1>2. \A o \in DOMAIN f : o \in Nat /\ f[o] \in Nat
    BY <1>1 DEF IsMemory
  <1>3. Floors = [o \in DOMAIN f \cup {Origin} |-> IF o \in DOMAIN f THEN f[o] ELSE ctx.next]
    BY <1>1 DEF Floors
  <1> QED
    BY <1>1, <1>2, <1>3

LEMMA TakeTextStep == ASSUME Core, TakeText PROVE Core'
  <1>1. /\ at = "plan" /\ ctx.index \in DOMAIN ctx.origins /\ at' = "run"
        /\ agent' = Forwarded(Enabled) /\ work' = Started(Worked) /\ NewOutputs
        /\ mem' = [mem EXCEPT !.floors = Floors, !.floor = Floors[Origin], !.final = LastSubtask]
        /\ UNCHANGED <<ctx, blob, archive>>
    BY DEF TakeText
  <1>2. PICK w, a : w = Worked /\ a = Enabled
    OBVIOUS
  <1>3. /\ w \in Works /\ w.origin = Origin /\ IsAgent(a) /\ a.disabled = Strongest(w.said)
        /\ Origin \in Nat /\ ctx.index <= Len(ctx.origins) /\ Entries(ctx) /\ ctx \in Turns
        /\ ctx.next \in Nat /\ IsMemory(mem) /\ Asked(ctx) /\ Typed /\ ctx.call = NoCall
    BY <1>1, <1>2, TakenWork
  <1>4. /\ work' \in Works /\ work'.start = ctx.next /\ work'.output = past.outputs + 1
        /\ work'.origin = Origin /\ work'.said = w.said
    <2>1. past.outputs + 1 \in Nat
      BY <1>3 DEF Typed, Pasts
    <2>2. work' = [w EXCEPT !.start = ctx.next, !.output = past.outputs + 1]
      BY <1>1, <1>2 DEF Started
    <2> QED
      BY <1>3, <2>1, <2>2 DEF Works
  <1>5. /\ IsAgent(agent') /\ agent'.trajectory = Empty /\ agent'.idx = ctx.next
        /\ agent'.disabled = a.disabled
    <2>1. a \in [trajectory : {a.trajectory}, idx : Nat, iteration : Nat, disabled : Replies,
                 stash : {a.stash}]
      BY <1>3, AgentTypes
    <2>2. agent' = [a EXCEPT !.trajectory = Empty, !.idx = ctx.next, !.iteration = 0,
                             !.stash = NoStash]
      BY <1>1, <1>2 DEF Forwarded
    <2>3. /\ agent' \in [trajectory : {Empty}, idx : Nat, iteration : Nat, disabled : Replies,
                         stash : {NoStash}]
          /\ agent'.idx = ctx.next /\ agent'.disabled = a.disabled
      BY <1>3, <2>1, <2>2
    <2> QED
      BY <2>3, AgentOf, NoStashTyped
  <1>6. IsMemory(mem') /\ mem'.changed = mem.changed
    <2>1. PICK f : /\ f = Floors /\ f = [o \in DOMAIN f |-> f[o]] /\ Origin \in DOMAIN f
                   /\ \A o \in DOMAIN f : o \in Nat /\ f[o] \in Nat
      BY <1>3, FloorsTyped
    <2>2. PICK b \in BOOLEAN : b = LastSubtask
      <3>1. (ctx.index >= Len(ctx.origins)) \in BOOLEAN
        OBVIOUS
      <3>2. LastSubtask \in BOOLEAN
        BY <3>1, Zenon DEF LastSubtask
      <3> QED
        BY <3>2
    <2>3. mem \in [floors : {mem.floors}, live : BOOLEAN, changed : BOOLEAN, floor : Int, final : BOOLEAN]
      BY <1>3 DEF IsMemory
    <2>4. mem' = [mem EXCEPT !.floors = f, !.floor = f[Origin], !.final = b]
      BY <1>1, <2>1, <2>2
    <2>5. f[Origin] \in Int
      BY <2>1
    <2>6. /\ mem' \in [floors : {f}, live : BOOLEAN, changed : BOOLEAN, floor : Int, final : BOOLEAN]
          /\ mem'.changed = mem.changed
      BY <2>3, <2>4, <2>5
    <2> QED
      BY <2>1, <2>6, MemoryOf
  <1>7. AtWork(ctx', agent', work')
    BY <1>1, <1>3, <1>4, <1>5 DEF AtWork, Origin
  <1>8. ctx' \in Turns /\ Asked(ctx') /\ Entries(ctx') /\ ctx'.call.phases = <<>>
    BY <1>1, <1>3, NoCallTyped DEF Asked
  <1> QED
    BY <1>1, <1>4, <1>5, <1>6, <1>7, <1>8, RunBegins

LEMMA NewCallFits ==
    ASSUME NEW phases \in Seq(Phase) \ {<<>>}, NEW n \in Nat
    PROVE  LET c == [NoCall EXCEPT !.phases = phases, !.first = n]
           IN  c \in Calls /\ c.phases # <<>> /\ CallFits(c, {}, {}, FALSE)
  <1>1. PICK c : c = [NoCall EXCEPT !.phases = phases, !.first = n]
    OBVIOUS
  <1>2. /\ c \in Calls /\ c.phases = phases /\ c.index = 1 /\ c.items = Unset /\ c.answers = <<>>
        /\ c.last = <<>> /\ c.outputs = {} /\ c.notes = <<>>
    <2>1. NoCall \in Calls
      BY NoCallTyped
    <2>2. /\ NoCall.index = 1 /\ NoCall.items = Unset /\ NoCall.answers = <<>>
          /\ NoCall.last = <<>> /\ NoCall.outputs = {} /\ NoCall.notes = <<>>
      BY DEF NoCall
    <2> QED
      BY <1>1, <2>1, <2>2 DEF Calls
  <1>3. Len(phases) \in Nat /\ Len(phases) >= 1 /\ DOMAIN phases = 1..Len(phases)
    OBVIOUS
  <1>4. PhasesTold(c, {}, {})
    <2>1. c.phases # <<>> /\ c.index \in 1..Len(c.phases) + 1 /\ ~(c.items # Unset)
      BY <1>2, <1>3
    <2>2. {c.answers[i] : i \in DOMAIN c.answers} = {r \in {} : r.phase \notin {}} /\ Sorted(c.answers)
      BY <1>2 DEF Sorted
    <2>3. /\ \A p \in c.outputs : p <= c.index /\ p \notin {}
          /\ \A i \in DOMAIN c.notes : FALSE
      BY <1>2
    <2> QED
      BY <2>1, <2>2, <2>3 DEF PhasesTold
  <1>5. OneSource(c, c.last, {})
    <2>1. 1 \in DOMAIN c.phases /\ \A i \in DOMAIN c.last : FALSE
      BY <1>2, <1>3
    <2> QED
      BY <2>1 DEF OneSource
  <1> QED
    BY <1>1, <1>2, <1>4, <1>5 DEF CallFits

LEMMA TakeCallStep == ASSUME Core, NEW phases \in past.request.calls, TakeCall(phases) PROVE Core'
  <1>1. /\ at = "plan" /\ ctx.index \in DOMAIN ctx.origins /\ ~Continuation /\ at' = "call"
        /\ agent' = Enabled /\ mem' = [mem EXCEPT !.floors = Floors, !.live = TRUE]
        /\ ctx' = [ctx EXCEPT !.call = [NoCall EXCEPT !.phases = phases, !.first = ctx.next]]
        /\ work' = Worked /\ UNCHANGED <<blob, archive, past>>
    BY DEF TakeCall
  <1>2. /\ work' \in Works /\ work'.origin = Origin /\ IsAgent(agent')
        /\ agent'.disabled = Strongest(work'.said) /\ work'.ran = {} /\ work'.dropped = {}
        /\ Origin \in Nat /\ ctx.index <= Len(ctx.origins) /\ Entries(ctx) /\ ctx \in Turns
        /\ ctx.next \in Nat /\ IsMemory(mem) /\ Asked(ctx) /\ Typed
    BY <1>1, TakenWork
  <1>3. phases \in Seq(Phase) \ {<<>>}
    <2>1. past.request \in Requests
      BY <1>1, <1>2 DEF Typed
    <2> QED
      BY <2>1, SubtaskAssumption
  <1>4. PICK c \in Calls : /\ c = [NoCall EXCEPT !.phases = phases, !.first = ctx.next]
                           /\ c.phases # <<>> /\ CallFits(c, {}, {}, FALSE)
    BY <1>2, <1>3, NewCallFits
  <1>5. /\ ctx' \in Turns /\ ctx'.origins = ctx.origins /\ ctx'.index = ctx.index
        /\ ctx'.answers = ctx.answers /\ ctx'.exhausted = ctx.exhausted /\ ctx'.call = c
    <2>1. ctx' = [ctx EXCEPT !.call = c]
      BY <1>1, <1>4
    <2> QED
      BY <1>2, <2>1 DEF Turns
  <1>6. Entries(ctx') /\ Asked(ctx')
    BY <1>2, <1>5, SameEntries DEF Asked
  <1>7. AtWork(ctx', agent', work')
    BY <1>2, <1>5 DEF AtWork, Origin
  <1>8. IsMemory(mem') /\ mem'.changed = mem.changed
    <2>1. PICK f : /\ f = Floors /\ f = [o \in DOMAIN f |-> f[o]]
                   /\ \A o \in DOMAIN f : o \in Nat /\ f[o] \in Nat
      BY <1>2, FloorsTyped
    <2>2. TRUE \in BOOLEAN
      BY Zenon
    <2>3. mem \in [floors : {mem.floors}, live : BOOLEAN, changed : BOOLEAN, floor : Int, final : BOOLEAN]
      BY <1>2 DEF IsMemory
    <2>4. mem' = [mem EXCEPT !.floors = f, !.live = TRUE]
      BY <1>1, <2>1
    <2>5. /\ mem' \in [floors : {f}, live : BOOLEAN, changed : BOOLEAN, floor : Int, final : BOOLEAN]
          /\ mem'.changed = mem.changed
      BY <2>2, <2>3, <2>4
    <2> QED
      BY <2>1, <2>5, MemoryOf
  <1>9. Onward
    BY <1>1, <1>2, <1>4, <1>5, <1>6, <1>7, <1>8 DEF Onward
  <1>10. IsArchive(archive')
    BY <1>1, <1>2 DEF Typed, IsArchive
  <1> QED
    BY <1>1, <1>2, <1>9, <1>10, OnwardHolds DEF Core

-----------------------------------------------------------------------------
LEMMA InitCore == ASSUME Init PROVE Core
  <1>1. PICK trajectory \in {Empty, [i \in {0} |-> [output |-> 0, label |-> FALSE]]} :
           agent = [NewAgent EXCEPT !.trajectory = trajectory]
    BY DEF Init
  <1>2. /\ at = "idle" /\ ctx = NoTurn /\ mem = Forgotten /\ blob = NoBlob /\ archive = Empty
        /\ work = NoWork
        /\ past = [request |-> NoRequest, outputs |-> 0, asked |-> 0, restarts |-> 0, faults |-> {}]
    BY DEF Init
  <1>3. IsTrajectory(trajectory)
    <2>1. CASE trajectory = Empty
      BY <2>1, NoStashTyped
    <2>2. CASE trajectory = [i \in {0} |-> [output |-> 0, label |-> FALSE]]
      <3>1. 0..0 = {0} /\ 0 \in Nat /\ 0 <= 0
        OBVIOUS
      <3>2. PICK e \in Entry : e = [output |-> 0, label |-> FALSE]
        BY PlainOutput
      <3>3. trajectory \in [0..0 -> Entry]
        BY <2>2, <3>1, <3>2
      <3>4. Steps(trajectory, 0, 0)
        BY <3>3 DEF Steps, Entry
      <3> QED
        BY <3>1, <3>4, StepsAreTrajectory
    <2> QED
      BY <2>1, <2>2
  <1>4. NewAgent \in [trajectory : {Empty}, idx : Nat, iteration : Nat, disabled : Replies,
                      stash : {NoStash}]
    BY NoStashTyped DEF NewAgent
  <1>5. IsAgent(agent) /\ IsAgent(NewAgent)
    <2>1. agent \in [trajectory : {trajectory}, idx : Nat, iteration : Nat, disabled : Replies,
                     stash : {NoStash}]
      BY <1>1, <1>4
    <2> QED
      BY <1>3, <1>4, <2>1, AgentOf, NoStashTyped
  <1>6. IsMemory(mem) /\ ~mem.changed
    <2>1. FALSE \in BOOLEAN /\ TRUE \in BOOLEAN
      BY Zenon
    <2>2. mem \in [floors : {Empty}, live : BOOLEAN, changed : BOOLEAN, floor : Int, final : BOOLEAN]
          /\ ~mem.changed
      BY <1>2, <2>1 DEF Forgotten, Unset
    <2>3. Empty = [o \in DOMAIN Empty |-> Empty[o]] /\ \A o \in DOMAIN Empty : o \in Nat /\ Empty[o] \in Nat
      BY DEF Empty
    <2> QED
      BY <2>2, <2>3, MemoryOf
  <1>7. work \in Works /\ blob.ctx = NoTurn /\ blob.agent = NewAgent
        /\ blob \in [ctx : Turns, agent : {blob.agent}, work : Works]
    BY <1>2, NoTurnTyped, NoStashTyped DEF NoWork, Works, NoBlob
  <1>8. past \in Pasts
    BY <1>2 DEF Pasts
  <1>9. Asked(ctx) /\ Asked(blob.ctx)
    BY <1>2, <1>7, NoTurnTyped DEF Asked
  <1>10. archive = [i \in DOMAIN archive |-> archive[i]] /\ DOMAIN archive = {}
    BY <1>2 DEF Empty
  <1>11. Typed
    BY <1>2, <1>5, <1>6, <1>7, <1>8, <1>9, <1>10, NoTurnTyped DEF Typed
  <1>12. Live /\ Stored
    BY <1>2 DEF Live, Stored
  <1> QED
    BY <1>11, <1>12 DEF Core

LEMMA NextCore == ASSUME Core, [Next]_vars PROVE Core'
  <1>1. CASE Next
    <2>1. ASSUME NEW request \in Requests, Begin(request) PROVE Core'
      BY <2>1, BeginStep
    <2>2. ASSUME NEW phases \in past.request.calls, TakeCall(phases) PROVE Core'
      BY <2>2, TakeCallStep
    <2>3. CASE Phases
      <3>1. ASSUME NEW n \in 0..MaxItems, NEW cut \in BOOLEAN, FanOut(n, cut) PROVE Core'
        BY <3>1, FanOutStep
      <3>2. ASSUME NEW noted \in BOOLEAN, FannedOut(noted) PROVE Core'
        BY <3>2, FannedOutStep
      <3> QED
        BY <2>3, <3>1, <3>2, SkipStep, FailEarlyStep, RunPhaseStep, AnswerOnlyStep, CallDoneStep
           DEF Phases
    <2>4. ASSUME NEW stored \in BOOLEAN, Command(stored) PROVE Core'
      BY <2>4, CommandStep
    <2>5. ASSUME NEW reply \in Replies, ReplanFails(reply) \/ Resume(reply) \/ ResumeFails(reply)
          PROVE  Core'
      BY <2>5, ReplanFailsStep, ResumeStep, ResumeFailsStep
    <2>6. CASE Restart
      <3>1. at # "idle" /\ Takes({}) /\ {} \in SUBSET {"crash"}
        BY <2>6 DEF Restart
      <3> QED
        BY <3>1, TakesStep
    <2>7. CASE Crash
      <3>1. at # "idle" /\ Takes({"crash"}) /\ {"crash"} \in SUBSET {"crash"}
        BY <2>7 DEF Crash
      <3> QED
        BY <3>1, TakesStep
    <2> QED
      BY <1>1, <2>1, <2>2, <2>3, <2>4, <2>5, <2>6, <2>7, TakeTextStep, ConcludesStep, AskStep,
         FinishStep DEF Next
  <1>2. CASE UNCHANGED vars
    BY <1>2 DEF vars, Core, Typed, Live, Stored, Asked, Calm, Call, InCall
  <1> QED
    BY <1>1, <1>2

LEMMA CoreHolds == Spec => []Core
  <1>1. Init => Core
    BY InitCore
  <1>2. Core /\ [Next]_vars => Core'
    BY NextCore
  <1> QED
    BY <1>1, <1>2, PTL DEF Spec

-----------------------------------------------------------------------------
(* The turn's position is in its list, which names only sub-tasks the        *)
(* request has, and what is suspended was stashed (_run_agent and            *)
(* fastWorkflowReAct).                                                       *)
THEOREM TypeCorrect == Spec => []TypeOK
  <1>1. ASSUME Core PROVE TypeOK
    <2>1. Typed /\ Live /\ ctx \in Turns /\ Asked(ctx) /\ IsAgent(agent)
      BY <1>1 DEF Core, Typed
    <2>2. Range(ctx.origins) \subseteq 1..past.request.subtasks
      BY <2>1 DEF Range, Asked
    <2>3. ctx.index \in 1..Len(ctx.origins) + 1
      <3>1. CASE at \in {"idle", "done"}
        <4>1. ctx.index = 1 /\ ctx.origins = <<>>
          BY <2>1, <3>1, NoTurnTyped DEF Live
        <4> QED
          BY <4>1
      <3>2. CASE at \in {"plan", "call", "run", "suspended"}
        BY <2>1, <3>2 DEF Live, Entries
      <3> QED
        BY <2>1, <3>1, <3>2 DEF Typed
    <2>4. at = "suspended" => agent.stash # NoStash
      BY <2>1, NoStashTyped DEF Live, Suspended
    <2> QED
      BY <2>1, <2>2, <2>3, <2>4, AgentTypes, TurnTypes DEF TypeOK, Typed
  <1> QED
    BY <1>1, CoreHolds, PTL

(* The tools withheld in a run are those that the strongest reply given in   *)
(* its sub-task withholds: through hand-offs and the phases of a call, also  *)
(* beside a reply whose new plan failed, and in no other sub-task            *)
(* (_run_subtasks_from and _apply_reply_intent).                             *)
THEOREM RepliesHold == Spec => []RepliesStand
  <1>1. Core => RepliesStand
    BY DEF Core, Live, AtWork, RepliesStand, Running
  <1> QED
    BY <1>1, CoreHolds, PTL

(* The answers that make the turn's answer stand each beside its own         *)
(* sub-task, in order, with its continuations at once behind a run that was  *)
(* cut short and no more of them than MAX_HANDOFFS (_record_subtask_answer   *)
(* and the hand-off in _run_agent).                                          *)
THEOREM AnswersArePaired == Spec => []AnswersPairUp
  <1>1. ASSUME Core PROVE AnswersPairUp
    <2>1. Typed /\ Live /\ ctx \in Turns
      BY <1>1 DEF Core, Typed
    <2>2. CASE at \in {"idle", "done"}
      <3>1. DOMAIN ctx.answers = {} /\ at # "plan"
        BY <2>1, <2>2, NoTurnTyped DEF Live
      <3> QED
        BY <3>1 DEF AnswersPairUp
    <2>3. CASE at \in {"plan", "call", "run", "suspended"}
      <3>1. PICK N \in Nat, k \in Nat :
               /\ N = Len(ctx.origins) /\ k = ctx.index /\ DOMAIN ctx.origins = 1..N
               /\ k \in 1..N + 1 /\ Len(ctx.answers) = k - 1 /\ DOMAIN ctx.answers = 1..k - 1
               /\ ctx.origins # <<>>
        <4>1. Entries(ctx)
          BY <2>1, <2>3 DEF Live
        <4>2. ctx.index \in 1..Len(ctx.origins) + 1 /\ Len(ctx.answers) = ctx.index - 1
              /\ ctx.origins # <<>>
          BY <4>1 DEF Entries
        <4>3. /\ Len(ctx.origins) \in Nat /\ DOMAIN ctx.origins = 1..Len(ctx.origins)
              /\ ctx.index \in Nat /\ DOMAIN ctx.answers = 1..Len(ctx.answers)
          BY <2>1, TurnTypes
        <4> QED
          BY <4>2, <4>3
      <3>2. PICK s, a, e : s = ctx.origins /\ a = ctx.answers /\ e = ctx.exhausted
        OBVIOUS
      <3>3. Entries(ctx)
        BY <2>1, <2>3 DEF Live
      <3>4. /\ \A i \in 1..k - 1 :
                 /\ a[i].of = s[i]
                 /\ a[i].capped => e \/ (i < N /\ s[i + 1] = s[i])
            /\ \A i \in 1..N - 1 :
                 \/ s[i + 1] = s[i] + 1
                 \/ s[i + 1] = s[i] /\ i < k /\ a[i].capped
            /\ \A o \in {s[i] : i \in DOMAIN s} : Cardinality(RunsOf(s, o)) <= MaxHandoffs + 1
            /\ \A i \in 1..N : s[i] \in Nat
        <4>1. \A i \in 1..Len(ctx.origins) : ctx.origins[i] \in Nat
          BY <2>1, TurnTypes
        <4>2. \A i \in 1..N : s[i] \in Nat
          BY <3>1, <3>2, <4>1
        <4>3. \A i \in 1..k - 1 :
                 /\ a[i].of = s[i]
                 /\ a[i].capped => e \/ (i < N /\ s[i + 1] = s[i])
          BY <3>1, <3>2, <3>3, Zenon DEF Entries
        <4>4. \A i \in 1..N - 1 :
                 \/ s[i + 1] = s[i] + 1
                 \/ s[i + 1] = s[i] /\ i < k /\ a[i].capped
          BY <3>1, <3>2, <3>3, Zenon DEF Entries
        <4>5. \A o \in {s[i] : i \in DOMAIN s} : Cardinality(RunsOf(s, o)) <= MaxHandoffs + 1
          <5>1. \A o \in {ctx.origins[i] : i \in DOMAIN ctx.origins} :
                   Cardinality(RunsOf(ctx.origins, o)) <= MaxHandoffs + 1
            BY <3>3 DEF Entries
          <5> QED
            BY <3>2, <5>1
        <4> QED
          BY <4>2, <4>3, <4>4, <4>5
      <3>5. \A i \in DOMAIN a : a[i].of = s[i]
        BY <3>1, <3>2, <3>4
      <3>6. CASE k > N
        <4>1. k - 1 = N /\ N \in 1..k - 1 /\ N >= 1
          <5>1. N # 0
            <6>1. ctx.origins \in Seq(Nat)
              BY <2>1, TurnTypes
            <6> QED
              BY <3>1, <6>1
          <5> QED
            BY <3>1, <3>6, <5>1
        <4>2. ASSUME NEW i \in 1..N - 1
              PROVE  \/ s[i + 1] = s[i] /\ a[i].capped
                     \/ s[i + 1] = s[i] + 1 /\ (a[i].capped => e)
          <5>1. i \in 1..k - 1 /\ s[i] \in Nat
            BY <3>4, <4>1
          <5>2. s[i + 1] = s[i] + 1 => s[i + 1] # s[i]
            BY <5>1
          <5>3. a[i].capped => e \/ s[i + 1] = s[i]
            BY <3>4, <5>1
          <5>4. \/ s[i + 1] = s[i] + 1
                \/ s[i + 1] = s[i] /\ a[i].capped
            BY <3>4
          <5> QED
            BY <5>2, <5>3, <5>4, Zenon
        <4>3. a[N].capped => e
          <5>1. ~(N < N)
            BY <3>1
          <5> QED
            BY <3>4, <4>1, <5>1
        <4>4. Last(ctx.answers) = a[N]
          BY <3>1, <3>2, <4>1 DEF Last
        <4>5. \A o \in Range(ctx.origins) :
                 Cardinality({i \in DOMAIN ctx.origins : ctx.origins[i] = o}) <= MaxHandoffs + 1
          <5> SUFFICES ASSUME NEW o \in Range(s)
                       PROVE  Cardinality({i \in DOMAIN s : s[i] = o}) <= MaxHandoffs + 1
            BY <3>2
          <5>1. RunsOf(s, o) = {i \in DOMAIN s : s[i] = o}
            BY DEF RunsOf
          <5>2. o \in {s[i] : i \in DOMAIN s}
            BY DEF Range
          <5> QED
            BY <3>4, <5>1, <5>2
        <4> QED
          BY <3>1, <3>2, <3>5, <4>1, <4>2, <4>3, <4>4, <4>5 DEF AnswersPairUp
      <3>7. CASE ~(k > N)
        BY <3>1, <3>2, <3>5, <3>7 DEF AnswersPairUp
      <3> QED
        BY <3>6, <3>7
    <2> QED
      BY <2>1, <2>2, <2>3 DEF Typed
  <1> QED
    BY <1>1, CoreHolds, PTL

(* What a call says comes from the phases that did not fail, in their order; *)
(* an optional one that failed has taken back what it wrote, however its     *)
(* items, its questions and the restarts fell (_run_skill_phases).           *)
THEOREM DroppedPhasesAreGone == Spec => []FailedPhasesLeaveNothing
  <1>1. ASSUME Core, InCall PROVE FailedPhasesLeaveNothing
    <2>1. PICK ran, dropped, c : ran = work.ran /\ dropped = work.dropped /\ c = Call
      OBVIOUS
    <2>2. c \in Calls /\ dropped \in SUBSET Nat
      BY <1>1, <2>1 DEF Core, Typed, Call, Turns, Works
    <2>3. PhasesTold(c, ran, dropped) /\ (InPhase(c, dropped) \/ OneSource(c, c.last, dropped))
      <3>1. at \in {"call", "run", "suspended"}
        <4>1. at \in {"idle", "plan", "done"} => ctx.call = NoCall
          BY <1>1, NoTurnTyped DEF Core, Live, Planning
        <4>2. at \notin {"idle", "plan", "done"}
          BY <1>1, <4>1, NoCallTyped DEF InCall, Call
        <4> QED
          BY <1>1, <4>2 DEF Core, Typed
      <3>2. CallFits(c, ran, dropped, FALSE) \/ CallFits(c, ran, dropped, TRUE)
        BY <1>1, <2>1, <3>1 DEF Core, Live, Suspended, InCall, Call
      <3> QED
        BY <3>2 DEF CallFits
    <2>4. {c.answers[i] : i \in DOMAIN c.answers} = {r \in ran : r.phase \notin dropped}
          /\ Sorted(c.answers)
      BY <2>3 DEF PhasesTold
    <2>5. /\ \A p \in c.outputs : p \notin dropped
          /\ \A i \in DOMAIN c.notes : c.notes[i] \notin dropped
      BY <2>3 DEF PhasesTold
    <2>6. \E p \in DOMAIN c.phases : \A i \in DOMAIN c.last : c.last[i].phase = p /\ p \notin dropped
      <3>1. CASE InPhase(c, dropped)
        <4>1. c.index \in DOMAIN c.phases
          <5>1. c.index \in 1..Len(c.phases) + 1 /\ c.index <= Len(c.phases)
            BY <2>3, <3>1 DEF PhasesTold, InPhase, GivesBack
          <5>2. DOMAIN c.phases = 1..Len(c.phases) /\ Len(c.phases) \in Nat
            BY <2>2, CallTypes
          <5> QED
            BY <5>1, <5>2
        <4>2. c.index \notin dropped
          <5>1. \A p \in dropped : p < c.index
            BY <2>3 DEF PhasesTold
          <5>2. c.index \in Nat
            BY <2>2, CallTypes
          <5>3. ~(c.index < c.index)
            BY <5>2
          <5> QED
            BY <5>1, <5>3
        <4>3. \A i \in DOMAIN c.last : c.last[i].phase = c.index
          BY <3>1 DEF InPhase
        <4> QED
          BY <4>1, <4>2, <4>3
      <3>2. CASE OneSource(c, c.last, dropped)
        BY <3>2 DEF OneSource
      <3> QED
        BY <2>3, <3>1, <3>2
    <2>7. (c.outputs \cup Range(c.notes)) \cap dropped = {}
      BY <2>5 DEF Range
    <2>8. Range(c.answers) = {r \in ran : r.phase \notin dropped}
      BY <2>4 DEF Range
    <2>9. \A i, j \in DOMAIN c.answers : i < j =>
              \/ c.answers[i].phase < c.answers[j].phase
              \/ /\ c.answers[i].phase = c.answers[j].phase
                 /\ c.answers[i].item < c.answers[j].item
      BY <2>4 DEF Sorted
    <2> QED
      BY <2>1, <2>6, <2>7, <2>8, <2>9, Zenon DEF FailedPhasesLeaveNothing
  <1>2. Core => FailedPhasesLeaveNothing
    BY <1>1 DEF FailedPhasesLeaveNothing
  <1> QED
    BY <1>2, CoreHolds, PTL

-----------------------------------------------------------------------------
(* The step numbers: where a turn goes on is behind what is archived.        *)
LEMMA AnsweredNext ==
    ASSUME Typed, Entries(ctx), AtWork(ctx, agent, work), NEW capped \in BOOLEAN, IsAgent(agent')
    PROVE  Answered(capped).next = After(agent'.trajectory)
  <1>1. ctx \in Turns /\ ctx.next \in Nat /\ IsTrajectory(agent'.trajectory)
    BY TurnTypes DEF Typed, IsAgent
  <1>2. PICK n \in Nat : n = After(agent'.trajectory)
    BY <1>1, AfterIsNatural
  <1>3. Answered(capped) = HandedTurn(ctx, capped, n)
    BY <1>2 DEF Answered, HandedTurn, ToldTurn, AtWork
  <1>4. ctx.index <= Len(ctx.origins)
    BY DEF AtWork
  <1> QED
    BY <1>1, <1>2, <1>3, <1>4, HandedTurnFits

LEMMA FailedNext ==
    ASSUME Typed, Entries(ctx), AtWork(ctx, agent, work), IsAgent(agent'), NEW c, NEW n, Failed(c, n)
    PROVE  at' \in {"plan", "call"} /\ ctx'.next \in {n, After(agent'.trajectory)}
  <1>1. ctx \in Turns /\ FALSE \in BOOLEAN
    BY Zenon DEF Typed
  <1>2. CASE c.phases[c.index].optional
    <2>1. PICK d : d = Dropped(c)
      OBVIOUS
    <2>2. ctx' = [ctx EXCEPT !.call = d, !.next = n] /\ at' = "call"
      BY <1>2, <2>1 DEF Failed
    <2>3. ctx'.next = n
      BY <1>1, <2>2 DEF Turns
    <2> QED
      BY <2>2, <2>3
  <1>3. CASE ~c.phases[c.index].optional
    <2>1. ctx' = Answered(FALSE) /\ at' = "plan"
      BY <1>3 DEF Failed
    <2> QED
      BY <1>1, <2>1, AnsweredNext
  <1> QED
    BY <1>2, <1>3

LEMMA PhaseEndsNext ==
    ASSUME Typed, Entries(ctx), AtWork(ctx, agent, work), IsAgent(agent'), NEW c, NEW n, PhaseEnds(c, n)
    PROVE  at' \in {"plan", "call"} /\ ctx'.next \in {n, After(agent'.trajectory)}
  <1>1. ctx \in Turns
    BY DEF Typed
  <1>2. ASSUME NEW d, ctx' = [ctx EXCEPT !.next = n, !.call = d] PROVE ctx'.next = n
    BY <1>1, <1>2 DEF Turns
  <1>3. ASSUME NEW d, Failed(d, n)
        PROVE  at' \in {"plan", "call"} /\ ctx'.next \in {n, After(agent'.trajectory)}
    BY <1>3, FailedNext
  <1>4. \/ \E d : Failed(d, n)
        \/ at' = "call" /\ \E d : ctx' = [ctx EXCEPT !.next = n, !.call = d]
    BY DEF PhaseEnds
  <1> QED
    BY <1>2, <1>3, <1>4

LEMMA AnsweringNext ==
    ASSUME Core, at = "run", IsAgent(agent'), NEW capped \in BOOLEAN, Answering(capped)
    PROVE  at' \in {"plan", "call"} /\ ctx'.next = After(agent'.trajectory)
  <1>1. Typed /\ Entries(ctx) /\ AtWork(ctx, agent, work)
    BY AtRun
  <1>2. CASE InCall
    <2>1. PhaseEnds(Call, After(agent'.trajectory))
      BY <1>2 DEF Answering
    <2> QED
      BY <1>1, <2>1, PhaseEndsNext
  <1>3. CASE ~InCall
    <2>1. ctx' = Answered(capped) /\ at' = "plan"
      BY <1>3 DEF Answering
    <2> QED
      BY <1>1, <2>1, AnsweredNext
  <1> QED
    BY <1>2, <1>3

(* Between runs.                                                             *)
LEMMA BetweenRunsKept ==
    ASSUME Core, Kept, at \in {"plan", "call"}, at' \in {"plan", "call"},
           agent'.trajectory = agent.trajectory, archive' = archive, past'.faults = past.faults,
           ctx'.next \in {ctx.next, After(agent.trajectory)}
    PROVE  Kept'
  <1> SUFFICES ASSUME Calm PROVE Below(ctx.next)' /\ (ctx.next <= After(agent.trajectory))'
    BY DEF Kept, Calm
  <1>1. Below(ctx.next) /\ ctx.next <= After(agent.trajectory)
    BY DEF Kept
  <1>2. ctx.next \in Nat /\ After(agent.trajectory) \in Nat
    BY TurnTypes, AgentTypes, AfterIsNatural DEF Core, Typed
  <1>3. PICK m \in Nat, n \in Nat : m = ctx.next /\ n = After(agent.trajectory)
    BY <1>2
  <1>4. \A i \in DOMAIN archive : i \in Nat /\ i < m
    BY <1>1, <1>3 DEF Below, Core, Typed
  <1>5. m <= n
    BY <1>1, <1>3
  <1>6. PICK t : t = agent.trajectory
    OBVIOUS
  <1>7. CASE DOMAIN t = {}
    <2>1. n = m
      BY <1>3, <1>6, <1>7 DEF After
    <2>2. ctx'.next = m /\ After(agent.trajectory)' = m
      BY <1>3, <1>6, <1>7, <2>1 DEF After
    <2> QED
      BY <1>4, <2>2 DEF Below
  <1>8. CASE DOMAIN t # {}
    <2>1. After(agent.trajectory)' = n
      BY <1>3, <1>6, <1>8 DEF After
    <2>2. \A i \in DOMAIN archive : i < n
      BY <1>4, <1>5
    <2> QED
      BY <1>3, <1>4, <1>5, <2>1, <2>2 DEF Below
  <1> QED
    BY <1>7, <1>8

LEMMA RunBeginsKept ==
    ASSUME Core, Kept, at \in {"plan", "call"}, at' = "run", agent'.trajectory = Empty,
           agent'.idx = ctx.next, archive' = archive, past'.faults = past.faults
    PROVE  Kept'
  <1> SUFFICES ASSUME Calm PROVE Below(agent.idx)' /\ Texts(agent.trajectory)'
    BY DEF Kept, Calm
  <1>1. Below(agent.idx)'
    BY DEF Kept, Below
  <1>2. DOMAIN Empty = {}
    BY DEF Empty
  <1> QED
    BY <1>1, <1>2 DEF Texts

LEMMA RunEndsKept ==
    ASSUME Core, at = "run", at' \in {"plan", "call"}, Steps(agent'.trajectory, work.start, agent.idx),
           ctx'.next = After(agent'.trajectory), past' = past,
           Calm => \A i \in DOMAIN archive' : i < agent.idx + 1
    PROVE  Kept'
  <1> SUFFICES ASSUME Calm PROVE Below(ctx.next)' /\ (ctx.next <= After(agent.trajectory))'
    BY DEF Kept, Calm
  <1>1. agent.idx \in Nat /\ work.start \in Nat /\ work.start <= agent.idx
    BY AtRun
  <1>2. PICK t : t = agent'.trajectory
    OBVIOUS
  <1>3. DOMAIN t # {}
    <2>1. DOMAIN t = work.start..agent.idx
      BY <1>2 DEF Steps
    <2> QED
      BY <1>1, <2>1
  <1>4. ctx'.next = agent.idx + 1
    BY <1>1, AfterSteps
  <1>5. After(agent.trajectory)' = agent.idx + 1
    BY <1>2, <1>3, <1>4 DEF After
  <1> QED
    BY <1>1, <1>4, <1>5 DEF Below

LEMMA BeginKept == ASSUME Core, NEW request \in Requests, Begin(request) PROVE Kept'
  <1>1. at' = "plan" /\ archive' = archive /\ archive = Empty /\ ctx'.next = 0 /\ IsAgent(agent)
        /\ agent' = [agent EXCEPT !.disabled = None]
    <2>1. at = "idle" /\ ctx' = [NoTurn EXCEPT !.origins = [i \in 1..request.subtasks |-> i]]
      BY DEF Begin
    <2>2. ctx'.next = 0
      BY <2>1 DEF NoTurn
    <2> QED
      BY <2>1, <2>2 DEF Begin, Core, Typed
  <1>2. agent'.trajectory = agent.trajectory
    <2>1. agent \in [trajectory : {agent.trajectory}, idx : Nat, iteration : Nat,
                     disabled : Replies, stash : {agent.stash}]
      BY <1>1, AgentTypes
    <2> QED
      BY <1>1, <2>1
  <1>3. 0 <= After(agent.trajectory)'
    <2>1. CASE agent.trajectory = Empty
      BY <1>1, <1>2, <2>1 DEF After, Empty
    <2>2. CASE agent.trajectory # Empty
      <3>1. PICK lo, hi \in DOMAIN agent.trajectory :
               lo \in Nat /\ hi \in Nat /\ lo <= hi /\ Steps(agent.trajectory, lo, hi)
        BY <1>1, <2>2, AgentTypes DEF IsTrajectory
      <3>2. After(agent.trajectory) = hi + 1
        BY <3>1, AfterSteps
      <3>3. DOMAIN agent.trajectory # {}
        BY <3>1
      <3>4. After(agent.trajectory)' = hi + 1
        BY <1>2, <3>2, <3>3 DEF After
      <3> QED
        BY <3>1, <3>4
    <2> QED
      BY <2>1, <2>2
  <1>4. DOMAIN archive' = {}
    BY <1>1 DEF Empty
  <1> QED
    BY <1>1, <1>3, <1>4 DEF Kept, Below

LEMMA TakeTextKept == ASSUME Core, Kept, TakeText PROVE Kept'
  <1>1. /\ at = "plan" /\ ctx.index \in DOMAIN ctx.origins /\ at' = "run"
        /\ agent' = Forwarded(Enabled) /\ NewOutputs /\ archive' = archive
    BY DEF TakeText
  <1>2. IsAgent(Enabled) /\ Typed
    BY <1>1, TakenWork
  <1>3. agent'.trajectory = Empty /\ agent'.idx = ctx.next
    <2>1. PICK a : a = Enabled
      OBVIOUS
    <2>2. a \in [trajectory : {a.trajectory}, idx : Nat, iteration : Nat, disabled : Replies,
                 stash : {a.stash}]
      BY <1>2, <2>1, AgentTypes
    <2>3. agent' = [a EXCEPT !.trajectory = Empty, !.idx = ctx.next, !.iteration = 0,
                             !.stash = NoStash]
      BY <1>1, <2>1 DEF Forwarded
    <2> QED
      BY <2>2, <2>3
  <1>4. past'.faults = past.faults
    BY <1>1, <1>2, NewOutput
  <1> QED
    BY <1>1, <1>3, <1>4, RunBeginsKept

LEMMA TakeCallKept == ASSUME Core, Kept, NEW phases \in past.request.calls, TakeCall(phases) PROVE Kept'
  <1>1. /\ at = "plan" /\ ctx.index \in DOMAIN ctx.origins /\ at' = "call" /\ agent' = Enabled
        /\ archive' = archive /\ past' = past
    BY DEF TakeCall
  <1>2. ctx'.next = ctx.next
    <2>1. ctx \in Turns
      BY DEF Core, Typed
    <2>2. PICK d : d = [NoCall EXCEPT !.phases = phases, !.first = ctx.next]
      OBVIOUS
    <2>3. ctx' = [ctx EXCEPT !.call = d]
      BY <2>2 DEF TakeCall
    <2> QED
      BY <2>1, <2>3 DEF Turns
  <1>3. agent'.trajectory = agent.trajectory
    BY <1>1, TakenWork
  <1> QED
    BY <1>1, <1>2, <1>3, BetweenRunsKept

LEMMA PhasesKept == ASSUME Core, Kept, Phases PROVE Kept'
  <1>1. ctx \in Turns /\ IsAgent(agent) /\ Typed
    BY DEF Core, Typed
  <1>2. ASSUME NEW d, at = "call", ctx' = [ctx EXCEPT !.call = d],
               UNCHANGED <<at, mem, agent, blob, archive, work, past>>
        PROVE  Kept'
    <2>1. ctx'.next = ctx.next
      BY <1>1, <1>2 DEF Turns
    <2> QED
      BY <1>2, <2>1, BetweenRunsKept
  <1>3. CASE Skip
    BY <1>2, <1>3 DEF Skip, AtPhase
  <1>4. CASE \E n \in 0..MaxItems, cut \in BOOLEAN : FanOut(n, cut)
    BY <1>2, <1>4 DEF FanOut, AtPhase
  <1>5. CASE \E noted \in BOOLEAN : FannedOut(noted)
    BY <1>2, <1>5 DEF FannedOut, AtPhase
  <1>6. CASE FailEarly
    <2>1. /\ AtPhase /\ at = "call" /\ agent' = agent /\ archive' = archive /\ past' = past
          /\ \E c : Failed(c, ctx.next)
      BY <1>6 DEF FailEarly, AtPhase
    <2>2. at' \in {"plan", "call"} /\ ctx'.next \in {ctx.next, After(agent.trajectory)}
      BY <1>1, <2>1, AtPhaseCall, FailedNext
    <2> QED
      BY <2>1, <2>2, BetweenRunsKept
  <1>7. CASE RunPhase
    <2>1. /\ at = "call" /\ at' = "run" /\ agent' = Forwarded(agent) /\ NewOutputs
          /\ archive' = archive
      BY <1>7 DEF RunPhase, Runs, AtPhase
    <2>2. agent'.trajectory = Empty /\ agent'.idx = ctx.next
      <3>1. agent \in [trajectory : {agent.trajectory}, idx : Nat, iteration : Nat,
                       disabled : Replies, stash : {agent.stash}]
        BY <1>1, AgentTypes
      <3>2. agent' = [agent EXCEPT !.trajectory = Empty, !.idx = ctx.next, !.iteration = 0,
                                   !.stash = NoStash]
        BY <2>1 DEF Forwarded
      <3> QED
        BY <3>1, <3>2
    <2>3. past'.faults = past.faults
      BY <1>1, <2>1, NewOutput
    <2> QED
      BY <2>1, <2>2, <2>3, RunBeginsKept
  <1>8. CASE AnswerOnly
    <2>1. /\ AtPhase /\ at = "call" /\ agent' = agent /\ archive' = archive /\ past' = past
          /\ \E c : PhaseEnds(c, ctx.next)
      BY <1>8 DEF AnswerOnly, Runs, AtPhase
    <2>2. at' \in {"plan", "call"} /\ ctx'.next \in {ctx.next, After(agent.trajectory)}
      BY <1>1, <2>1, AtPhaseCall, PhaseEndsNext
    <2> QED
      BY <2>1, <2>2, BetweenRunsKept
  <1>9. CASE CallDone
    <2>1. /\ at = "call" /\ at' = "plan" /\ agent' = agent /\ archive' = archive /\ past' = past
          /\ ctx' = Answered(FALSE)
      BY <1>9 DEF CallDone
    <2>2. Entries(ctx) /\ AtWork(ctx, agent, work) /\ FALSE \in BOOLEAN
      BY <2>1, Zenon DEF Core, Live
    <2>3. ctx'.next = After(agent.trajectory)
      BY <1>1, <2>1, <2>2, AnsweredNext
    <2> QED
      BY <2>1, <2>3, BetweenRunsKept
  <1> QED
    BY <1>3, <1>4, <1>5, <1>6, <1>7, <1>8, <1>9 DEF Phases

(* A command's output is archived under its own number, which is new; a      *)
(* label is put where the archive has the output.                            *)
LEMMA CommandKept == ASSUME Core, Kept, NEW stored \in BOOLEAN, Command(stored) PROVE Kept'
  <1> DEFINE entry == [output |-> work.output, label |-> FALSE]
             done == With(entry)
  <1>1. /\ at = "run" /\ archive' = Archived(agent.idx, stored) /\ past' = past
        /\ IF agent'.iteration >= Cap THEN Answering(TRUE) ELSE UNCHANGED <<at, ctx, mem, work>>
    BY DEF Command, Running
  <1>2. PICK labels \in SUBSET Offloadable(done) :
           agent' = [agent EXCEPT !.trajectory = Labelled(done, labels), !.idx = @ + 1,
                                  !.iteration = @ + 1]
    BY DEF Command
  <1>3. entry \in Entry /\ entry.output = work.output /\ ~entry.label
    <2>1. work.output \in Nat
      BY <1>1, AtRun
    <2>2. FALSE \in BOOLEAN
      BY Zenon
    <2> QED
      BY <2>1, <2>2 DEF Entry
  <1> HIDE DEF entry
  <1>4. agent.idx \in Nat /\ work.start \in Nat /\ work.start <= agent.idx /\ IsAgent(agent)
        /\ Steps(agent.trajectory, work.start, agent.idx - 1) /\ past.outputs \in Nat
        /\ work.output \in 1..past.outputs
    BY <1>1, AtRun
  <1>5. /\ Steps(done, work.start, agent.idx) /\ done[agent.idx] = entry
        /\ \A i \in work.start..agent.idx - 1 : done[i] = agent.trajectory[i]
        /\ DOMAIN agent.trajectory = work.start..agent.idx - 1
        /\ DOMAIN done = work.start..agent.idx
    <2>1. /\ Steps(done, work.start, agent.idx) /\ done[agent.idx] = entry
          /\ \A i \in work.start..agent.idx - 1 : done[i] = agent.trajectory[i]
      BY <1>3, <1>4, WithSteps
    <2> QED
      BY <1>4, <2>1 DEF Steps
  <1> HIDE DEF done
  <1>6. PICK t : /\ t = Labelled(done, labels) /\ Steps(t, work.start, agent.idx)
                 /\ DOMAIN t = DOMAIN done
                 /\ \A i \in DOMAIN done : /\ t[i].output = done[i].output
                                           /\ t[i].label => done[i].label \/ i \in labels
    <2>1. /\ Steps(Labelled(done, labels), work.start, agent.idx)
          /\ \A i \in DOMAIN done : /\ Labelled(done, labels)[i].output = done[i].output
                                    /\ Labelled(done, labels)[i].label => done[i].label \/ i \in labels
      BY <1>5, LabelledSteps
    <2>2. DOMAIN Labelled(done, labels) = DOMAIN done
      BY <1>5, <2>1 DEF Steps
    <2> QED
      BY <2>1, <2>2
  <1>7. agent'.trajectory = t /\ agent'.idx = agent.idx + 1
    <2>1. agent \in [trajectory : {agent.trajectory}, idx : Nat, iteration : Nat,
                     disabled : Replies, stash : {agent.stash}]
      BY <1>4, AgentTypes
    <2>2. agent' = [agent EXCEPT !.trajectory = t, !.idx = agent.idx + 1,
                                 !.iteration = agent.iteration + 1]
      BY <1>2, <1>6
    <2> QED
      BY <2>1, <2>2
  <1>8. /\ DOMAIN archive' \subseteq DOMAIN archive \cup {agent.idx}
        /\ DOMAIN archive \subseteq DOMAIN archive'
        /\ \A i \in DOMAIN archive : archive'[i] = archive[i]
        /\ agent.idx \notin DOMAIN archive /\ agent.idx \in DOMAIN archive' =>
              archive'[agent.idx] = work.output
    <2>1. CASE stored /\ agent.idx \notin DOMAIN archive
      <3>1. archive' = [j \in DOMAIN archive \cup {agent.idx} |->
                          IF j = agent.idx THEN work.output ELSE archive[j]]
        BY <1>1, <2>1 DEF Archived
      <3>2. DOMAIN archive' = DOMAIN archive \cup {agent.idx}
        BY <3>1
      <3>3. \A j \in DOMAIN archive' : archive'[j] = IF j = agent.idx THEN work.output ELSE archive[j]
        BY <3>1
      <3> QED
        BY <2>1, <3>2, <3>3
    <2>2. CASE ~(stored /\ agent.idx \notin DOMAIN archive)
      BY <1>1, <2>2 DEF Archived
    <2> QED
      BY <2>1, <2>2
  <1>9. Calm => \A i \in DOMAIN archive' : i < agent.idx + 1
    <2> SUFFICES ASSUME Calm, NEW i \in DOMAIN archive' PROVE i < agent.idx + 1
      OBVIOUS
    <2>1. Below(agent.idx) /\ \A j \in DOMAIN archive : j \in Nat
      BY <1>1 DEF Kept, Core, Typed
    <2>2. CASE i \in DOMAIN archive
      <3>1. i \in Nat /\ i < agent.idx
        BY <2>1, <2>2 DEF Below
      <3> QED
        BY <1>4, <3>1
    <2>3. CASE i = agent.idx
      BY <1>4, <2>3
    <2> QED
      BY <1>8, <2>2, <2>3
  <1>10. CASE agent'.iteration >= Cap
    <2>1. IsAgent(agent') /\ TRUE \in BOOLEAN
      <3>1. Core'
        BY CommandStep
      <3> QED
        BY <3>1, Zenon DEF Core, Typed
    <2>2. at' \in {"plan", "call"} /\ ctx'.next = After(agent'.trajectory)
      BY <1>1, <1>10, <2>1, AnsweringNext
    <2> QED
      BY <1>1, <1>6, <1>7, <1>9, <2>2, RunEndsKept
  <1>11. CASE ~(agent'.iteration >= Cap)
    <2>1. at' = "run"
      BY <1>1, <1>11
    <2> SUFFICES ASSUME Calm PROVE Below(agent.idx)' /\ Texts(agent.trajectory)'
      BY <1>1, <2>1 DEF Kept, Calm
    <2>2. Below(agent.idx)'
      BY <1>7, <1>9 DEF Below
    <2>3. agent.idx \notin DOMAIN archive
      <3>1. ~(agent.idx < agent.idx)
        BY <1>4
      <3> QED
        BY <1>1, <3>1 DEF Kept, Below
    <2>4. ASSUME NEW i \in DOMAIN t, t[i].output # 0
          PROVE  /\ t[i].label => i \in DOMAIN archive'
                 /\ i \in DOMAIN archive' => archive'[i] = t[i].output
      <3>1. t[i].output = done[i].output /\ (t[i].label => done[i].label \/ i \in DOMAIN archive')
        BY <1>2, <1>6 DEF Offloadable
      <3>2. CASE i = agent.idx
        BY <1>3, <1>5, <1>8, <2>3, <3>1, <3>2
      <3>3. CASE i \in work.start..agent.idx - 1
        <4>1. done[i] = agent.trajectory[i] /\ i \in DOMAIN agent.trajectory
          BY <1>5, <3>3
        <4>2. /\ agent.trajectory[i].label => i \in DOMAIN archive
              /\ i \in DOMAIN archive => archive[i] = agent.trajectory[i].output
          BY <1>1, <2>4, <3>1, <4>1 DEF Kept, Texts
        <4>3. i # agent.idx
          BY <1>4, <3>3
        <4> QED
          BY <1>8, <3>1, <4>1, <4>2, <4>3
      <3>4. i = agent.idx \/ i \in work.start..agent.idx - 1
        BY <1>4, <1>5, <1>6
      <3> QED
        BY <3>2, <3>3, <3>4
    <2> QED
      BY <1>7, <2>2, <2>4 DEF Texts
  <1> QED
    BY <1>10, <1>11

LEMMA ConcludesKept == ASSUME Core, Kept, Concludes PROVE Kept'
  <1>1. /\ at = "run" /\ agent' = [agent EXCEPT !.trajectory = With([output |-> 0, label |-> FALSE])]
        /\ Answering(FALSE) /\ archive' = archive /\ past' = past
    BY DEF Concludes, Running
  <1>2. agent.idx \in Nat /\ IsAgent(agent) /\ FALSE \in BOOLEAN
    <2>1. FALSE \in BOOLEAN
      BY Zenon
    <2> QED
      BY <1>1, <2>1, AtRun
  <1>3. Steps(agent'.trajectory, work.start, agent.idx)
    <2>1. PICK t : t = With([output |-> 0, label |-> FALSE])
      OBVIOUS
    <2>2. Steps(t, work.start, agent.idx)
      BY <1>1, <2>1, AtRun, PlainOutput, WithSteps
    <2>3. agent \in [trajectory : {agent.trajectory}, idx : Nat, iteration : Nat,
                     disabled : Replies, stash : {agent.stash}]
      BY <1>2, AgentTypes
    <2>4. agent'.trajectory = t
      BY <1>1, <2>1, <2>3
    <2> QED
      BY <2>2, <2>4
  <1>4. IsAgent(agent')
    <2>1. Core'
      BY ConcludesStep
    <2> QED
      BY <2>1 DEF Core, Typed
  <1>5. at' \in {"plan", "call"} /\ ctx'.next = After(agent'.trajectory)
    BY <1>1, <1>2, <1>4, AnsweringNext
  <1>6. Calm => \A i \in DOMAIN archive' : i < agent.idx + 1
    <2> SUFFICES ASSUME Calm, NEW i \in DOMAIN archive' PROVE i < agent.idx + 1
      OBVIOUS
    <2>1. i \in Nat /\ i < agent.idx
      BY <1>1 DEF Kept, Below, Core, Typed
    <2> QED
      BY <1>2, <2>1
  <1> QED
    BY <1>1, <1>3, <1>5, <1>6, RunEndsKept

LEMMA AskKept == ASSUME Core, Kept, Ask PROVE Kept'
  <1> DEFINE t == With([output |-> 0, label |-> FALSE])
             stash == [trajectory |-> t, idx |-> agent.idx]
  <1>1. /\ at = "run" /\ at' = "suspended" /\ agent' = [agent EXCEPT !.stash = stash]
        /\ blob' = [ctx |-> ctx, agent |-> [agent' EXCEPT !.trajectory = Empty, !.idx = 0,
                                                          !.iteration = 0], work |-> work]
        /\ past' = [past EXCEPT !.asked = @ + 1] /\ archive' = archive
    BY DEF Ask, Running
  <1>2. /\ IsAgent(agent) /\ agent.idx \in Nat /\ work.start \in Nat /\ work.start <= agent.idx
        /\ Steps(agent.trajectory, work.start, agent.idx - 1)
    BY <1>1, AtRun
  <1>3. /\ \A i \in work.start..agent.idx - 1 : t[i] = agent.trajectory[i]
        /\ t[agent.idx] = [output |-> 0, label |-> FALSE]
        /\ DOMAIN t = DOMAIN agent.trajectory \cup {agent.idx}
        /\ DOMAIN agent.trajectory = work.start..agent.idx - 1
    <2>1. DOMAIN agent.trajectory = work.start..agent.idx - 1
      BY <1>2 DEF Steps
    <2> QED
      BY <1>2, <2>1, PlainOutput, WithSteps
  <1> HIDE DEF t
  <1>4. stash.trajectory = t /\ stash.idx = agent.idx
    OBVIOUS
  <1> HIDE DEF stash
  <1>5. agent'.stash = stash /\ blob'.agent.stash = stash
    <2>1. agent \in [trajectory : {agent.trajectory}, idx : Nat, iteration : Nat,
                     disabled : Replies, stash : {agent.stash}]
      BY <1>2, AgentTypes
    <2>2. PICK a : a = agent'
      OBVIOUS
    <2>3. a \in [trajectory : {agent.trajectory}, idx : Nat, iteration : Nat,
                 disabled : Replies, stash : {stash}]
      BY <1>1, <2>1, <2>2
    <2>4. blob'.agent = [a EXCEPT !.trajectory = Empty, !.idx = 0, !.iteration = 0]
      BY <1>1, <2>2
    <2> QED
      BY <2>2, <2>3, <2>4
  <1>6. past'.faults = past.faults
    <2>1. past \in Pasts
      BY DEF Core, Typed
    <2> QED
      BY <1>1, <2>1 DEF Pasts
  <1> SUFFICES ASSUME Calm
               PROVE  Below(agent.stash.idx)' /\ Texts(agent.stash.trajectory)'
                      /\ blob'.agent.stash = agent'.stash
    BY <1>1, <1>6 DEF Kept, Calm
  <1>7. Below(agent.stash.idx)'
    BY <1>1, <1>4, <1>5 DEF Kept, Below
  <1>8. ASSUME NEW i \in DOMAIN t, t[i].output # 0
        PROVE  /\ t[i].label => i \in DOMAIN archive
               /\ i \in DOMAIN archive => archive[i] = t[i].output
    <2>1. i # agent.idx
      BY <1>3, <1>8
    <2>2. i \in DOMAIN agent.trajectory /\ t[i] = agent.trajectory[i]
      BY <1>3, <2>1
    <2> QED
      BY <1>1, <1>8, <2>2 DEF Kept, Texts
  <1>9. Texts(agent.stash.trajectory)'
    BY <1>1, <1>4, <1>5, <1>8 DEF Texts
  <1> QED
    BY <1>5, <1>7, <1>9

LEMMA ResumeKept == ASSUME Core, Kept, NEW reply \in Replies, Resume(reply) PROVE Kept'
  <1>1. /\ at = "suspended" /\ at' = "run" /\ UNCHANGED <<ctx, blob, archive, past>>
        /\ agent' = [Told(reply) EXCEPT !.trajectory = agent.stash.trajectory,
                                        !.idx = agent.stash.idx + 1, !.iteration = 0,
                                        !.stash = NoStash]
    BY DEF Resume
  <1>2. PICK t, i : t = agent.stash.trajectory /\ i = agent.stash.idx
    OBVIOUS
  <1>3. i \in Nat /\ IsAgent(agent)
    BY <1>1, <1>2, AtSuspended
  <1>4. agent'.trajectory = t /\ agent'.idx = i + 1
    <2>1. agent \in [trajectory : {agent.trajectory}, idx : Nat, iteration : Nat,
                     disabled : Replies, stash : {agent.stash}]
      BY <1>3, AgentTypes
    <2>2. PICK a : a = Told(reply)
      OBVIOUS
    <2>3. a \in [trajectory : {agent.trajectory}, idx : Nat, iteration : Nat,
                 disabled : Replies, stash : {agent.stash}]
      BY <2>1, <2>2 DEF Told
    <2>4. agent' = [a EXCEPT !.trajectory = t, !.idx = i + 1, !.iteration = 0, !.stash = NoStash]
      BY <1>1, <1>2, <2>2
    <2> QED
      BY <2>3, <2>4
  <1> SUFFICES ASSUME Calm PROVE Below(agent.idx)' /\ Texts(agent.trajectory)'
    BY <1>1 DEF Kept, Calm
  <1>5. Below(i) /\ Texts(t)
    BY <1>1, <1>2 DEF Kept
  <1>6. \A j \in DOMAIN archive : j \in Nat
    BY DEF Core, Typed
  <1>7. \A j \in DOMAIN archive : j < i + 1
    BY <1>3, <1>5, <1>6 DEF Below
  <1> QED
    BY <1>1, <1>4, <1>5, <1>7 DEF Below, Texts

LEMMA ReplanFailsKept == ASSUME Core, Kept, NEW reply \in Replies, ReplanFails(reply) PROVE Kept'
  <1>1. /\ at = "suspended" /\ agent' = Told(reply) /\ Heard(reply)
        /\ UNCHANGED <<at, ctx, mem, blob, archive, past>>
    BY DEF ReplanFails
  <1>2. PICK d \in Replies : agent' = [agent EXCEPT !.disabled = d]
    BY <1>1, SaidWork
  <1>3. agent'.stash = agent.stash
    BY <1>1, <1>2, ToldAgent
  <1> QED
    BY <1>1, <1>3 DEF Kept, Calm, Below, Texts

LEMMA TakesKept ==
    ASSUME Core, Kept, NEW faults \in SUBSET {"crash"}, Takes(faults), at = "suspended" \/ faults # {}
    PROVE  Kept'
  <1>1. /\ at' = "suspended" /\ agent' = blob.agent /\ blob' = blob /\ archive' = archive
    BY DEF Takes
  <1>2. past.faults \subseteq past'.faults /\ faults \subseteq past'.faults
    <2>1. past \in Pasts
      BY DEF Core, Typed
    <2>2. PICK redeployed : past' = [past EXCEPT !.restarts = @ + 1, !.outputs = @ + 1,
                                                 !.faults = @ \cup faults \cup redeployed]
      BY DEF Takes
    <2>3. past'.faults = past.faults \cup faults \cup redeployed
      BY <2>1, <2>2 DEF Pasts
    <2> QED
      BY <2>3
  <1> SUFFICES ASSUME past'.faults = {}
               PROVE  Below(agent.stash.idx)' /\ Texts(agent.stash.trajectory)'
                      /\ blob'.agent.stash = agent'.stash
    BY <1>1 DEF Kept, Calm
  <1>3. Calm /\ at = "suspended"
    BY <1>2 DEF Calm
  <1>4. blob.agent.stash = agent.stash /\ Below(agent.stash.idx) /\ Texts(agent.stash.trajectory)
    BY <1>3 DEF Kept
  <1> QED
    BY <1>1, <1>4 DEF Below, Texts

LEMMA NextKept == ASSUME Core, Kept, [Next]_vars PROVE Kept'
  <1>1. CASE Next
    <2>1. ASSUME NEW request \in Requests, Begin(request) PROVE Kept'
      BY <2>1, BeginKept
    <2>2. ASSUME NEW phases \in past.request.calls, TakeCall(phases) PROVE Kept'
      BY <2>2, TakeCallKept
    <2>3. ASSUME NEW stored \in BOOLEAN, Command(stored) PROVE Kept'
      BY <2>3, CommandKept
    <2>4. ASSUME NEW reply \in Replies, ReplanFails(reply) \/ Resume(reply) \/ ResumeFails(reply)
          PROVE  Kept'
      <3>1. CASE Resume(reply)
        BY <3>1, ResumeKept
      <3>2. CASE ResumeFails(reply)
        <4>1. mem.changed /\ past' = past
          BY <3>2 DEF ResumeFails, Resumable
        <4>2. ~Calm'
          BY <4>1 DEF Core, Typed, Calm
        <4> QED
          BY <4>2 DEF Kept
      <3> QED
        BY <2>4, <3>1, <3>2, ReplanFailsKept
    <2>5. CASE Restart
      BY <2>5, TakesKept DEF Restart
    <2>6. CASE Crash
      <3>1. {"crash"} \in SUBSET {"crash"} /\ {"crash"} # {} /\ Takes({"crash"})
        BY <2>6 DEF Crash
      <3> QED
        BY <3>1, TakesKept
    <2>7. CASE Finish
      BY <2>7 DEF Finish, Kept
    <2> QED
      BY <1>1, <2>1, <2>2, <2>3, <2>4, <2>5, <2>6, <2>7, PhasesKept, TakeTextKept, ConcludesKept,
         AskKept DEF Next
  <1>2. CASE UNCHANGED vars
    BY <1>2 DEF vars, Kept, Calm, Below, Texts, After
  <1> QED
    BY <1>1, <1>2

LEMMA KeptHolds == Spec => []Kept
  <1>1. Init => Kept
    BY DEF Init, Kept
  <1>2. Core /\ Kept /\ [Next]_vars => Kept'
    BY NextKept
  <1> QED
    BY <1>1, <1>2, CoreHolds, PTL DEF Spec

(* A label stands for the output it replaced, for as long as no crash has    *)
(* undone steps whose output the archive kept and no other skills were put   *)
(* in (compact_trajectory and rehydrate_trajectory).                         *)
THEOREM LabelsStandForOutputs == Spec => []LabelsKeepTheirText
  <1>1. Core /\ Kept => LabelsKeepTheirText
    <2> SUFFICES ASSUME Core, Kept, Calm, at = "run", NEW i \in Executes(agent.trajectory),
                        agent.trajectory[i].label
                 PROVE  i \in DOMAIN archive /\ archive[i] = agent.trajectory[i].output
      BY DEF LabelsKeepTheirText, LabelledIsHeld, Running
    <2> QED
      BY DEF Kept, Texts, Executes
  <1> QED
    BY <1>1, CoreHolds, KeptHolds, PTL

-----------------------------------------------------------------------------
(* The finish check's floors: one for each sub-task that was begun, and the  *)
(* one at work is the last of them.                                          *)
LEMMA FloorsKept ==
    ASSUME Core, Counted, at \in {"plan", "call", "run"}, at' \in {"plan", "call"},
           mem'.floors = mem.floors, work'.origin = work.origin, work'.first = work.first,
           past'.restarts = past.restarts
    PROVE  Counted'
  BY DEF Counted

LEMMA FailedFloors ==
    ASSUME Typed, NEW c, NEW n, Failed(c, n)
    PROVE  mem'.floors = mem.floors /\ work'.origin = work.origin /\ work'.first = work.first
  <1>1. work \in Works /\ IsMemory(mem)
    BY DEF Typed
  <1>2. PICK p : p = work.dropped \cup {c.index}
    OBVIOUS
  <1>3. work' = [work EXCEPT !.dropped = p]
    BY <1>2 DEF Failed
  <1>4. work'.origin = work.origin /\ work'.first = work.first
    BY <1>1, <1>3 DEF Works
  <1>5. mem' = mem \/ mem' = [mem EXCEPT !.live = FALSE]
    BY DEF Failed
  <1>6. mem'.floors = mem.floors
    <2>1. mem \in [floors : {mem.floors}, live : BOOLEAN, changed : BOOLEAN, floor : Int, final : BOOLEAN]
      BY <1>1 DEF IsMemory
    <2> QED
      BY <1>5, <2>1
  <1> QED
    BY <1>4, <1>6

LEMMA PhaseEndsFloors ==
    ASSUME Typed, NEW c, NEW n, PhaseEnds(c, n)
    PROVE  mem'.floors = mem.floors /\ work'.origin = work.origin /\ work'.first = work.first
  <1>1. work \in Works
    BY DEF Typed
  <1>2. \/ \E d : Failed(d, n)
        \/ mem' = mem /\ \E ran : work' = [work EXCEPT !.ran = ran]
    BY DEF PhaseEnds
  <1>3. ASSUME NEW ran, work' = [work EXCEPT !.ran = ran]
        PROVE  work'.origin = work.origin /\ work'.first = work.first
    BY <1>1, <1>3 DEF Works
  <1> QED
    BY <1>2, <1>3, FailedFloors

LEMMA AnsweringCounted ==
    ASSUME Core, Counted, at = "run", NEW capped, Answering(capped), at' \in {"plan", "call"},
           past' = past
    PROVE  Counted'
  <1>1. mem'.floors = mem.floors /\ work'.origin = work.origin /\ work'.first = work.first
    <2>1. CASE InCall
      BY <2>1, PhaseEndsFloors DEF Answering, Core
    <2>2. CASE ~InCall
      BY <2>2 DEF Answering
    <2> QED
      BY <2>1, <2>2
  <1> QED
    BY <1>1, FloorsKept

(* What is taken from the list is the sub-task of the last floor or a later. *)
LEMMA TakenFloors ==
    ASSUME Core, Counted, past.restarts = 0, at = "plan", ctx.index \in DOMAIN ctx.origins
    PROVE  /\ \A o \in DOMAIN Floors : o <= Origin
           /\ Origin \in DOMAIN Floors /\ Floors[Origin] = Worked.first
  <1>1. /\ Worked.origin = Origin /\ Origin \in Nat /\ ctx.index <= Len(ctx.origins)
        /\ Entries(ctx) /\ ctx \in Turns /\ (Continuation <=> work.origin = Origin)
        /\ Worked.first = IF Continuation THEN work.first ELSE ctx.next
        /\ ctx.next \in Nat /\ IsMemory(mem) /\ Planning(ctx, agent, work) /\ work \in Works
    BY TakenWork DEF Core, Live, Typed
  <1>2. /\ \A o \in DOMAIN mem.floors : o \in Nat /\ o <= work.origin
        /\ work.origin # 0 => work.origin \in DOMAIN mem.floors /\ mem.floors[work.origin] = work.first
    BY <1>1 DEF Counted, IsMemory
  <1>3. PICK f : /\ f = Floors /\ DOMAIN f = DOMAIN mem.floors \cup {Origin}
                 /\ \A o \in DOMAIN mem.floors : f[o] = mem.floors[o]
                 /\ Origin \notin DOMAIN mem.floors => f[Origin] = ctx.next
    BY <1>1, FloorsTyped
  <1>4. PICK m \in Nat, n \in Nat : m = work.origin /\ n = Origin
    BY <1>1 DEF Works
  <1>5. n # 0 /\ m <= n
    <2>1. \A i \in 1..Len(ctx.origins) : ctx.origins[i] \in 1..past.request.subtasks
      <3>1. Asked(ctx) /\ DOMAIN ctx.origins = 1..Len(ctx.origins)
        BY <1>1, TurnTypes DEF Core, Typed
      <3> QED
        BY <3>1 DEF Asked
    <2>2. ctx.index \in 1..Len(ctx.origins) /\ ctx.index \in Nat /\ Len(ctx.origins) \in Nat
      BY <1>1, TurnTypes
    <2>3. past.request.subtasks \in Nat
      BY SubtaskAssumption DEF Core, Typed
    <2>4. n # 0
      BY <1>4, <2>1, <2>2, <2>3 DEF Origin
    <2>5. CASE ctx.index = 1
      BY <1>1, <1>4, <2>4, <2>5 DEF Planning
    <2>6. CASE ctx.index # 1
      <3>1. ctx.index - 1 \in 1..Len(ctx.origins) /\ ctx.index - 1 < ctx.index
        BY <2>2, <2>6
      <3>2. work.origin = ctx.origins[ctx.index - 1]
        BY <1>1, <2>6 DEF Planning
      <3>3. ctx.origins[ctx.index - 1] <= ctx.origins[ctx.index]
        BY <1>1, <2>2, <3>1 DEF Entries
      <3>4. m = ctx.origins[ctx.index - 1] /\ n = ctx.origins[ctx.index]
        BY <1>4, <3>2 DEF Origin
      <3>5. m <= n
        BY <3>3, <3>4
      <3> QED
        BY <2>4, <3>5
    <2> QED
      BY <2>4, <2>5, <2>6
  <1>6. \A o \in DOMAIN f : o <= n
    <2>1. \A o \in DOMAIN mem.floors : o \in Nat /\ o <= m
      BY <1>2, <1>4
    <2>2. \A o \in DOMAIN mem.floors : o <= n
      BY <1>5, <2>1
    <2> QED
      BY <1>3, <1>4, <2>2
  <1>7. CASE Continuation
    <2>1. m = n /\ Worked.first = work.first
      BY <1>1, <1>4, <1>7
    <2>2. n \in DOMAIN mem.floors /\ mem.floors[n] = work.first
      BY <1>2, <1>4, <1>5, <2>1
    <2> QED
      BY <1>3, <1>4, <1>6, <2>1, <2>2
  <1>8. CASE ~Continuation
    <2>1. m < n /\ Worked.first = ctx.next
      BY <1>1, <1>4, <1>5, <1>8
    <2>2. n \notin DOMAIN mem.floors
      <3>1. ~(n <= m)
        BY <2>1
      <3> QED
        BY <1>2, <1>4, <3>1
    <2> QED
      BY <1>3, <1>4, <1>6, <2>1, <2>2
  <1> QED
    BY <1>7, <1>8

LEMMA BeginCounted == ASSUME Core, NEW request \in Requests, Begin(request) PROVE Counted'
  <1>1. at' = "plan" /\ work' = NoWork /\ IsMemory(mem)
        /\ mem' = [mem EXCEPT !.floors = Empty, !.live = FALSE]
    BY DEF Begin, Core, Typed
  <1>2. mem'.floors = Empty
    BY <1>1, ClearedMemory
  <1>3. DOMAIN mem'.floors = {} /\ work'.origin = 0
    BY <1>1, <1>2 DEF Empty, NoWork
  <1> QED
    BY <1>1, <1>3 DEF Counted

LEMMA TakeTextCounted == ASSUME Core, Counted, TakeText PROVE Counted'
  <1>1. /\ at = "plan" /\ ctx.index \in DOMAIN ctx.origins /\ at' = "run"
        /\ work' = Started(Worked) /\ NewOutputs /\ ctx' = ctx
        /\ mem' = [mem EXCEPT !.floors = Floors, !.floor = Floors[Origin], !.final = LastSubtask]
    BY DEF TakeText
  <1>2. /\ Worked \in Works /\ Worked.origin = Origin /\ IsMemory(mem) /\ Typed /\ ctx.call = NoCall
    BY <1>1, TakenWork
  <1>3. past'.restarts = past.restarts
    BY <1>1, <1>2, NewOutput
  <1>4. PICK f, w : f = Floors /\ w = Worked
    OBVIOUS
  <1>5. mem'.floors = f /\ mem'.floor = f[Origin] /\ mem'.final = LastSubtask
    <2>1. mem \in [floors : {mem.floors}, live : BOOLEAN, changed : BOOLEAN, floor : Int, final : BOOLEAN]
      BY <1>2 DEF IsMemory
    <2>2. PICK b : b = LastSubtask
      OBVIOUS
    <2>3. mem' = [mem EXCEPT !.floors = f, !.floor = f[Origin], !.final = b]
      BY <1>1, <1>4, <2>2
    <2> QED
      BY <2>1, <2>2, <2>3
  <1>6. work'.origin = Origin /\ work'.first = w.first
    <2>1. work' = [w EXCEPT !.start = ctx.next, !.output = past.outputs + 1]
      BY <1>1, <1>4 DEF Started
    <2> QED
      BY <1>2, <1>4, <2>1 DEF Works
  <1>7. ~InCall' /\ LastSubtask' = LastSubtask
    BY <1>1, <1>2, NoCallTyped DEF InCall, Call, LastSubtask
  <1> SUFFICES ASSUME past.restarts = 0
               PROVE  /\ \A o \in DOMAIN mem'.floors : o <= work'.origin
                      /\ work'.origin \in DOMAIN mem'.floors
                      /\ mem'.floors[work'.origin] = work'.first
                      /\ mem'.floor = work'.first
    BY <1>1, <1>3, <1>5, <1>7 DEF Counted
  <1> QED
    BY <1>1, <1>4, <1>5, <1>6, TakenFloors

LEMMA TakeCallCounted ==
    ASSUME Core, Counted, NEW phases \in past.request.calls, TakeCall(phases) PROVE Counted'
  <1>1. /\ at = "plan" /\ ctx.index \in DOMAIN ctx.origins /\ at' = "call" /\ past' = past
        /\ work' = Worked /\ mem' = [mem EXCEPT !.floors = Floors, !.live = TRUE]
    BY DEF TakeCall
  <1>2. Worked.origin = Origin /\ IsMemory(mem)
    BY <1>1, TakenWork
  <1>3. mem'.floors = Floors
    <2>1. mem \in [floors : {mem.floors}, live : BOOLEAN, changed : BOOLEAN, floor : Int, final : BOOLEAN]
      BY <1>2 DEF IsMemory
    <2>2. PICK f : f = Floors
      OBVIOUS
    <2>3. mem' = [mem EXCEPT !.floors = f, !.live = TRUE]
      BY <1>1, <2>2
    <2> QED
      BY <2>1, <2>2, <2>3
  <1> SUFFICES ASSUME past.restarts = 0
               PROVE  /\ \A o \in DOMAIN mem'.floors : o <= work'.origin
                      /\ work'.origin \in DOMAIN mem'.floors
                      /\ mem'.floors[work'.origin] = work'.first
    BY <1>1 DEF Counted
  <1> QED
    BY <1>1, <1>2, <1>3, TakenFloors

(* A phase's run counts from its own first step, and is the turn's last only *)
(* if it is the last of a call that is the last.                             *)
LEMMA RunPhaseCounted == ASSUME Core, Counted, RunPhase PROVE Counted'
  <1>1. /\ AtPhase /\ Runs /\ at = "call" /\ at' = "run" /\ ctx' = [ctx EXCEPT !.call = Chosen]
        /\ mem' = Checked(ctx.next) /\ work' = Started(work) /\ NewOutputs
    BY DEF RunPhase, Runs, AtPhase
  <1>2. /\ Typed /\ IsMemory(mem) /\ work \in Works /\ ctx \in Turns /\ ctx.next \in Nat
    BY TurnTypes DEF Core, Typed
  <1>3. past'.restarts = past.restarts
    BY <1>1, <1>2, NewOutput
  <1>4. PICK c : /\ c = Chosen /\ c.phases = Call.phases /\ c.index = Call.index
                 /\ c.items = Call.items /\ c.item = Call.item
    BY <1>1, ChosenCall
  <1>5. ctx'.call = c /\ ctx'.origins = ctx.origins /\ ctx'.index = ctx.index
    BY <1>1, <1>2, <1>4 DEF Turns
  <1>6. LastOfCall' = LastOfCall /\ LastSubtask' = LastSubtask
    BY <1>4, <1>5 DEF LastOfCall, LastSubtask, Call, Fans
  <1>7. mem'.floors = mem.floors /\ mem'.floor = ctx.next /\ mem'.final = (LastOfCall /\ LastSubtask)
    <2>1. mem \in [floors : {mem.floors}, live : BOOLEAN, changed : BOOLEAN, floor : Int, final : BOOLEAN]
      BY <1>2 DEF IsMemory
    <2>2. PICK b : b = (LastOfCall /\ LastSubtask)
      OBVIOUS
    <2>3. mem' = [mem EXCEPT !.floor = ctx.next, !.final = b, !.live = TRUE]
      BY <1>1, <2>2 DEF Checked
    <2> QED
      BY <2>1, <2>2, <2>3
  <1>8. work'.origin = work.origin /\ work'.first = work.first /\ work'.start = ctx.next
    BY <1>1, <1>2 DEF Started, Works
  <1>9. InCall'
    <2>1. c.phases # <<>>
      BY <1>1, <1>4, AtPhaseCall DEF CallFits, PhasesTold
    <2> QED
      BY <1>5, <2>1 DEF InCall, Call
  <1>10. past.restarts = 0 => Counted'
    <2>1. past.restarts = 0 =>
             /\ \A o \in DOMAIN mem.floors : o <= work.origin
             /\ work.origin # 0 => work.origin \in DOMAIN mem.floors
                                   /\ mem.floors[work.origin] = work.first
      BY <1>1 DEF Counted
    <2> QED
      BY <1>1, <1>6, <1>7, <1>8, <1>9, <2>1, Zenon DEF Counted
  <1> QED
    BY <1>3, <1>10 DEF Counted

LEMMA PhasesCounted == ASSUME Core, Counted, Phases PROVE Counted'
  <1>1. Typed /\ IsMemory(mem)
    BY DEF Core, Typed
  <1>2. CASE Skip \/ (\E n \in 0..MaxItems, cut \in BOOLEAN : FanOut(n, cut))
             \/ (\E noted \in BOOLEAN : FannedOut(noted))
    <2>1. at = "call" /\ at' = at /\ UNCHANGED <<mem, work, past>>
      BY <1>2 DEF Skip, FanOut, FannedOut, AtPhase
    <2> QED
      BY <2>1, FloorsKept
  <1>3. CASE FailEarly
    <2>1. AtPhase /\ at = "call" /\ past' = past /\ IsAgent(agent') /\ \E c : Failed(c, ctx.next)
      BY <1>3 DEF FailEarly, AtPhase, Core, Typed
    <2>2. mem'.floors = mem.floors /\ work'.origin = work.origin /\ work'.first = work.first
      BY <1>1, <2>1, FailedFloors
    <2>3. at' \in {"plan", "call"}
      BY <2>1 DEF Failed
    <2> QED
      BY <2>1, <2>2, <2>3, FloorsKept
  <1>4. CASE AnswerOnly
    <2>1. AtPhase /\ at = "call" /\ past' = past /\ IsAgent(agent') /\ \E c : PhaseEnds(c, ctx.next)
      BY <1>4 DEF AnswerOnly, Runs, AtPhase, Core, Typed
    <2>2. mem'.floors = mem.floors /\ work'.origin = work.origin /\ work'.first = work.first
      BY <1>1, <2>1, PhaseEndsFloors
    <2>3. at' \in {"plan", "call"}
      BY <2>1 DEF PhaseEnds, Failed
    <2> QED
      BY <2>1, <2>2, <2>3, FloorsKept
  <1>5. CASE CallDone
    <2>1. at = "call" /\ at' = "plan" /\ past' = past /\ work' = work
          /\ mem' = [mem EXCEPT !.live = FALSE]
      BY <1>5 DEF CallDone
    <2>2. mem'.floors = mem.floors
      <3>1. FALSE \in BOOLEAN
        BY Zenon
      <3> QED
        BY <1>1, <2>1, <3>1, QuietMemory
    <2> QED
      BY <2>1, <2>2, FloorsKept
  <1> QED
    BY <1>2, <1>3, <1>4, <1>5, RunPhaseCounted DEF Phases

LEMMA RunningCounted ==
    ASSUME Core, Counted, (\E stored \in BOOLEAN : Command(stored)) \/ Concludes \/ Ask
    PROVE  Counted'
  <1>1. CASE \E stored \in BOOLEAN : Command(stored)
    <2>1. PICK stored \in BOOLEAN : Command(stored)
      BY <1>1
    <2>2. at = "run" /\ past' = past
          /\ IF agent'.iteration >= Cap THEN Answering(TRUE) ELSE UNCHANGED <<at, ctx, mem, work>>
      BY <2>1 DEF Command, Running
    <2>3. CASE agent'.iteration >= Cap
      <3>1. Core'
        BY <2>1, CommandStep
      <3>2. IsAgent(agent') /\ TRUE \in BOOLEAN
        BY <3>1, Zenon DEF Core, Typed
      <3>3. at' \in {"plan", "call"}
        BY <2>2, <2>3, <3>2, AnsweringNext
      <3> QED
        BY <2>2, <2>3, <3>3, AnsweringCounted
    <2>4. CASE ~(agent'.iteration >= Cap)
      BY <2>2, <2>4 DEF Counted, InCall, Call, LastOfCall, LastSubtask
    <2> QED
      BY <2>3, <2>4
  <1>2. CASE Concludes
    <2>1. at = "run" /\ past' = past /\ Answering(FALSE)
      BY <1>2 DEF Concludes, Running
    <2>2. Core'
      BY <1>2, ConcludesStep
    <2>3. IsAgent(agent') /\ FALSE \in BOOLEAN
      BY <2>2, Zenon DEF Core, Typed
    <2>4. at' \in {"plan", "call"}
      BY <2>1, <2>3, AnsweringNext
    <2> QED
      BY <2>1, <2>4, AnsweringCounted
  <1>3. CASE Ask
    <2>1. at = "run" /\ at' = "suspended" /\ UNCHANGED <<ctx, mem, work>>
          /\ past' = [past EXCEPT !.asked = @ + 1]
      BY <1>3 DEF Ask, Running
    <2>2. past'.restarts = past.restarts
      <3>1. past \in Pasts
        BY DEF Core, Typed
      <3> QED
        BY <2>1, <3>1 DEF Pasts
    <2> QED
      BY <2>1, <2>2 DEF Counted, InCall, Call, LastOfCall, LastSubtask
  <1> QED
    BY <1>1, <1>2, <1>3

LEMMA ResumeCounted == ASSUME Core, Counted, NEW reply \in Replies, Resume(reply) PROVE Counted'
  <1>1. /\ at = "suspended" /\ at' = "run" /\ ctx' = ctx /\ past' = past
        /\ mem' = IF InCall THEN Checked(Call.first) ELSE mem
        /\ Heard(reply)
    BY DEF Resume
  <1>2. /\ work'.origin = work.origin /\ work'.first = work.first /\ work'.start = work.start
        /\ IsMemory(mem) /\ Suspended(ctx, agent, work)
    BY <1>1, AtSuspended, SaidWork
  <1>3. LastOfCall' = LastOfCall /\ LastSubtask' = LastSubtask /\ (InCall' <=> InCall)
    BY <1>1 DEF LastOfCall, LastSubtask, InCall, Call
  <1>4. CASE InCall
    <2>1. Call.first = work.start
      BY <1>2, <1>4 DEF Suspended, InCall, Call
    <2>2. mem'.floors = mem.floors /\ mem'.floor = work.start
          /\ mem'.final = (LastOfCall /\ LastSubtask)
      <3>1. mem \in [floors : {mem.floors}, live : BOOLEAN, changed : BOOLEAN, floor : Int, final : BOOLEAN]
        BY <1>2 DEF IsMemory
      <3>2. PICK b : b = (LastOfCall /\ LastSubtask)
        OBVIOUS
      <3>3. mem' = [mem EXCEPT !.floor = work.start, !.final = b, !.live = TRUE]
        BY <1>1, <1>4, <2>1, <3>2 DEF Checked
      <3> QED
        BY <3>1, <3>2, <3>3
    <2>3. past.restarts = 0 =>
             /\ \A o \in DOMAIN mem.floors : o <= work.origin
             /\ work.origin # 0 => work.origin \in DOMAIN mem.floors
                                   /\ mem.floors[work.origin] = work.first
      BY <1>1 DEF Counted
    <2> QED
      BY <1>1, <1>2, <1>3, <1>4, <2>2, <2>3, Zenon DEF Counted
  <1>5. CASE ~InCall
    BY <1>1, <1>2, <1>3, <1>5, Zenon DEF Counted
  <1> QED
    BY <1>4, <1>5

LEMMA ReplanFailsCounted ==
    ASSUME Core, Counted, NEW reply \in Replies, ReplanFails(reply) PROVE Counted'
  <1>1. at = "suspended" /\ Heard(reply) /\ UNCHANGED <<at, ctx, mem, blob, archive, past>>
    BY DEF ReplanFails
  <1>2. work'.origin = work.origin /\ work'.first = work.first /\ work'.start = work.start
    BY <1>1, SaidWork
  <1>3. LastOfCall' = LastOfCall /\ LastSubtask' = LastSubtask /\ (InCall' <=> InCall)
    BY <1>1 DEF LastOfCall, LastSubtask, InCall, Call
  <1> QED
    BY <1>1, <1>2, <1>3, Zenon DEF Counted

LEMMA NextCounted == ASSUME Core, Counted, [Next]_vars PROVE Counted'
  <1>1. CASE Next
    <2>1. ASSUME NEW request \in Requests, Begin(request) PROVE Counted'
      BY <2>1, BeginCounted
    <2>2. ASSUME NEW phases \in past.request.calls, TakeCall(phases) PROVE Counted'
      BY <2>2, TakeCallCounted
    <2>3. ASSUME NEW reply \in Replies, ReplanFails(reply) \/ Resume(reply) \/ ResumeFails(reply)
          PROVE  Counted'
      <3>1. CASE Resume(reply)
        BY <3>1, ResumeCounted
      <3>2. CASE ResumeFails(reply)
        <4>1. mem.changed /\ past' = past
          BY <3>2 DEF ResumeFails, Resumable
        <4>2. past'.restarts # 0
          BY <4>1 DEF Core, Typed
        <4> QED
          BY <4>2 DEF Counted
      <3> QED
        BY <2>3, <3>1, <3>2, ReplanFailsCounted
    <2>4. CASE Restart \/ Crash
      <3>1. PICK more : past' = [past EXCEPT !.restarts = @ + 1, !.outputs = @ + 1, !.faults = more]
        BY <2>4 DEF Restart, Crash, Takes
      <3>2. past \in Pasts
        BY DEF Core, Typed
      <3>3. past.restarts \in Nat /\ past'.restarts = past.restarts + 1
        BY <3>1, <3>2 DEF Pasts
      <3>4. past'.restarts # 0
        BY <3>3
      <3> QED
        BY <3>4 DEF Counted
    <2>5. CASE Finish
      BY <2>5 DEF Finish, Counted
    <2> QED
      BY <1>1, <2>1, <2>2, <2>3, <2>4, <2>5, PhasesCounted, TakeTextCounted, RunningCounted DEF Next
  <1>2. CASE UNCHANGED vars
    BY <1>2 DEF vars, Counted, InCall, Call, LastOfCall, LastSubtask
  <1> QED
    BY <1>1, <1>2

LEMMA CountedHolds == Spec => []Counted
  <1>1. Init => Counted
    BY DEF Init, Counted
  <1>2. Core /\ Counted /\ [Next]_vars => Counted'
    BY NextCounted
  <1> QED
    BY <1>1, <1>2, CoreHolds, PTL DEF Spec

(* The numbers of a turn's steps are used once, over sub-tasks, phases,      *)
(* hand-offs, questions and restarts, so the facts of a run are its own; and *)
(* in one process the finish check counts the runs of its own sub-task and   *)
(* knows the turn's last run (next_observation_idx, subtask_floor and        *)
(* is_last_subtask in _run_agent).                                           *)
THEOREM EvidenceStaysItsOwn == Spec => []EvidenceIsOnesOwn
  <1>1. ASSUME Core, Kept, Counted, at = "run" PROVE EvidenceIsOnesOwn
    <2>1. work.start \in Nat /\ agent.idx \in Nat
          /\ DOMAIN agent.trajectory = work.start..agent.idx - 1
      BY <1>1, AtRun DEF Steps
    <2>2. ASSUME Calm, NEW i \in DOMAIN archive
          PROVE  i < agent.idx /\ (i >= work.start => i \in DOMAIN agent.trajectory)
      <3>1. i \in Nat /\ i < agent.idx
        BY <1>1, <2>2 DEF Core, Typed, Kept, Below
      <3> QED
        BY <2>1, <3>1
    <2> QED
      BY <1>1, <2>2 DEF EvidenceIsOnesOwn, Counted
  <1>2. Core /\ Kept /\ Counted => EvidenceIsOnesOwn
    BY <1>1 DEF EvidenceIsOnesOwn, Running
  <1> QED
    BY <1>2, CoreHolds, KeptHolds, CountedHolds, PTL

===============================================================================
