-------------------------- MODULE LogStreamProofs --------------------------
(***************************************************************************)
(* NothingMissed and NoLineTwice of LogStream, for any executions and pages. *)
(***************************************************************************)
EXTENDS LogStream, SequenceTheorems, TLAPS

\* What an execution logs.
LogKinds == {"checking", "failed", "missing", "complete"}

ControlOK ==
  /\ \A a \in Attempts :
       /\ pc[a] \in {"log", "write"} => what[a] \in LogKinds
       /\ ~ lost /\ status # "deleted" /\ pc[a] = "markdone" =>
            \E i \in 1..Len(logs) : logs[i].what = "complete"
  /\ \A p \in Pages : pc[p] = "write" => what[p] = "cancel"

\* While no write has dropped an entry, the log only grows: what a stream has shown
\* is a prefix of it, and an item that is done has said so.
Prefix(s, l) == Len(s) <= Len(l) /\ \A i \in 1..Len(s) : s[i] = l[i]

Faithful ==
  ~ lost /\ status # "deleted" =>
    /\ status = "done" => \E i \in 1..Len(logs) : logs[i].what = "complete"
    /\ \A p \in Pages : /\ Prefix(sent[p], logs)
                        /\ stream[p] = "complete" => \E i \in 1..Len(sent[p]) : sent[p][i].what = "complete"

\* Entry e is at place i of the log, of a list that somebody read, or of a stream.
Shows(l, i, e) == i \in 1..Len(l) /\ l[i] = e

Somewhere(i, e) ==
  \/ Shows(logs, i, e)
  \/ \E x \in Writers : Shows(copy[x], i, e)
  \/ \E p \in Pages : Shows(sent[p], i, e)

\* What an execution may still log.
Ahead == [checking |-> {"checking", "failed", "complete"}, failed |-> {"failed"},
          missing |-> {"missing"}, complete |-> {"complete"}]

Future(a) ==
  CASE pc[a] \in {"idle", "lookup"}         -> LogKinds
    [] pc[a] \in {"log", "write"}           -> Ahead[what[a]]
    [] pc[a] \in {"ask", "validate"}        -> {"failed", "complete"}
    [] pc[a] = "store"                      -> {"complete"}
    [] OTHER                                -> {}

\* An entry of an execution has one place, wherever it is, and is logged once.
OnePlace ==
  \A a \in Attempts, k \in Kinds : \A i, j \in Nat :
    Somewhere(i, [by |-> a, what |-> k]) =>
      /\ k \notin Future(a)
      /\ Somewhere(j, [by |-> a, what |-> k]) => i = j

IInv == TypeOK /\ ControlOK /\ Faithful /\ OnePlace

-----------------------------------------------------------------------------
\* The count of the failures stays within its bound.
LEMMA FailTyped ==
  ASSUME TypeOK, Fail
  PROVE  failures' \in 0..MaxFailures
  BY StreamAssumption DEF TypeOK, Fail

\* What x writes back: the list it read, and one entry more.
LEMMA Written ==
  ASSUME TypeOK, NEW x \in Writers, what[x] \in Kinds
  PROVE  LET m == Append(copy[x], Entry(x))
         IN  /\ m \in Seq(Entries) /\ Len(copy[x]) \in Nat /\ Len(m) = Len(copy[x]) + 1
             /\ \A i \in 1..Len(copy[x]) : m[i] = copy[x][i]
             /\ m[Len(copy[x]) + 1] = Entry(x)
  <1>1. copy[x] \in Seq(Entries) /\ Entry(x) \in Entries
    BY DEF TypeOK, Entry, Entries
  <1> QED
    BY <1>1, AppendProperties, LenProperties

\* What is left of a list after its first k members.
LEMMA Rest ==
  ASSUME NEW S, NEW l \in Seq(S), NEW k \in Nat, k < Len(l)
  PROVE  /\ SubSeq(l, k + 1, Len(l)) \in Seq(S)
         /\ Len(SubSeq(l, k + 1, Len(l))) = Len(l) - k
         /\ \A i \in 1..(Len(l) - k) : SubSeq(l, k + 1, Len(l))[i] = l[k + i]
  <1>1. PICK n \in Nat : n = Len(l)
    BY LenProperties
  <1>2. PICK m \in Nat : m = k + 1
    OBVIOUS
  <1>3. \A i \in m..n : l[i] \in S
    BY <1>1, <1>2, ElementOfSeq
  <1>4. /\ SubSeq(l, m, n) \in Seq(S)
        /\ Len(SubSeq(l, m, n)) = IF m <= n THEN n - m + 1 ELSE 0
        /\ \A i \in 1..n - m + 1 : SubSeq(l, m, n)[i] = l[m + i - 1]
    <2>1. m \in Int /\ n \in Int
      OBVIOUS
    <2> QED
      BY <1>3, <2>1, SubSeqProperties
  <1>5. m <= n /\ n - m + 1 = n - k
    BY <1>1, <1>2
  <1>6. \A i \in 1..(n - k) : i \in 1..n - m + 1 /\ m + i - 1 = k + i
    BY <1>1, <1>2
  <1>7. \A i \in 1..(n - k) : SubSeq(l, m, n)[i] = l[k + i]
    BY <1>4, <1>6
  <1>8. Len(SubSeq(l, m, n)) = n - k
    BY <1>4, <1>5
  <1> QED
    BY <1>1, <1>2, <1>4, <1>7, <1>8

\* A list that starts with s has it as its first part.
LEMMA PrefixIsSubSeq ==
  ASSUME NEW S, NEW s \in Seq(S), NEW l \in Seq(S),
         Len(s) <= Len(l), \A i \in 1..Len(s) : s[i] = l[i]
  PROVE  s = SubSeq(l, 1, Len(s))
  <1>1. PICK n \in Nat : n = Len(s)
    BY LenProperties
  <1>2. \A i \in 1..n : l[i] \in S
    BY <1>1, ElementOfSeq
  <1>3. 1 \in Int /\ n \in Int
    OBVIOUS
  <1>4. /\ SubSeq(l, 1, n) \in Seq(S)
        /\ Len(SubSeq(l, 1, n)) = IF 1 <= n THEN n - 1 + 1 ELSE 0
        /\ \A i \in 1..n - 1 + 1 : SubSeq(l, 1, n)[i] = l[1 + i - 1]
    BY <1>2, <1>3, SubSeqProperties
  <1>5. Len(SubSeq(l, 1, n)) = n /\ \A i \in 1..n : SubSeq(l, 1, n)[i] = l[i]
    BY <1>4
  <1>6. PICK t \in Seq(S) : t = SubSeq(l, 1, n)
    BY <1>4
  <1>7. Len(t) = n /\ \A i \in 1..n : t[i] = s[i]
    BY <1>1, <1>5, <1>6
  <1> QED
    BY <1>1, <1>6, <1>7, SeqEqual

\* What a stream has shown after a turn of its generator: what it had shown, and from
\* there on the log.
LEMMA Shown ==
  ASSUME TypeOK, NEW p \in Pages
  PROVE  LET m == sent[p] \o New(Len(sent[p]))
         IN  /\ m \in Seq(Entries) /\ Len(sent[p]) \in Nat /\ Len(logs) \in Nat
             /\ Len(m) = IF Len(sent[p]) < Len(logs) THEN Len(logs) ELSE Len(sent[p])
             /\ \A i \in 1..Len(m) : m[i] = IF i <= Len(sent[p]) THEN sent[p][i] ELSE logs[i]
  <1>1. PICK s \in Seq(Entries) : s = sent[p]
    BY DEF TypeOK
  <1>2. logs \in Seq(Entries)
    BY DEF TypeOK
  <1>3. PICK k \in Nat : k = Len(s)
    BY LenProperties
  <1>4. PICK l \in Nat : l = Len(logs)
    BY <1>2, LenProperties
  <1>5. CASE k < l
    <2>1. PICK n \in Seq(Entries) : n = New(k) /\ Len(n) = l - k /\ \A i \in 1..(l - k) : n[i] = logs[k + i]
      <3>1. New(k) = SubSeq(logs, k + 1, Len(logs)) /\ k < Len(logs)
        BY <1>4, <1>5 DEF New
      <3>2. /\ New(k) \in Seq(Entries) /\ Len(New(k)) = Len(logs) - k
            /\ \A i \in 1..(Len(logs) - k) : New(k)[i] = logs[k + i]
        BY <1>2, <3>1, Rest
      <3> QED
        BY <1>4, <3>2
    <2>2. /\ s \o n \in Seq(Entries) /\ Len(s \o n) = k + (l - k)
          /\ \A i \in 1 .. k + (l - k) : (s \o n)[i] = IF i <= k THEN s[i] ELSE n[i - k]
      <3>1. /\ s \o n \in Seq(Entries) /\ Len(s \o n) = Len(s) + Len(n)
            /\ \A i \in 1 .. Len(s) + Len(n) : (s \o n)[i] = IF i <= Len(s) THEN s[i] ELSE n[i - Len(s)]
        BY ConcatProperties
      <3> QED
        BY <1>3, <2>1, <3>1
    <2>3. k + (l - k) = l
      OBVIOUS
    <2>4. \A i \in 1..l : ~ (i <= k) => i - k \in 1..(l - k) /\ k + (i - k) = i
      OBVIOUS
    <2>5. \A i \in 1..l : (s \o n)[i] = IF i <= k THEN s[i] ELSE logs[i]
      BY <2>1, <2>2, <2>3, <2>4
    <2> QED
      BY <1>1, <1>3, <1>4, <1>5, <2>1, <2>2, <2>3, <2>5
  <1>6. CASE ~ (k < l)
    <2>1. s \o New(k) = s
      BY <1>4, <1>6, ConcatEmptySeq DEF New
    <2> QED
      BY <1>1, <1>3, <1>4, <1>6, <2>1
  <1> QED
    BY <1>5, <1>6

-----------------------------------------------------------------------------
\* In most steps no entry comes to a place where it was not before, ...
NothingNew ==
  \A a \in Attempts, k \in Kinds : \A i \in Nat :
    Somewhere(i, [by |-> a, what |-> k])' => Somewhere(i, [by |-> a, what |-> k])

\* ... and in all of them an execution only gets nearer to its end.
LessAhead == \A a \in Attempts : Future(a)' \subseteq Future(a)

LEMMA QuietStep ==
  ASSUME OnePlace, NothingNew, LessAhead
  PROVE  OnePlace'
  BY DEF OnePlace, NothingNew, LessAhead

LEMMA LogWriteKept ==
  ASSUME IInv, NEW a \in Attempts, LogWrite(a)
  PROVE  IInv'
  <1> DEFINE e == Entry(a)
             n == Len(copy[a]) + 1
  <1> USE StreamAssumption DEF IInv
  <1>1. /\ pc[a] = "write" /\ what[a] \in LogKinds /\ a \in Writers
        /\ pc' = [pc EXCEPT ![a] = AfterLog[what[a]]] /\ what' = [what EXCEPT ![a] = "none"]
        /\ copy' = [copy EXCEPT ![a] = << >>]
        /\ UNCHANGED <<status, enqueued, abandoned, stream, sent, inbox, timer>>
        /\ failures' \in 0..MaxFailures
        /\ LogKinds \subseteq Kinds
    BY DEF LogWrite, At, Proceed, WriteBack, Fail, TypeOK, pages, ControlOK, Writers, LogKinds, Kinds
  <1>2. \/ logs' = logs /\ ((lost' = lost /\ status = "deleted") \/ lost' = TRUE)
        \/ /\ logs' = Append(copy[a], e) /\ lost' = (lost \/ copy[a] # logs)
           /\ status # "deleted"
    BY DEF LogWrite, WriteBack, e
  <1>3. /\ Append(copy[a], e) \in Seq(Entries) /\ n - 1 \in Nat
        /\ Len(Append(copy[a], e)) = n
        /\ \A i \in 1..(n - 1) : Append(copy[a], e)[i] = copy[a][i]
        /\ Append(copy[a], e)[n] = e
        /\ Len(copy[a]) = n - 1
    BY <1>1, Written
  <1>4. TypeOK'
    <2>1. logs' \in Seq(Entries)
      BY <1>1, <1>2, <1>3 DEF TypeOK
    <2>2. AfterLog[what[a]] \in {"ask", "fail", "handler", "markdone", "over"}
      BY <1>1 DEF AfterLog, LogKinds
    <2>3. lost' \in BOOLEAN
      BY <1>1, <1>2 DEF TypeOK
    <2>4. << >> \in Seq(Entries)
      BY EmptySeq
    <2> QED
      BY <1>1, <2>1, <2>2, <2>3, <2>4 DEF TypeOK
  <1> HIDE DEF e, n
  <1>5. ControlOK'
    <2>1. ASSUME NEW b \in Attempts, ~ lost', status' # "deleted", pc'[b] = "markdone"
          PROVE  \E i \in 1..Len(logs') : logs'[i].what = "complete"
      <3>1. copy[a] = logs /\ logs' = Append(copy[a], e)
        BY <1>1, <1>2, <2>1
      <3>0. ~ lost /\ status # "deleted"
        BY <1>1, <1>2, <2>1
      <3>2. CASE b = a
        <4>1. what[a] = "complete"
          BY <1>1, <2>1, <3>2 DEF TypeOK, AfterLog, LogKinds
        <4>2. e.what = "complete"
          BY <4>1 DEF e, Entry
        <4> QED
          BY <1>3, <3>1, <4>2
      <3>3. CASE b # a
        <4>1. \E i \in 1..Len(logs) : logs[i].what = "complete"
          <5>1. pc[b] = "markdone"
            BY <1>1, <2>1, <3>3 DEF TypeOK
          <5> QED
            BY <3>0, <5>1 DEF ControlOK
        <4> QED
          BY <1>3, <3>1, <4>1
      <3> QED
        BY <3>2, <3>3
    <2>2. ASSUME NEW b \in Attempts, pc'[b] \in {"log", "write"} PROVE what'[b] \in LogKinds
      BY <1>1, <2>2 DEF ControlOK, TypeOK, AfterLog, LogKinds, Writers
    <2>3. ASSUME NEW p \in Pages, pc'[p] = "write" PROVE what'[p] = "cancel"
      BY <1>1, <2>3 DEF ControlOK, TypeOK, Writers
    <2> QED
      BY <2>1, <2>2, <2>3 DEF ControlOK
  <1>6. Faithful'
    <2> SUFFICES ASSUME ~ lost', status' # "deleted" PROVE Faithful'
      BY DEF Faithful
    <2>1. ~ lost /\ copy[a] = logs /\ logs' = Append(copy[a], e) /\ status # "deleted"
      BY <1>1, <1>2
    <2>2. /\ Len(logs) = n - 1 /\ Len(logs') = n
          /\ \A i \in 1..Len(logs) : logs'[i] = logs[i]
      BY <1>3, <2>1
    <2>3. \A p \in Pages : Prefix(sent[p], logs) => Prefix(sent[p], logs')
      <3>1. \A p \in Pages : Len(sent[p]) \in Nat
        BY LenProperties DEF TypeOK
      <3> QED
        BY <1>3, <2>2, <3>1 DEF Prefix
    <2>4. (\E i \in 1..Len(logs) : logs[i].what = "complete")
             => \E i \in 1..Len(logs') : logs'[i].what = "complete"
      BY <1>3, <2>2
    <2> QED
      BY <1>1, <2>1, <2>3, <2>4 DEF Faithful
  <1>7. LessAhead /\ what[a] \notin Future(a)' /\ what[a] \in Future(a)
    BY <1>1 DEF TypeOK, LessAhead, Future, Ahead, AfterLog, LogKinds
  <1>8. ASSUME NEW b \in Attempts, NEW k \in Kinds, NEW i \in Nat,
               Somewhere(i, [by |-> b, what |-> k])'
        PROVE  Somewhere(i, [by |-> b, what |-> k]) \/ (b = a /\ k = what[a] /\ i = n)
    <2> DEFINE f == [by |-> b, what |-> k]
    <2>1. CASE Shows(logs', i, f)
      <3>1. CASE logs' = logs
        BY <2>1, <3>1 DEF Somewhere
      <3>2. CASE logs' = Append(copy[a], e)
        <4>1. i = n \/ i \in 1..(n - 1)
          BY <1>3, <2>1, <3>2 DEF Shows
        <4>2. CASE i \in 1..(n - 1)
          BY <1>1, <1>3, <2>1, <3>2, <4>2 DEF Somewhere, Shows
        <4>3. CASE i = n
          <5>1. f = [by |-> a, what |-> what[a]]
            BY <1>3, <2>1, <3>2, <4>3 DEF Shows, e, Entry
          <5> QED
            BY <4>3, <5>1
        <4> QED
          BY <4>1, <4>2, <4>3
      <3> QED
        BY <1>2, <3>1, <3>2
    <2>2. ASSUME NEW x \in Writers, Shows(copy'[x], i, f) PROVE Somewhere(i, f)
      <3>1. x # a
        BY <1>1, <2>2, EmptySeq DEF TypeOK, Shows
      <3> QED
        BY <1>1, <2>2, <3>1 DEF TypeOK, Somewhere
    <2>3. ASSUME NEW p \in Pages, Shows(sent'[p], i, f) PROVE Somewhere(i, f)
      BY <1>1, <2>3 DEF Somewhere
    <2> QED
      BY <1>8, <2>1, <2>2, <2>3 DEF Somewhere
  <1>9. OnePlace'
    BY <1>1, <1>7, <1>8 DEF OnePlace, LessAhead
  <1> QED
    BY <1>4, <1>5, <1>6, <1>9

-----------------------------------------------------------------------------
\* The steps of an execution that do not write the log.
LEMMA QuietRunKept ==
  ASSUME IInv, NEW a \in Attempts, \/ RunBegin(a)
                                   \/ Run(a) /\ ~ LogWrite(a)
                                   \/ Raise(a) \/ BreakOff(a)
  PROVE  IInv'
  <1> USE StreamAssumption DEF IInv, Writers, Settled, Active, Kinds, LogKinds,
               Running, WriteStatus, fate
  <1>1. CASE RunBegin(a)
    <2> USE <1>1 DEF RunBegin, At, Goto, row, pages
    <2>1. TypeOK'
      BY FailTyped DEF TypeOK
    <2>2. ControlOK'
      BY DEF TypeOK, ControlOK
    <2>3. Faithful'
      BY DEF TypeOK, ControlOK, Faithful, Prefix
    <2>4. NothingNew
      BY DEF TypeOK, NothingNew, Somewhere, Shows
    <2>5. LessAhead
      BY DEF TypeOK, ControlOK, LessAhead, Future, Ahead
    <2> QED
      BY <2>1, <2>2, <2>3, <2>4, <2>5, QuietStep
  <1>2. CASE FileMissing(a)
    <2> USE <1>2 DEF FileMissing, At, Log, row, pages
    <2>1. TypeOK'
      BY FailTyped DEF TypeOK
    <2>2. ControlOK'
      BY DEF TypeOK, ControlOK
    <2>3. Faithful'
      BY DEF TypeOK, ControlOK, Faithful, Prefix
    <2>4. NothingNew
      BY DEF TypeOK, NothingNew, Somewhere, Shows
    <2>5. LessAhead
      BY DEF TypeOK, ControlOK, LessAhead, Future, Ahead
    <2> QED
      BY <2>1, <2>2, <2>3, <2>4, <2>5, QuietStep
  <1>3. CASE MarkProcessing(a)
    <2> USE <1>3 DEF MarkProcessing, At, SetStatus, Log, pages
    <2>1. TypeOK'
      BY FailTyped DEF TypeOK
    <2>2. ControlOK'
      BY DEF TypeOK, ControlOK
    <2>3. Faithful'
      BY DEF TypeOK, ControlOK, Faithful, Prefix
    <2>4. NothingNew
      BY DEF TypeOK, NothingNew, Somewhere, Shows
    <2>5. LessAhead
      BY DEF TypeOK, ControlOK, LessAhead, Future, Ahead
    <2> QED
      BY <2>1, <2>2, <2>3, <2>4, <2>5, QuietStep
  <1>4. CASE LogRead(a)
    <2> USE <1>4 DEF LogRead, At, row, pages
    <2>0. what[a] \in LogKinds /\ AfterLog[what[a]] \in {"ask", "fail", "handler", "markdone"}
      BY DEF ControlOK, AfterLog
    <2>1. CASE status = "deleted"
      <3> USE <2>1 DEF Proceed
      <3>0. << >> \in Seq(Entries)
        BY EmptySeq
      <3>1. TypeOK'
        BY <2>0, <3>0 DEF TypeOK
      <3>2. ControlOK'
        BY <2>0 DEF TypeOK, ControlOK
      <3>3. Faithful'
        BY DEF Faithful
      <3>4. NothingNew
        BY EmptySeq DEF TypeOK, NothingNew, Somewhere, Shows
      <3>5. LessAhead
        BY <2>0 DEF TypeOK, ControlOK, LessAhead, Future, Ahead, AfterLog
      <3> QED
        BY <3>1, <3>2, <3>3, <3>4, <3>5, QuietStep
    <2>2. CASE status # "deleted"
      <3> USE <2>2
      <3>1. TypeOK'
        BY DEF TypeOK
      <3>2. ControlOK'
        BY DEF TypeOK, ControlOK
      <3>3. Faithful'
        BY DEF TypeOK, ControlOK, Faithful, Prefix
      <3>4. NothingNew
        BY DEF TypeOK, NothingNew, Somewhere, Shows
      <3>5. LessAhead
        BY DEF TypeOK, ControlOK, LessAhead, Future, Ahead
      <3> QED
        BY <3>1, <3>2, <3>3, <3>4, <3>5, QuietStep
    <2> QED
      BY <2>1, <2>2
  <1>5. CASE AskCancelled(a)
    <2> USE <1>5 DEF AskCancelled, At, Goto, row, pages
    <2>1. TypeOK'
      BY FailTyped DEF TypeOK
    <2>2. ControlOK'
      BY DEF TypeOK, ControlOK
    <2>3. Faithful'
      BY DEF TypeOK, ControlOK, Faithful, Prefix
    <2>4. NothingNew
      BY DEF TypeOK, NothingNew, Somewhere, Shows
    <2>5. LessAhead
      BY DEF TypeOK, ControlOK, LessAhead, Future, Ahead
    <2> QED
      BY <2>1, <2>2, <2>3, <2>4, <2>5, QuietStep
  <1>6. CASE Validate(a)
    <2> USE <1>6 DEF Validate, At, Log, Goto, row, pages
    <2>1. TypeOK'
      BY FailTyped DEF TypeOK
    <2>2. ControlOK'
      BY DEF TypeOK, ControlOK
    <2>3. Faithful'
      BY DEF TypeOK, ControlOK, Faithful, Prefix
    <2>4. NothingNew
      BY DEF TypeOK, NothingNew, Somewhere, Shows
    <2>5. LessAhead
      BY DEF TypeOK, ControlOK, LessAhead, Future, Ahead
    <2> QED
      BY <2>1, <2>2, <2>3, <2>4, <2>5, QuietStep
  <1>7. CASE FailStep(a)
    <2> USE <1>7 DEF FailStep, At, SetStatus, Goto, pages
    <2>1. TypeOK'
      BY FailTyped DEF TypeOK
    <2>2. ControlOK'
      BY DEF TypeOK, ControlOK
    <2>3. Faithful'
      BY DEF TypeOK, ControlOK, Faithful, Prefix
    <2>4. NothingNew
      BY DEF TypeOK, NothingNew, Somewhere, Shows
    <2>5. LessAhead
      BY DEF TypeOK, ControlOK, LessAhead, Future, Ahead
    <2> QED
      BY <2>1, <2>2, <2>3, <2>4, <2>5, QuietStep
  <1>8. CASE MarkError(a)
    <2> USE <1>8 DEF MarkError, At, SetStatus, Goto, pages
    <2>1. TypeOK'
      BY FailTyped DEF TypeOK
    <2>2. ControlOK'
      BY DEF TypeOK, ControlOK
    <2>3. Faithful'
      BY DEF TypeOK, ControlOK, Faithful, Prefix
    <2>4. NothingNew
      BY DEF TypeOK, NothingNew, Somewhere, Shows
    <2>5. LessAhead
      BY DEF TypeOK, ControlOK, LessAhead, Future, Ahead
    <2> QED
      BY <2>1, <2>2, <2>3, <2>4, <2>5, QuietStep
  <1>9. CASE Store(a)
    <2> USE <1>9 DEF Store, At, Log, Goto, row, pages
    <2>1. TypeOK'
      BY FailTyped DEF TypeOK
    <2>2. ControlOK'
      BY DEF TypeOK, ControlOK
    <2>3. Faithful'
      BY DEF TypeOK, ControlOK, Faithful, Prefix
    <2>4. NothingNew
      BY DEF TypeOK, NothingNew, Somewhere, Shows
    <2>5. LessAhead
      BY DEF TypeOK, ControlOK, LessAhead, Future, Ahead
    <2> QED
      BY <2>1, <2>2, <2>3, <2>4, <2>5, QuietStep
  <1>10. CASE MarkDone(a)
    <2> USE <1>10 DEF MarkDone, At, SetStatus, Goto, pages
    <2>1. TypeOK'
      BY FailTyped DEF TypeOK
    <2>2. ControlOK'
      BY DEF TypeOK, ControlOK
    <2>3. Faithful'
      BY DEF TypeOK, ControlOK, Faithful, Prefix
    <2>4. NothingNew
      BY DEF TypeOK, NothingNew, Somewhere, Shows
    <2>5. LessAhead
      BY DEF TypeOK, ControlOK, LessAhead, Future, Ahead
    <2> QED
      BY <2>1, <2>2, <2>3, <2>4, <2>5, QuietStep
  <1>11. CASE Raise(a)
    <2> USE <1>11 DEF Raise, Proceed, row, pages
    <2>1. TypeOK'
      BY EmptySeq, FailTyped DEF TypeOK
    <2>2. ControlOK'
      BY DEF TypeOK, ControlOK
    <2>3. Faithful'
      BY DEF TypeOK, ControlOK, Faithful, Prefix
    <2>4. NothingNew
      BY EmptySeq DEF TypeOK, NothingNew, Somewhere, Shows
    <2>5. LessAhead
      BY DEF TypeOK, ControlOK, LessAhead, Future, Ahead
    <2> QED
      BY <2>1, <2>2, <2>3, <2>4, <2>5, QuietStep
  <1>12. CASE BreakOff(a)
    <2> USE <1>12 DEF BreakOff, Proceed, pages
    <2>1. TypeOK'
      BY EmptySeq, FailTyped DEF TypeOK
    <2>2. ControlOK'
      BY DEF TypeOK, ControlOK
    <2>3. Faithful'
      BY DEF TypeOK, ControlOK, Faithful, Prefix
    <2>4. NothingNew
      BY EmptySeq DEF TypeOK, NothingNew, Somewhere, Shows
    <2>5. LessAhead
      BY DEF TypeOK, ControlOK, LessAhead, Future, Ahead
    <2> QED
      BY <2>1, <2>2, <2>3, <2>4, <2>5, QuietStep
  <1> QED
    BY <1>1, <1>2, <1>3, <1>4, <1>5, <1>6, <1>7, <1>8, <1>9, <1>10, <1>11, <1>12 DEF Run

\* The requests of a page that do not write the log, and a lost connection.
LEMMA QuietPageKept ==
  ASSUME IInv, NEW p \in Pages,
         \/ Process(p) \/ ProcessRaises(p) \/ ListItems(p) \/ CancelRead(p)
         \/ ConnectionLost(p)
  PROVE  IInv'
  <1> USE StreamAssumption DEF IInv, Writers, Settled, Active, Kinds, LogKinds,
               Running, WriteStatus, fate
  <1>1. CASE Process(p)
    <2> USE <1>1 DEF Process, runs
    <2>1. TypeOK'
      BY FailTyped DEF TypeOK
    <2>2. ControlOK'
      BY DEF TypeOK, ControlOK
    <2>3. Faithful'
      BY DEF TypeOK, ControlOK, Faithful, Prefix
    <2>4. NothingNew
      BY DEF TypeOK, NothingNew, Somewhere, Shows
    <2>5. LessAhead
      BY DEF TypeOK, ControlOK, LessAhead, Future, Ahead
    <2> QED
      BY <2>1, <2>2, <2>3, <2>4, <2>5, QuietStep
  <1>2. CASE ListItems(p)
    <2> USE <1>2 DEF ListItems, row, runs
    <2>1. TypeOK'
      BY FailTyped DEF TypeOK
    <2>2. ControlOK'
      BY DEF TypeOK, ControlOK
    <2>3. Faithful'
      BY DEF TypeOK, ControlOK, Faithful, Prefix
    <2>4. NothingNew
      BY DEF TypeOK, NothingNew, Somewhere, Shows
    <2>5. LessAhead
      BY DEF TypeOK, ControlOK, LessAhead, Future, Ahead
    <2> QED
      BY <2>1, <2>2, <2>3, <2>4, <2>5, QuietStep
  <1>3. CASE CancelRead(p)
    <2> USE <1>3 DEF CancelRead, At, row, pages
    <2>1. TypeOK'
      BY FailTyped DEF TypeOK
    <2>2. ControlOK'
      BY DEF TypeOK, ControlOK
    <2>3. Faithful'
      BY DEF TypeOK, ControlOK, Faithful, Prefix
    <2>4. NothingNew
      BY DEF TypeOK, NothingNew, Somewhere, Shows
    <2>5. LessAhead
      BY DEF TypeOK, ControlOK, LessAhead, Future, Ahead
    <2> QED
      BY <2>1, <2>2, <2>3, <2>4, <2>5, QuietStep
  <1>4. CASE ConnectionLost(p)
    <2> USE <1>4 DEF ConnectionLost, EndInError, End, row, runs
    <2>1. TypeOK'
      BY EmptySeq, FailTyped DEF TypeOK
    <2>2. ControlOK'
      BY DEF TypeOK, ControlOK
    <2>3. Faithful'
      BY EmptySeq, LenProperties DEF TypeOK, Faithful, Prefix
    <2>4. NothingNew
      BY EmptySeq DEF TypeOK, NothingNew, Somewhere, Shows
    <2>5. LessAhead
      BY DEF TypeOK, LessAhead, Future
    <2> QED
      BY <2>1, <2>2, <2>3, <2>4, <2>5, QuietStep
  <1>5. CASE ProcessRaises(p)
    <2> USE <1>5 DEF ProcessRaises, runs, pages
    <2>1. TypeOK'
      BY FailTyped DEF TypeOK
    <2>2. ControlOK'
      BY DEF TypeOK, ControlOK
    <2>3. Faithful'
      BY DEF TypeOK, ControlOK, Faithful, Prefix
    <2>4. NothingNew
      BY DEF TypeOK, NothingNew, Somewhere, Shows
    <2>5. LessAhead
      BY DEF TypeOK, ControlOK, LessAhead, Future, Ahead
    <2> QED
      BY <2>1, <2>2, <2>3, <2>4, <2>5, QuietStep
  <1> QED
    BY <1>1, <1>2, <1>3, <1>4, <1>5

\* Nobody sees that a job is lost.
LEMMA JobLostKept ==
  ASSUME IInv, JobLost
  PROVE  IInv'
  <1> USE StreamAssumption DEF IInv, JobLost, runs, pages
  <1>1. TypeOK'
    BY FailTyped DEF TypeOK
  <1>2. ControlOK'
    BY DEF ControlOK
  <1>3. Faithful'
    BY DEF Faithful, Prefix
  <1>4. NothingNew
    BY DEF NothingNew, Somewhere, Shows
  <1>5. LessAhead
    BY DEF LessAhead, Future
  <1> QED
    BY <1>1, <1>2, <1>3, <1>4, <1>5, QuietStep

LEMMA RemoveItemKept ==
  ASSUME IInv, NEW p \in Pages, RemoveItem(p)
  PROVE  IInv'
  <1> USE DEF IInv, RemoveItem, fate, runs
  <1>0. << >> \in Seq(Entries)
    BY EmptySeq
  <1>1. TypeOK'
    <2>1. CASE UNCHANGED <<status, logs, lost>>
      BY <2>1 DEF TypeOK
    <2>2. CASE status' = "deleted" /\ logs' = << >> /\ lost' = FALSE
      BY <1>0, <2>2 DEF TypeOK
    <2> QED
      BY <2>1, <2>2
  <1>2. ControlOK'
    <2>1. UNCHANGED <<pc, what>> /\ (status' = "deleted" \/ UNCHANGED <<status, logs, lost>>)
      OBVIOUS
    <2> QED
      BY <2>1 DEF ControlOK
  <1>3. Faithful'
    BY DEF TypeOK, Faithful, Prefix
  <1>4. NothingNew
    BY EmptySeq DEF TypeOK, NothingNew, Somewhere, Shows
  <1>5. LessAhead
    BY DEF TypeOK, LessAhead, Future
  <1> QED
    BY <1>1, <1>2, <1>3, <1>4, <1>5, QuietStep

LEMMA StartStreamKept ==
  ASSUME IInv, NEW p \in Pages, StartStream(p)
  PROVE  IInv'
  <1> USE DEF IInv, StartStream, row, fate, runs
  <1>0. << >> \in Seq(Entries) /\ Len(<< >>) = 0 /\ Len(logs) \in Nat
    BY EmptySeq, LenProperties DEF TypeOK
  <1>1. TypeOK'
    BY <1>0 DEF TypeOK
  <1>2. ControlOK'
    BY DEF TypeOK, ControlOK
  <1>3. Faithful'
    <2>1. \A q \in Pages : \/ sent'[q] = sent[q] /\ stream'[q] = stream[q]
                           \/ sent'[q] = << >> /\ stream'[q] = "open"
      <3>1. CASE UNCHANGED <<stream, sent>>
        BY <3>1
      <3>2. CASE stream' = [stream EXCEPT ![p] = "open"] /\ sent' = [sent EXCEPT ![p] = << >>]
        BY <3>2 DEF TypeOK
      <3> QED
        BY <3>1, <3>2
    <2>2. Prefix(<< >>, logs)
      BY <1>0 DEF Prefix
    <2> QED
      BY <2>1, <2>2 DEF Faithful
  <1>4. NothingNew
    <2>1. \A q \in Pages : sent'[q] = sent[q] \/ sent'[q] = << >>
      BY DEF TypeOK
    <2>2. \A i, e : ~ Shows(<< >>, i, e)
      BY <1>0 DEF Shows
    <2> QED
      BY <2>1, <2>2 DEF NothingNew, Somewhere, Shows
  <1>5. LessAhead
    BY DEF TypeOK, LessAhead, Future
  <1> QED
    BY <1>1, <1>2, <1>3, <1>4, <1>5, QuietStep

LEMMA StreamPollKept ==
  ASSUME IInv, NEW p \in Pages, StreamPoll(p)
  PROVE  IInv'
  <1> DEFINE m == sent[p] \o New(Len(sent[p]))
  <1> USE DEF IInv, row, fate, runs
  <1>1. /\ m \in Seq(Entries) /\ Len(sent[p]) \in Nat /\ Len(logs) \in Nat
        /\ Len(m) = IF Len(sent[p]) < Len(logs) THEN Len(logs) ELSE Len(sent[p])
        /\ \A i \in 1..Len(m) : m[i] = IF i <= Len(sent[p]) THEN sent[p][i] ELSE logs[i]
    BY Shown
  <1>2. /\ UNCHANGED <<status, logs, lost, enqueued, abandoned, failures, pc, what, copy, inbox>>
        /\ \A q \in Pages : q # p => sent'[q] = sent[q] /\ stream'[q] = stream[q]
        /\ \/ sent'[p] = << >> /\ stream'[p] = "error"
           \/ /\ sent'[p] = m /\ stream'[p] \in {"open", "complete"}
              /\ stream'[p] = "complete" => status = "done"
        /\ sent' = [sent EXCEPT ![p] = sent'[p]] /\ stream' = [stream EXCEPT ![p] = stream'[p]]
        /\ timer' \in [Pages -> BOOLEAN]
    BY DEF StreamPoll, EndInError, End, TypeOK
  <1> HIDE DEF m
  <1>3. << >> \in Seq(Entries) /\ Len(<< >>) = 0
    BY EmptySeq
  <1>4. TypeOK'
    <2>1. sent'[p] \in Seq(Entries) /\ stream'[p] \in {"closed", "open", "complete", "error"}
      BY <1>1, <1>2, <1>3
    <2>2. sent' \in [Pages -> Seq(Entries)]
      BY <1>2, <2>1 DEF TypeOK
    <2>3. stream' \in [Pages -> {"closed", "open", "complete", "error"}]
      BY <1>2, <2>1 DEF TypeOK
    <2> QED
      BY <1>2, <2>2, <2>3 DEF TypeOK
  <1>5. ControlOK'
    BY <1>2 DEF ControlOK
  <1>6. Faithful'
    <2> SUFFICES ASSUME ~ lost, status # "deleted"
                 PROVE  /\ Prefix(sent'[p], logs)
                        /\ stream'[p] = "complete" =>
                             \E i \in 1..Len(sent'[p]) : sent'[p][i].what = "complete"
      BY <1>2 DEF Faithful
    <2>1. Prefix(sent[p], logs)
      BY DEF Faithful
    <2>2. Len(m) = Len(logs) /\ \A i \in 1..Len(logs) : m[i] = logs[i]
      BY <1>1, <2>1 DEF Prefix
    <2>3. CASE sent'[p] = << >> /\ stream'[p] = "error"
      BY <1>1, <1>3, <2>3 DEF Prefix
    <2>4. CASE sent'[p] = m /\ (stream'[p] = "complete" => status = "done")
      BY <1>1, <2>2, <2>4 DEF Prefix, Faithful
    <2> QED
      BY <1>2, <2>3, <2>4
  <1>7. NothingNew
    <2> SUFFICES ASSUME NEW e, NEW i \in Nat, Shows(sent'[p], i, e)
                 PROVE  Shows(sent[p], i, e) \/ Shows(logs, i, e)
      BY <1>2 DEF NothingNew, Somewhere
    <2>1. sent'[p] = m
      BY <1>2, <1>3 DEF Shows
    <2> QED
      BY <1>1, <2>1 DEF Shows
  <1>8. LessAhead
    BY <1>2 DEF LessAhead, Future
  <1> QED
    BY <1>4, <1>5, <1>6, <1>7, <1>8, QuietStep

LEMMA CancelWriteKept ==
  ASSUME IInv, NEW p \in Pages, CancelWrite(p)
  PROVE  IInv'
  <1> DEFINE e == Entry(p)
             n == Len(copy[p]) + 1
  <1> USE StreamAssumption DEF IInv
  <1>1. /\ pc[p] = "write" /\ p \in Writers /\ p \notin Attempts
        /\ pc' = [pc EXCEPT ![p] = "over"] /\ what' = [what EXCEPT ![p] = "none"]
        /\ copy' = [copy EXCEPT ![p] = << >>]
        /\ UNCHANGED <<enqueued, abandoned, failures, stream, sent, inbox, timer>>
    BY DEF CancelWrite, At, Proceed, fate, pages, Writers
  <1>2. \/ logs' = logs /\ lost' = lost /\ status' = status
        \/ /\ logs' = Append(copy[p], e) /\ lost' = (lost \/ copy[p] # logs)
           /\ status' = "cancelled" /\ status # "deleted"
    BY DEF CancelWrite, WriteBack, e
  <1>3. what[p] = "cancel" /\ what[p] \in Kinds
    BY <1>1 DEF ControlOK, Kinds
  <1>4. /\ Append(copy[p], e) \in Seq(Entries) /\ n - 1 \in Nat
        /\ Len(Append(copy[p], e)) = n
        /\ \A i \in 1..(n - 1) : Append(copy[p], e)[i] = copy[p][i]
        /\ Append(copy[p], e)[n] = e
        /\ Len(copy[p]) = n - 1
    BY <1>1, <1>3, Written
  <1>5. TypeOK'
    <2>1. logs' \in Seq(Entries)
      BY <1>1, <1>2, <1>4 DEF TypeOK
    <2>2. lost' \in BOOLEAN
      BY <1>1, <1>2 DEF TypeOK
    <2>3. << >> \in Seq(Entries)
      BY EmptySeq
    <2>4. status' \in {status, "cancelled"}
      BY <1>2
    <2> QED
      BY <1>1, <2>1, <2>2, <2>3, <2>4 DEF TypeOK, Settled
  <1> HIDE DEF e, n
  <1>6. ControlOK'
    <2>1. ASSUME NEW b \in Attempts, ~ lost', status' # "deleted", pc'[b] = "markdone"
          PROVE  \E i \in 1..Len(logs') : logs'[i].what = "complete"
      <3>1. ~ lost /\ status # "deleted" /\ pc[b] = "markdone"
        BY <1>1, <1>2, <2>1 DEF TypeOK
      <3>2. \E i \in 1..Len(logs) : logs[i].what = "complete"
        BY <3>1 DEF ControlOK
      <3>3. CASE logs' = logs
        BY <3>2, <3>3
      <3>4. CASE logs' = Append(copy[p], e) /\ lost' = (lost \/ copy[p] # logs)
        <4>1. copy[p] = logs
          BY <2>1, <3>4
        <4> QED
          BY <1>4, <3>2, <3>4, <4>1
      <3> QED
        BY <1>2, <3>3, <3>4
    <2>2. ASSUME NEW b \in Attempts, pc'[b] \in {"log", "write"} PROVE what'[b] \in LogKinds
      BY <1>1, <2>2 DEF ControlOK, TypeOK, Writers
    <2>3. ASSUME NEW q \in Pages, pc'[q] = "write" PROVE what'[q] = "cancel"
      BY <1>1, <2>3 DEF ControlOK, TypeOK, Writers
    <2> QED
      BY <2>1, <2>2, <2>3 DEF ControlOK
  <1>7. Faithful'
    <2> SUFFICES ASSUME ~ lost', status' # "deleted" PROVE Faithful'
      BY DEF Faithful
    <2>0. CASE logs' = logs /\ lost' = lost /\ status' = status
      BY <1>1, <2>0 DEF Faithful
    <2> SUFFICES ASSUME ~ (logs' = logs /\ lost' = lost /\ status' = status) PROVE Faithful'
      BY <2>0
    <2>1. ~ lost /\ copy[p] = logs /\ logs' = Append(copy[p], e) /\ status # "deleted" /\ status' = "cancelled"
      BY <1>1, <1>2
    <2>2. /\ Len(logs) = n - 1 /\ Len(logs') = n
          /\ \A i \in 1..Len(logs) : logs'[i] = logs[i]
      BY <1>4, <2>1
    <2>3. \A q \in Pages : Prefix(sent[q], logs) => Prefix(sent[q], logs')
      <3>1. \A q \in Pages : Len(sent[q]) \in Nat
        BY LenProperties DEF TypeOK
      <3> QED
        BY <1>4, <2>2, <3>1 DEF Prefix
    <2> QED
      BY <1>1, <2>1, <2>3 DEF Faithful
  <1>8. NothingNew
    <2> SUFFICES ASSUME NEW b \in Attempts, NEW k \in Kinds, NEW i \in Nat,
                        Somewhere(i, [by |-> b, what |-> k])'
                 PROVE  Somewhere(i, [by |-> b, what |-> k])
      BY DEF NothingNew
    <2> DEFINE f == [by |-> b, what |-> k]
    <2>1. CASE Shows(logs', i, f)
      <3>1. CASE logs' = logs
        BY <2>1, <3>1 DEF Somewhere
      <3>2. CASE logs' = Append(copy[p], e)
        <4>1. i # n
          BY <1>1, <1>4, <2>1, <3>2 DEF Shows, e, Entry
        <4>2. i \in 1..(n - 1)
          BY <1>4, <2>1, <3>2, <4>1 DEF Shows
        <4> QED
          BY <1>1, <1>4, <2>1, <3>2, <4>2 DEF Somewhere, Shows
      <3> QED
        BY <1>2, <3>1, <3>2
    <2>2. ASSUME NEW x \in Writers, Shows(copy'[x], i, f) PROVE Somewhere(i, f)
      <3>1. x # p
        BY <1>1, <2>2, EmptySeq DEF TypeOK, Shows
      <3> QED
        BY <1>1, <2>2, <3>1 DEF TypeOK, Somewhere
    <2>3. ASSUME NEW q \in Pages, Shows(sent'[q], i, f) PROVE Somewhere(i, f)
      BY <1>1, <2>3 DEF Somewhere
    <2> QED
      BY <2>1, <2>2, <2>3 DEF Somewhere
  <1>9. LessAhead
    BY <1>1 DEF TypeOK, LessAhead, Future, Writers
  <1> QED
    BY <1>5, <1>6, <1>7, <1>8, <1>9, QuietStep

-----------------------------------------------------------------------------
LEMMA Begins == Init => IInv
  <1> SUFFICES ASSUME Init PROVE IInv
    OBVIOUS
  <1> USE DEF Init
  <1>0. << >> \in Seq(Entries) /\ Len(<< >>) = 0
    BY EmptySeq
  <1>1. TypeOK
    <2>1. 0 \in 0..MaxFailures
      BY StreamAssumption
    <2> QED
      BY <1>0, <2>1 DEF TypeOK
  <1>2. ControlOK
    BY StreamAssumption DEF ControlOK, Writers
  <1>3. Faithful
    BY <1>0 DEF Faithful, Prefix
  <1>4. OnePlace
    BY <1>0 DEF OnePlace, Somewhere, Shows
  <1> QED
    BY <1>1, <1>2, <1>3, <1>4 DEF IInv

LEMMA Kept == IInv /\ [Next]_vars => IInv'
  <1> SUFFICES ASSUME IInv, [Next]_vars PROVE IInv'
    OBVIOUS
  <1>1. ASSUME NEW a \in Attempts, RunBegin(a) \/ Run(a) \/ Raise(a) \/ BreakOff(a) PROVE IInv'
    BY <1>1, LogWriteKept, QuietRunKept
  <1>2. ASSUME NEW p \in Pages,
               \/ Page(p)
               \/ Process(p) \/ ProcessRaises(p) \/ ListItems(p) \/ CancelRead(p)
               \/ ConnectionLost(p)
        PROVE  IInv'
    BY <1>2, StreamPollKept, StartStreamKept, RemoveItemKept, CancelWriteKept, QuietPageKept DEF Page
  <1>3. CASE UNCHANGED vars
    <2> USE <1>3 DEF IInv, vars
    <2>1. TypeOK'
      BY DEF TypeOK
    <2>2. ControlOK'
      BY DEF ControlOK
    <2>3. Faithful'
      BY DEF Faithful, Prefix
    <2>4. NothingNew
      BY DEF NothingNew, Somewhere, Shows
    <2>5. LessAhead
      BY DEF LessAhead, Future
    <2> QED
      BY <2>1, <2>2, <2>3, <2>4, <2>5, QuietStep
  <1> QED
    BY <1>1, <1>2, <1>3, JobLostKept DEF Next

LEMMA Invariance == Spec => []IInv
  BY Begins, Kept, PTL DEF Spec

-----------------------------------------------------------------------------
\* TypeOK, for any executions and pages.
THEOREM StreamTypeCorrect == Spec => []TypeOK
  <1>1. IInv => TypeOK
    BY DEF IInv
  <1> QED
    BY <1>1, Invariance, PTL

\* NothingMissed: while no write of QueueManager.log or cancel has overwritten an entry and
\* none of log has failed, a page has been sent a prefix of the log by queue_stream, and one
\* that was sent complete has been sent the entry that says so, whatever status writes, jobs
\* and executions were lost.
THEOREM NothingIsMissed == Spec => []NothingMissed
  <1>1. IInv => NothingMissed
    <2> SUFFICES ASSUME IInv, ~ lost, NEW p \in Pages, status # "deleted"
                 PROVE  /\ Len(sent[p]) <= Len(logs)
                        /\ sent[p] = SubSeq(logs, 1, Len(sent[p]))
                        /\ stream[p] = "complete" =>
                             \E i \in 1..Len(sent[p]) : sent[p][i].what = "complete"
      BY DEF NothingMissed
    <2>1. Prefix(sent[p], logs) /\ sent[p] \in Seq(Entries) /\ logs \in Seq(Entries)
      BY DEF IInv, Faithful, TypeOK
    <2>2. sent[p] = SubSeq(logs, 1, Len(sent[p]))
      BY <2>1, PrefixIsSubSeq DEF Prefix
    <2> QED
      BY <2>1, <2>2 DEF IInv, Faithful, Prefix
  <1> QED
    BY <1>1, Invariance, PTL

\* NoLineTwice: however QueueManager.log and cancel overwrite each other's lists, a stream
\* never shows an entry of an execution twice.
THEOREM NoLineIsShownTwice == Spec => []NoLineTwice
  <1>1. IInv => NoLineTwice
    <2> SUFFICES ASSUME IInv, NEW p \in Pages, NEW i \in 1..Len(sent[p]), NEW j \in 1..Len(sent[p]),
                        sent[p][i] = sent[p][j], sent[p][i].by \in Attempts
                 PROVE  i = j
      BY DEF NoLineTwice
    <2>1. sent[p] \in Seq(Entries) /\ i \in Nat /\ j \in Nat
      BY DEF IInv, TypeOK
    <2>2. sent[p][i] \in Entries
      BY <2>1, ElementOfSeq
    <2>3. PICK a \in Attempts, k \in Kinds : sent[p][i] = [by |-> a, what |-> k]
      BY <2>2 DEF Entries
    <2>4. Somewhere(i, [by |-> a, what |-> k]) /\ Somewhere(j, [by |-> a, what |-> k])
      BY <2>3 DEF Somewhere, Shows
    <2> QED
      BY <2>1, <2>4 DEF IInv, OnePlace
  <1> QED
    BY <1>1, Invariance, PTL
=============================================================================
