------------------------ MODULE OfflineReportsProofs ------------------------
(***************************************************************************)
(* OfflineReports for any number of pages, reports, flushes and attempts:  *)
(* no saved report is lost but by the overwriting of Finish, a report has  *)
(* two rows only for the two reasons of DuplicatesExplained, and the badge *)
(* is right until another page writes the queue.                           *)
(*                                                                         *)
(* NotLost needs what every flush holds (Held, Keeps), DuplicatesExplained *)
(* needs who may still send a report (OnePost, Sole, NotSentYet); both     *)
(* need that no sender sends a report twice (FlushFresh, FormFresh).       *)
(***************************************************************************)
EXTENDS OfflineReports, TLAPS

InSeq(r, s) == \E i \in 1..Len(s) : s[i] = r
Distinct(s) == \A i, j \in 1..Len(s) : s[i] = s[j] => i = j
Clean(r) == r \notin unheard \union shared
Sent(x, r) == post[x][r] \in {"posted", "stored"}

\* The reports in the queue, and in any flush, are queued ones; the rest a flush keeps is
\* from what it has passed.
Held ==
    /\ \A i \in 1..Len(queue) : form[queue[i]] = "queued"
    /\ \A f \in Flushes : \A i \in 1..Len(pending[f]) : form[pending[f][i]] = "queued"
    /\ \A f \in Flushes : \A i \in 1..Len(remaining[f]) :
         \E j \in 1..Len(pending[f]) : j < pos[f] /\ remaining[f][i] = pending[f][j]

\* A flush that does not run holds nothing; one that awaits an answer is at a report.
Locals ==
    \A f \in Flushes :
        /\ ~Running(f) => pending[f] = <<>> /\ remaining[f] = <<>> /\ pos[f] = 1
        /\ Running(f) => page[f] \in Tabs
        /\ run[f] = "await" => pos[f] <= Len(pending[f])

\* A form holds a report from its first submission until it is settled.
Forms ==
    \A r \in Reports :
        /\ at[r] \in Tabs => form[r] \in {"uploading", "posted", "failed"}
        /\ form[r] \in {"uploading", "posted"} => tries[r] \in Attempts

\* What a sender has not come to yet, it has not sent.
FlushFresh ==
    /\ \A f \in Flushes : run[f] = "idle" => \A r \in Reports : post[f][r] = "none"
    /\ \A f \in Flushes : Running(f) =>
         \A i \in 1..Len(pending[f]) :
             i > pos[f] \/ (i = pos[f] /\ run[f] = "next") => post[f][pending[f][i]] = "none"

FormFresh ==
    /\ \A r \in Reports : \A n \in Attempts : n > tries[r] => post[n][r] = "none"
    /\ \A r \in Reports : form[r] = "uploading" => post[tries[r]][r] = "none"

\* A running flush still holds every saved report that the server has not.
Keeps ==
    \A r \in Reports : form[r] = "queued" /\ r \notin exposed /\ ~Stored(r) =>
        /\ InSeq(r, queue)
        /\ \A f \in Flushes : Running(f) =>
             \/ InSeq(r, remaining[f])
             \/ \E i \in 1..Len(pending[f]) : i >= pos[f] /\ pending[f][i] = r

\* A clean report has been sent once.
OnePost ==
    \A r \in Reports : Clean(r) => \A x, y \in Senders : Sent(x, r) /\ Sent(y, r) => x = y

\* It is held by one running flush.
Sole ==
    \A r \in Reports : Clean(r) =>
        \A f, g \in Flushes : InSeq(r, pending[f]) /\ InSeq(r, pending[g]) => f = g

\* Once it was sent, only the flush that did so still holds it, and will not write it back.
NotSentYet ==
    \A r \in Reports : Clean(r) =>
        \A x \in Senders : Sent(x, r) =>
            /\ InSeq(r, queue) => x \in Flushes /\ InSeq(r, pending[x])
            /\ \A f \in Flushes : InSeq(r, pending[f]) => f = x
            /\ \A f \in Flushes : ~InSeq(r, remaining[f])

\* A report whose form may send it, or may queue it, has not been sent.
FormUnsent ==
    \A r \in Reports : Clean(r) =>
        /\ form[r] \in {"idle", "uploading", "failed"} => \A x \in Senders : ~Sent(x, r)
        /\ form[r] = "posted" => \A x \in Senders : Sent(x, r) => x = tries[r]

IInv ==
    /\ TypeOK /\ Held /\ Locals /\ Forms /\ FlushFresh /\ FormFresh /\ Keeps
    /\ OnePost /\ Sole /\ NotSentYet /\ FormUnsent /\ BadgeIsQueue

-----------------------------------------------------------------------------
(***************************************************************************)
(* Facts about sequences, and about the operators several actions share.   *)
(***************************************************************************)
LEMMA SeqFacts ==
    ASSUME NEW S, NEW s \in Seq(S)
    PROVE  /\ Len(s) \in Nat
           /\ \A i \in 1..Len(s) : s[i] \in S
           /\ IsInjective(s) <=> Distinct(s)
           /\ \A r : r \in Range(s) <=> InSeq(r, s)
<1>1. Len(s) \in Nat /\ DOMAIN s = 1..Len(s) /\ \A i \in 1..Len(s) : s[i] \in S
  OBVIOUS
<1>2. QED
  BY <1>1 DEF IsInjective, Range, Distinct, InSeq

LEMMA AppendFacts ==
    ASSUME NEW S, NEW s \in Seq(S), NEW x \in S
    PROVE  /\ Append(s, x) \in Seq(S)
           /\ Len(Append(s, x)) = Len(s) + 1
           /\ \A i \in 1..Len(s) : Append(s, x)[i] = s[i]
           /\ Append(s, x)[Len(s) + 1] = x
           /\ \A r : InSeq(r, Append(s, x)) <=> InSeq(r, s) \/ r = x
           /\ Distinct(s) /\ ~InSeq(x, s) => Distinct(Append(s, x))
<1>1. /\ Append(s, x) \in Seq(S)
      /\ Len(s) \in Nat
      /\ Len(Append(s, x)) = Len(s) + 1
      /\ \A i \in 1..Len(s) : Append(s, x)[i] = s[i]
      /\ Append(s, x)[Len(s) + 1] = x
  OBVIOUS
<1>2. \A i : i \in 1..(Len(s) + 1) <=> i \in 1..Len(s) \/ i = Len(s) + 1
  BY <1>1
<1>3. QED
  BY <1>1, <1>2 DEF InSeq, Distinct

LEMMA EmptyFacts ==
    /\ <<>> \in Seq(Reports) /\ Len(<<>>) = 0 /\ IsInjective(<<>>)
    /\ \A r : ~InSeq(r, <<>>)
<1>1. <<>> \in Seq(Reports) /\ Len(<<>>) = 0 /\ DOMAIN <<>> = 1..0
  OBVIOUS
<1>2. QED
  BY <1>1 DEF IsInjective, InSeq

\* What the type invariant says of the queue and of what the flushes hold.
LEMMA TypeFacts ==
    ASSUME TypeOK
    PROVE  /\ queue \in Seq(Reports) /\ Len(queue) \in Nat /\ Distinct(queue)
           /\ \A i \in 1..Len(queue) : queue[i] \in Reports
           /\ \A r : r \in Range(queue) <=> InSeq(r, queue)
           /\ \A f \in Flushes :
                /\ pending[f] \in Seq(Reports) /\ remaining[f] \in Seq(Reports)
                /\ Len(pending[f]) \in Nat /\ Len(remaining[f]) \in Nat
                /\ pos[f] \in Nat /\ pos[f] # 0
                /\ Distinct(pending[f]) /\ Distinct(remaining[f])
                /\ \A i \in 1..Len(pending[f]) : pending[f][i] \in Reports
                /\ \A i \in 1..Len(remaining[f]) : remaining[f][i] \in Reports
                /\ \A r : r \in Range(pending[f]) <=> InSeq(r, pending[f])
<1>1. /\ queue \in Seq(Reports) /\ IsInjective(queue)
      /\ \A f \in Flushes :
           /\ pending[f] \in Seq(Reports) /\ remaining[f] \in Seq(Reports)
           /\ IsInjective(pending[f]) /\ IsInjective(remaining[f])
           /\ pos[f] \in Nat /\ pos[f] # 0
  BY DEF TypeOK
<1>2. QED
  BY <1>1, SeqFacts

LEMMA SendFacts ==
    ASSUME TypeOK, NEW x \in Senders, NEW r \in Reports, Send(x, r)
    PROVE  /\ post' \in [Senders -> [Reports -> {"none", "posted", "stored", "refused"}]]
           /\ post'[x][r] \in {"posted", "refused"}
           /\ \A y \in Senders, q \in Reports : y # x \/ q # r => post'[y][q] = post[y][q]
<1>1. CASE post' = [post EXCEPT ![x][r] = "posted"]
  BY <1>1 DEF TypeOK
<1>2. CASE post' = [post EXCEPT ![x][r] = "refused"]
  BY <1>2 DEF TypeOK
<1>3. QED
  BY <1>1, <1>2 DEF Send

LEMMA InsertFacts ==
    ASSUME TypeOK, NEW x \in Senders, NEW r \in Reports, Insert(x, r)
    PROVE  /\ post' \in [Senders -> [Reports -> {"none", "posted", "stored", "refused"}]]
           /\ post[x][r] = "posted" /\ post'[x][r] = "stored"
           /\ \A y \in Senders, q \in Reports : y # x \/ q # r => post'[y][q] = post[y][q]
BY DEF TypeOK, Insert

LEMMA EndFacts ==
    ASSUME TypeOK, NEW fs \in SUBSET Flushes, End(fs)
    PROVE  /\ run' \in [Flushes -> {"idle", "next", "await", "done"}]
           /\ page' \in [Flushes -> Tabs \union {"nowhere"}]
           /\ pending' \in [Flushes -> Seq(Reports)] /\ remaining' \in [Flushes -> Seq(Reports)]
           /\ \A f \in Flushes : IsInjective(pending'[f]) /\ IsInjective(remaining'[f])
           /\ pos' \in [Flushes -> Nat \ {0}]
           /\ \A f \in fs : /\ run'[f] = "done" /\ pos'[f] = 1
                            /\ pending'[f] = <<>> /\ remaining'[f] = <<>>
           /\ \A f \in Flushes \ fs : /\ run'[f] = run[f] /\ page'[f] = page[f] /\ pos'[f] = pos[f]
                                      /\ pending'[f] = pending[f] /\ remaining'[f] = remaining[f]
BY EmptyFacts DEF TypeOK, End

\* The reports' story without the pages' part.
Flow ==
    /\ Held /\ Locals /\ Forms /\ FlushFresh /\ FormFresh /\ Keeps
    /\ OnePost /\ Sole /\ NotSentYet /\ FormUnsent

\* Flushes and queue are not disturbed by a step of the forms or of the server.
LEMMA Beside ==
    ASSUME TypeOK, Flow, UNCHANGED <<queue, flushes, exposed, shared>>,
           \A q \in Reports : q \in unheard => q \in unheard',
           \A q \in Reports : form'[q] = "queued" <=> form[q] = "queued",
           \A y \in Senders, q \in Reports : post[y][q] = "stored" => post'[y][q] = "stored",
           \A f \in Flushes, q \in Reports : post'[f][q] = "none" <=> post[f][q] = "none"
    PROVE  Held' /\ Locals' /\ FlushFresh' /\ Keeps' /\ Sole'
<1>1. /\ queue' = queue /\ run' = run /\ page' = page /\ pending' = pending /\ pos' = pos
      /\ remaining' = remaining /\ exposed' = exposed /\ shared' = shared
  BY DEF flushes
<1>2. /\ \A i \in 1..Len(queue) : queue[i] \in Reports
      /\ \A f \in Flushes : \A i \in 1..Len(pending[f]) : pending[f][i] \in Reports
  BY TypeFacts
<1>3. Held'
  BY <1>1, <1>2 DEF Flow, Held
<1>4. Locals'
  BY <1>1 DEF Flow, Locals, Running
<1>5. FlushFresh'
  BY <1>1, <1>2 DEF Flow, FlushFresh, Running
<1>6. Keeps'
  BY <1>1 DEF Flow, Keeps, Stored, Running, InSeq
<1>7. Sole'
  BY <1>1 DEF Flow, Sole, InSeq, Clean
<1>8. QED
  BY <1>3, <1>4, <1>5, <1>6, <1>7

\* Nothing is disturbed when the forms rest as well.
LEMMA Gentle ==
    ASSUME TypeOK, Flow, UNCHANGED <<queue, forms, flushes, notes>>,
           \A y \in Senders, q \in Reports :
               /\ post'[y][q] = "none" <=> post[y][q] = "none"
               /\ Sent(y, q)' <=> Sent(y, q)
               /\ post[y][q] = "stored" => post'[y][q] = "stored"
    PROVE  Flow'
<1>1. /\ queue' = queue /\ form' = form /\ at' = at /\ tries' = tries
      /\ pending' = pending /\ remaining' = remaining
      /\ exposed' = exposed /\ shared' = shared /\ unheard' = unheard
  BY DEF forms, flushes, notes
<1>2. (\A f \in Flushes : f \in Senders) /\ (\A n \in Attempts : n \in Senders)
  BY DEF Senders
<1>3. Held' /\ Locals' /\ FlushFresh' /\ Keeps' /\ Sole'
  BY <1>1, <1>2, Beside
<1>4. Forms'
  BY <1>1 DEF Flow, Forms
<1>5. FormFresh'
  BY <1>1, <1>2 DEF Flow, FormFresh, Forms
<1>6. OnePost' /\ NotSentYet' /\ FormUnsent'
  BY <1>1 DEF Flow, OnePost, NotSentYet, FormUnsent, Clean, InSeq
<1>7. QED
  BY <1>3, <1>4, <1>5, <1>6 DEF Flow

\* A report that no form has handed over is in no flush and not in the queue.
LEMMA NotHeld ==
    ASSUME Held, NEW r \in Reports, form[r] # "queued"
    PROVE  /\ ~InSeq(r, queue)
           /\ \A f \in Flushes : ~InSeq(r, pending[f]) /\ ~InSeq(r, remaining[f])
BY DEF Held, InSeq

-----------------------------------------------------------------------------
(***************************************************************************)
(* The forms.                                                              *)
(***************************************************************************)
LEMMA PostFormFlow ==
    ASSUME TypeOK, Flow, NEW r \in Reports, PostForm(r)
    PROVE  Flow'
<1>1. /\ form[r] = "uploading" /\ form' = [form EXCEPT ![r] = "posted"]
      /\ UNCHANGED <<queue, at, tries, flushes, exposed, shared, unheard>>
  BY DEF PostForm, notes
<1>2. /\ pending' = pending /\ remaining' = remaining
  BY <1>1 DEF flushes
<1>3. tries[r] \in Attempts /\ tries[r] \in Senders /\ tries[r] \notin Flushes
  BY <1>1, ReportsAssumption DEF Flow, Forms, Senders, Attempts
<1>5. /\ post'[tries[r]][r] \in {"posted", "refused"}
      /\ \A y \in Senders, q \in Reports : y # tries[r] \/ q # r => post'[y][q] = post[y][q]
  <2>1. PICK x \in Senders : x = tries[r]
    BY <1>3
  <2>2. Send(x, r)
    BY <2>1 DEF PostForm
  <2>3. QED
    BY <2>1, <2>2, SendFacts
<1>6. /\ form'[r] = "posted" /\ \A q \in Reports \ {r} : form'[q] = form[q]
  BY <1>1 DEF TypeOK
<1>7. (\A f \in Flushes : f \in Senders) /\ (\A n \in Attempts : n \in Senders)
  BY DEF Senders
<1>8. post[tries[r]][r] = "none"
  BY <1>1 DEF Flow, FormFresh
<1>9. Held' /\ Locals' /\ FlushFresh' /\ Keeps' /\ Sole'
  BY <1>1, <1>3, <1>5, <1>6, <1>7, <1>8, Beside
<1>10. Forms'
  BY <1>1, <1>3, <1>6 DEF Flow, Forms
<1>11. FormFresh'
  <2>1. \A q \in Reports : tries[q] \in Nat
    BY ReportsAssumption DEF TypeOK
  <2>2. ASSUME NEW q \in Reports, NEW n \in Attempts, n > tries[q]
        PROVE  post'[n][q] = "none"
    <3>1. n # tries[q] \/ q # r
      BY <2>1, <2>2
    <3>2. n # tries[r] \/ q # r
      BY <3>1
    <3>3. QED
      BY <1>5, <1>7, <2>2, <3>2 DEF Flow, FormFresh
  <2>3. ASSUME NEW q \in Reports, form'[q] = "uploading"
        PROVE  post'[tries[q]][q] = "none"
    BY <1>5, <1>6, <1>7, <2>3 DEF Flow, FormFresh, Forms
  <2>4. QED
    BY <1>1, <2>2, <2>3 DEF FormFresh
<1>12. \A x \in Senders : Clean(r) => ~Sent(x, r)
  BY <1>1 DEF Flow, FormUnsent
<1>13. \A q \in Reports : Clean(q)' <=> Clean(q)
  BY <1>1 DEF Clean
<1>14. OnePost'
  BY <1>5, <1>12, <1>13 DEF Flow, OnePost, Sent
<1>15. NotSentYet'
  <2>1. ~InSeq(r, queue) /\ \A f \in Flushes : ~InSeq(r, pending[f]) /\ ~InSeq(r, remaining[f])
    BY <1>1, NotHeld DEF Flow
  <2>2. QED
    BY <1>1, <1>2, <1>5, <1>13, <2>1 DEF Flow, NotSentYet, Sent, InSeq
<1>16. FormUnsent'
  BY <1>1, <1>5, <1>6, <1>12, <1>13 DEF Flow, FormUnsent, Sent
<1>17. QED
  BY <1>9, <1>10, <1>11, <1>14, <1>15, <1>16 DEF Flow

\* The steps of the forms that post nothing: the reports that move were not clean, had not
\* been sent, or are settled.
LEMMA QuietForms ==
    ASSUME TypeOK, Flow, UNCHANGED <<queue, flushes, post, exposed, shared>>,
           \A q \in Reports : q \in unheard => q \in unheard',
           \A q \in Reports :
             \/ form'[q] = form[q] /\ tries'[q] = tries[q]
             \/ /\ form'[q] \in {"told", "dropped"} /\ form[q] # "queued" /\ tries'[q] = tries[q]
             \/ /\ form'[q] = "failed" /\ tries'[q] = tries[q] /\ tries[q] \in Senders
                /\ \/ form[q] = "uploading"
                   \/ form[q] = "posted" /\ (post[tries[q]][q] \in {"none", "refused"} \/ q \in unheard')
             \/ /\ form'[q] = "uploading" /\ form[q] \in {"idle", "failed"}
                /\ tries'[q] \in Attempts /\ tries'[q] > tries[q],
           \A q \in Reports : at'[q] \in Tabs => form'[q] \in {"uploading", "posted", "failed"}
    PROVE  Flow'
<1>1. pending' = pending /\ remaining' = remaining
  BY DEF flushes
<1>2. (\A f \in Flushes : f \in Senders) /\ (\A n \in Attempts : n \in Senders)
  BY DEF Senders
<1>3. Held' /\ Locals' /\ FlushFresh' /\ Keeps' /\ Sole'
  BY Beside
<1>4. Forms'
  BY DEF Flow, Forms
<1>5. FormFresh'
  <2>1. \A q \in Reports : tries[q] \in Nat
    BY ReportsAssumption DEF TypeOK
  <2>2. \A q \in Reports : tries'[q] = tries[q] \/ (tries'[q] \in Attempts /\ tries'[q] > tries[q])
    OBVIOUS
  <2>3. ASSUME NEW q \in Reports, NEW n \in Attempts, n > tries'[q]
        PROVE  post[n][q] = "none"
    <3>1. n > tries[q]
      BY <2>1, <2>2, <2>3 DEF Attempts
    <3>2. QED
      BY <3>1 DEF Flow, FormFresh
  <2>4. ASSUME NEW q \in Reports, form'[q] = "uploading"
        PROVE  post[tries'[q]][q] = "none"
    BY <2>4 DEF Flow, FormFresh
  <2>5. QED
    BY <2>3, <2>4 DEF FormFresh
<1>6. \A q \in Reports : Clean(q)' => Clean(q) /\ q \notin unheard'
  BY DEF Clean
<1>7. OnePost'
  BY <1>6 DEF Flow, OnePost, Sent
<1>8. NotSentYet'
  BY <1>1, <1>6 DEF Flow, NotSentYet, Sent, InSeq
<1>9. FormUnsent'
  <2>1. \A q \in Reports : \A x \in Senders : Sent(x, q)' <=> Sent(x, q)
    BY DEF Sent
  <2>2. ASSUME NEW q \in Reports, Clean(q)', form'[q] \in {"idle", "uploading", "failed"}
        PROVE  \A x \in Senders : ~Sent(x, q)
    BY <1>6, <2>2 DEF Flow, FormUnsent, Sent
  <2>3. ASSUME NEW q \in Reports, Clean(q)', form'[q] = "posted"
        PROVE  \A x \in Senders : Sent(x, q) => x = tries'[q]
    BY <1>6, <2>3 DEF Flow, FormUnsent, Sent
  <2>4. QED
    BY <2>1, <2>2, <2>3 DEF FormUnsent
<1>10. QED
  BY <1>3, <1>4, <1>5, <1>7, <1>8, <1>9 DEF Flow

LEMMA SubmittedFlow ==
    ASSUME TypeOK, Flow, NEW r \in Reports, Submitted(r)
    PROVE  Flow'
<1>1. /\ form[r] = "posted" /\ form' = [form EXCEPT ![r] = "told"]
      /\ at' = [at EXCEPT ![r] = "nowhere"]
      /\ UNCHANGED <<queue, tries, flushes, post, exposed, shared, unheard>>
  BY DEF Submitted, Settle, notes
<1>2. /\ form'[r] = "told" /\ \A q \in Reports \ {r} : form'[q] = form[q] /\ at'[q] = at[q]
      /\ at'[r] \notin Tabs
  BY <1>1, ReportsAssumption DEF TypeOK
<1>3. QED
  BY <1>1, <1>2, QuietForms DEF Flow, Forms

LEMMA SubmitFailsFlow ==
    ASSUME TypeOK, Flow, NEW r \in Reports, SubmitFails(r)
    PROVE  Flow'
<1>1. /\ form[r] \in {"uploading", "posted"}
      /\ UNCHANGED <<queue, tries, flushes, post, exposed, shared>>
  BY DEF SubmitFails
<1>2. /\ \A q \in Reports : q \in unheard => q \in unheard'
      /\ \/ form[r] = "uploading"
         \/ form[r] = "posted" /\ (post[tries[r]][r] \in {"none", "refused"} \/ r \in unheard')
  BY DEF SubmitFails, Fails
<1>3. \/ form' = [form EXCEPT ![r] = "dropped"] /\ at' = [at EXCEPT ![r] = "nowhere"]
      \/ form' = [form EXCEPT ![r] = "failed"] /\ at' = at
  BY DEF SubmitFails, Settle
<1>4. /\ \A q \in Reports \ {r} : form'[q] = form[q] /\ at'[q] = at[q]
      /\ \/ form'[r] = "dropped" /\ at'[r] \notin Tabs
         \/ form'[r] = "failed"
  BY <1>3, ReportsAssumption DEF TypeOK
<1>5. tries[r] \in Senders
  BY <1>1 DEF Flow, Forms, Senders
<1>6. QED
  BY <1>1, <1>2, <1>4, <1>5, QuietForms DEF Flow, Forms

LEMMA SubmitFlow ==
    ASSUME TypeOK, Flow, NEW t \in Tabs, NEW r \in Reports, Submit(t, r)
    PROVE  Flow'
<1>1. /\ form[r] \in {"idle", "failed"}
      /\ UNCHANGED <<queue, flushes, post, exposed, shared, unheard>>
  BY DEF Submit, MaySubmit, notes
<1>2. PICK n \in Attempts : tries[r] < n /\ tries' = [tries EXCEPT ![r] = n]
  BY DEF Submit
<1>3. /\ \A q \in Reports \ {r} : tries'[q] = tries[q]
      /\ tries'[r] \in Attempts /\ tries'[r] > tries[r]
  BY <1>2, ReportsAssumption DEF TypeOK, Attempts
<1>4. /\ form'[r] = "uploading" /\ at'[r] = t
      /\ \A q \in Reports \ {r} :
           \/ form'[q] = form[q] /\ at'[q] = at[q]
           \/ form[q] = "failed" /\ form'[q] = "dropped" /\ at'[q] = "nowhere"
  BY DEF Submit, Fill
<1>5. QED
  BY <1>1, <1>3, <1>4, QuietForms, ReportsAssumption DEF Flow, Forms

\* A report queued while no flush runs is in none; one queued while a flush runs is exposed.
LEMMA QueueFlow ==
    ASSUME TypeOK, Flow, NEW t \in Tabs, NEW r \in Reports, QueueOfflineReport(t, r)
    PROVE  Flow'
<1>1. /\ form[r] \in {"idle", "failed"} /\ queue' = Append(queue, r)
      /\ exposed' = IF \E f \in Flushes : Running(f) THEN exposed \union {r} ELSE exposed
      /\ UNCHANGED <<tries, flushes, post, shared, unheard>>
  BY DEF QueueOfflineReport, MaySubmit
<1>2. /\ run' = run /\ page' = page /\ pending' = pending /\ pos' = pos /\ remaining' = remaining
  BY <1>1 DEF flushes
<1>3. /\ form'[r] = "queued" /\ at'[r] = "nowhere"
      /\ \A q \in Reports \ {r} :
           \/ form'[q] = form[q] /\ at'[q] = at[q]
           \/ form[q] = "failed" /\ form'[q] = "dropped" /\ at'[q] = "nowhere"
  BY DEF QueueOfflineReport, Fill
<1>4. /\ Len(queue) \in Nat /\ Len(queue') = Len(queue) + 1 /\ queue'[Len(queue) + 1] = r
      /\ \A i \in 1..Len(queue) : queue'[i] = queue[i] /\ queue[i] \in Reports
      /\ \A q : InSeq(q, queue') <=> InSeq(q, queue) \/ q = r
  BY <1>1, TypeFacts, AppendFacts
<1>5. \A f \in Flushes : \A i \in 1..Len(pending[f]) : pending[f][i] \in Reports
  BY TypeFacts
<1>6. ~InSeq(r, queue) /\ \A f \in Flushes : ~InSeq(r, pending[f]) /\ ~InSeq(r, remaining[f])
  BY <1>1, NotHeld DEF Flow
<1>7. (\A f \in Flushes : f \in Senders) /\ (\A n \in Attempts : n \in Senders)
  BY DEF Senders
<1>8. Held'
  <2>1. \A q \in Reports : form[q] = "queued" => form'[q] = "queued"
    BY <1>1, <1>3
  <2>2. \A i \in 1..Len(queue') : i \in 1..Len(queue) \/ i = Len(queue) + 1
    BY <1>4
  <2>3. \A i \in 1..Len(queue') : form'[queue'[i]] = "queued"
    BY <1>3, <1>4, <2>1, <2>2 DEF Flow, Held
  <2>4. QED
    BY <1>2, <1>5, <2>1, <2>3 DEF Flow, Held
<1>9. Locals'
  BY <1>2 DEF Flow, Locals, Running
<1>10. Forms'
  BY <1>1, <1>3, ReportsAssumption DEF Flow, Forms
<1>11. FlushFresh'
  BY <1>1, <1>2 DEF Flow, FlushFresh, Running
<1>12. FormFresh'
  BY <1>1, <1>3 DEF Flow, FormFresh
<1>13. Keeps'
  <2>1. \A q \in Reports : form'[q] = "queued" /\ q # r => form[q] = "queued"
    BY <1>3
  <2>2. \A q \in Reports : q \in exposed => q \in exposed'
    BY <1>1
  <2>3. r \notin exposed' => \A f \in Flushes : ~Running(f)
    BY <1>1
  <2>4. ASSUME NEW q \in Reports, form'[q] = "queued", q \notin exposed', ~Stored(q), q # r
        PROVE  /\ InSeq(q, queue)
               /\ \A f \in Flushes : Running(f) =>
                    \/ InSeq(q, remaining[f])
                    \/ \E i \in 1..Len(pending[f]) : i >= pos[f] /\ pending[f][i] = q
    BY <2>1, <2>2, <2>4 DEF Flow, Keeps
  <2>5. \A q \in Reports : Stored(q)' <=> Stored(q)
    BY <1>1 DEF Stored
  <2>6. \A f \in Flushes : Running(f)' <=> Running(f)
    BY <1>2 DEF Running
  <2>7. \A q : \A f \in Flushes : InSeq(q, remaining[f])' <=> InSeq(q, remaining[f])
    BY <1>2 DEF InSeq
  <2>8. \A q : InSeq(q, queue)' <=> InSeq(q, queue')
    BY DEF InSeq
  <2>9. QED
    BY <1>2, <1>4, <2>3, <2>4, <2>5, <2>6, <2>7, <2>8 DEF Keeps
<1>14. \A q \in Reports : Clean(q)' <=> Clean(q)
  BY <1>1 DEF Clean
<1>15. \A q \in Reports : \A x \in Senders : Sent(x, q)' <=> Sent(x, q)
  BY <1>1 DEF Sent
<1>16. OnePost'
  BY <1>14, <1>15 DEF Flow, OnePost
<1>17. Sole'
  BY <1>2, <1>14 DEF Flow, Sole, InSeq
<1>18. NotSentYet'
  <2>1. Clean(r) => \A x \in Senders : ~Sent(x, r)
    BY <1>1 DEF Flow, FormUnsent
  <2>2. /\ \A q : InSeq(q, queue)' <=> InSeq(q, queue')
        /\ \A q : \A f \in Flushes : /\ InSeq(q, remaining[f])' <=> InSeq(q, remaining[f])
                                     /\ InSeq(q, pending[f])' <=> InSeq(q, pending[f])
    BY <1>2 DEF InSeq
  <2>3. ASSUME NEW q \in Reports, NEW x \in Senders, Clean(q), Sent(x, q)
        PROVE  /\ InSeq(q, queue)' => x \in Flushes /\ InSeq(q, pending[x])
               /\ \A f \in Flushes : InSeq(q, pending[f]) => f = x
               /\ \A f \in Flushes : ~InSeq(q, remaining[f])
    BY <1>4, <2>1, <2>2, <2>3 DEF Flow, NotSentYet
  <2>4. QED
    BY <1>14, <1>15, <2>2, <2>3 DEF NotSentYet
<1>19. FormUnsent'
  BY <1>1, <1>3, <1>14, <1>15 DEF Flow, FormUnsent
<1>20. QED
  BY <1>8, <1>9, <1>10, <1>11, <1>12, <1>13, <1>16, <1>17, <1>18, <1>19 DEF Flow

-----------------------------------------------------------------------------
(***************************************************************************)
(* The flushes.                                                            *)
(***************************************************************************)

\* Reading the queue gives a report a second holder only if it is not clean then.
LEMMA HandleFlow ==
    ASSUME TypeOK, Flow, NEW t \in Tabs, NEW f \in Flushes, HandleOnline(t, f)
    PROVE  Flow'
<1>1. /\ run[f] = "idle" /\ run' = [run EXCEPT ![f] = "next"]
      /\ page' = [page EXCEPT ![f] = t] /\ pending' = [pending EXCEPT ![f] = queue]
      /\ shared' = shared \union
                     {r \in Range(queue) : \E g \in Flushes : Running(g) /\ r \in Range(pending[g])}
      /\ UNCHANGED <<queue, form, at, tries, pos, remaining, post, exposed, unheard>>
  BY DEF HandleOnline, forms
<1>2. /\ run'[f] = "next" /\ page'[f] = t /\ pending'[f] = queue
      /\ \A g \in Flushes \ {f} : run'[g] = run[g] /\ page'[g] = page[g] /\ pending'[g] = pending[g]
  BY <1>1 DEF TypeOK
<1>3. ~Running(f) /\ pos[f] = 1 /\ remaining[f] = <<>> /\ Len(remaining[f]) = 0
  BY <1>1, EmptyFacts DEF Running, Flow, Locals
<1>4. /\ Running(f)' /\ \A g \in Flushes \ {f} : Running(g)' <=> Running(g)
  BY <1>2 DEF Running
<1>5. /\ Len(queue) \in Nat /\ \A i \in 1..Len(queue) : queue[i] \in Reports
      /\ \A r : r \in Range(queue) <=> InSeq(r, queue)
      /\ \A g \in Flushes : \A r : r \in Range(pending[g]) <=> InSeq(r, pending[g])
  BY TypeFacts
<1>6. /\ \A r : InSeq(r, queue)' <=> InSeq(r, queue)
      /\ \A r : \A g \in Flushes : InSeq(r, remaining[g])' <=> InSeq(r, remaining[g])
      /\ \A r : InSeq(r, pending[f])' <=> InSeq(r, queue)
      /\ \A r : \A g \in Flushes \ {f} : InSeq(r, pending[g])' <=> InSeq(r, pending[g])
  BY <1>1, <1>2 DEF InSeq
<1>7. \A r : \A g \in Flushes : InSeq(r, pending[g]) => Running(g)
  BY EmptyFacts DEF Flow, Locals
<1>8. ASSUME NEW r \in Reports, Clean(r)'
      PROVE  /\ Clean(r)
             /\ \A g \in Flushes : InSeq(r, queue) => ~InSeq(r, pending[g])
  BY <1>1, <1>5, <1>7, <1>8 DEF Clean
<1>9. Held'
  BY <1>1, <1>2, <1>3 DEF Flow, Held
<1>10. Locals'
  <2>1. Running(f)' /\ page'[f] \in Tabs /\ run'[f] # "await"
    BY <1>2, <1>4
  <2>2. QED
    BY <1>1, <1>2, <1>4, <2>1 DEF Flow, Locals
<1>11. Forms' /\ FormFresh'
  BY <1>1 DEF Flow, Forms, FormFresh
<1>12. FlushFresh'
  BY <1>1, <1>2, <1>4, <1>5 DEF Flow, FlushFresh
<1>13. Keeps'
  <2>1. ASSUME NEW r \in Reports, form[r] = "queued", r \notin exposed, ~Stored(r)
        PROVE  /\ InSeq(r, queue)
               /\ \E i \in 1..Len(queue) : i >= pos[f] /\ queue[i] = r
               /\ \A g \in Flushes : Running(g) =>
                    \/ InSeq(r, remaining[g])
                    \/ \E i \in 1..Len(pending[g]) : i >= pos[g] /\ pending[g][i] = r
    BY <1>3, <1>5, <2>1 DEF Flow, Keeps, InSeq
  <2>2. \A r \in Reports : Stored(r)' <=> Stored(r)
    BY <1>1 DEF Stored
  <2>3. QED
    BY <1>1, <1>2, <1>4, <1>6, <2>1, <2>2 DEF Keeps
<1>14. \A r \in Reports : \A x \in Senders : Sent(x, r)' <=> Sent(x, r)
  BY <1>1 DEF Sent
<1>15. OnePost'
  BY <1>8, <1>14 DEF Flow, OnePost
<1>16. Sole'
  BY <1>6, <1>8 DEF Flow, Sole
<1>17. NotSentYet'
  <2>1. ASSUME NEW r \in Reports, Clean(r)', NEW x \in Senders, Sent(x, r)
        PROVE  /\ ~InSeq(r, queue)
               /\ \A g \in Flushes : InSeq(r, pending[g]) => g = x
               /\ \A g \in Flushes : ~InSeq(r, remaining[g])
    BY <1>8, <2>1 DEF Flow, NotSentYet
  <2>2. QED
    BY <1>6, <1>14, <2>1 DEF NotSentYet
<1>18. FormUnsent'
  BY <1>1, <1>8, <1>14 DEF Flow, FormUnsent
<1>19. QED
  BY <1>9, <1>10, <1>11, <1>12, <1>13, <1>15, <1>16, <1>17, <1>18 DEF Flow

\* What the report a flush is at may be.
LEMMA CurrentFacts ==
    ASSUME TypeOK, Flow, NEW f \in Flushes, Running(f), pos[f] <= Len(pending[f])
    PROVE  /\ pos[f] \in 1..Len(pending[f]) /\ Current(f) \in Reports
           /\ InSeq(Current(f), pending[f]) /\ form[Current(f)] = "queued"
           /\ ~InSeq(Current(f), remaining[f])
           /\ \A i \in 1..Len(pending[f]) : pending[f][i] = Current(f) => i = pos[f]
<1>1. /\ pos[f] \in Nat /\ pos[f] # 0 /\ Len(pending[f]) \in Nat /\ Distinct(pending[f])
      /\ \A i \in 1..Len(pending[f]) : pending[f][i] \in Reports
  BY TypeFacts
<1>2. pos[f] \in 1..Len(pending[f])
  BY <1>1
<1>3. \A i \in 1..Len(pending[f]) : pending[f][i] = Current(f) => i = pos[f]
  BY <1>1, <1>2 DEF Current, Distinct
<1>4. ~InSeq(Current(f), remaining[f])
  <2> SUFFICES ASSUME NEW i \in 1..Len(remaining[f]), remaining[f][i] = Current(f)
               PROVE  FALSE
    BY DEF InSeq
  <2>1. PICK j \in 1..Len(pending[f]) : j < pos[f] /\ remaining[f][i] = pending[f][j]
    BY DEF Flow, Held
  <2>2. j = pos[f]
    BY <1>3, <2>1
  <2>3. QED
    BY <1>1, <2>1, <2>2
<1>5. QED
  BY <1>1, <1>2, <1>3, <1>4 DEF Current, InSeq, Flow, Held

\* A clean report that a flush has come to has not been sent by anybody.
LEMMA SubmitNextFlow ==
    ASSUME TypeOK, Flow, NEW f \in Flushes, SubmitNext(f)
    PROVE  Flow'
<1>1. /\ run[f] = "next" /\ pos[f] <= Len(pending[f]) /\ run' = [run EXCEPT ![f] = "await"]
      /\ Send(f, Current(f))
      /\ UNCHANGED <<queue, form, at, tries, page, pending, pos, remaining, exposed, shared, unheard>>
  BY DEF SubmitNext, forms, notes
<1>2. run'[f] = "await" /\ \A g \in Flushes \ {f} : run'[g] = run[g]
  BY <1>1 DEF TypeOK
<1>3. Running(f) /\ \A g \in Flushes : Running(g)' <=> Running(g)
  BY <1>1, <1>2 DEF Running
<1>4. PICK r \in Reports : r = Current(f)
  BY <1>1, <1>3, CurrentFacts
<1>5. /\ pos[f] \in 1..Len(pending[f]) /\ pending[f][pos[f]] = r /\ Len(pending[f]) \in Nat
      /\ InSeq(r, pending[f]) /\ form[r] = "queued" /\ ~InSeq(r, remaining[f])
      /\ \A i \in 1..Len(pending[f]) : pending[f][i] = r => i = pos[f]
      /\ \A g \in Flushes : \A i \in 1..Len(pending[g]) : pending[g][i] \in Reports
  BY <1>1, <1>3, <1>4, CurrentFacts, TypeFacts DEF Current
<1>6. f \in Senders
  BY DEF Senders
<1>7. /\ post'[f][r] \in {"posted", "refused"}
      /\ \A y \in Senders, q \in Reports : y # f \/ q # r => post'[y][q] = post[y][q]
  BY <1>1, <1>4, <1>6, SendFacts
<1>8. post[f][r] = "none"
  BY <1>1, <1>3, <1>5 DEF Flow, FlushFresh
<1>9. (\A g \in Flushes : g \in Senders) /\ (\A n \in Attempts : n \in Senders /\ n # f)
  BY ReportsAssumption DEF Senders, Attempts
<1>10. Held'
  BY <1>1 DEF Flow, Held
<1>11. Locals'
  <2>1. run'[f] = "await" => pos[f] <= Len(pending[f])
    BY <1>1
  <2>2. QED
    BY <1>1, <1>2, <1>3, <2>1 DEF Flow, Locals
<1>12. Forms'
  BY <1>1 DEF Flow, Forms
<1>13. FormFresh'
  BY <1>1, <1>5, <1>7, <1>9 DEF Flow, FormFresh, Forms
<1>14. FlushFresh'
  <2>1. \A g \in Flushes : run'[g] = "idle" => \A q \in Reports : post'[g][q] = "none"
    BY <1>2, <1>7, <1>9 DEF Flow, FlushFresh
  <2>2. ASSUME NEW g \in Flushes, Running(g), NEW i \in 1..Len(pending[g]),
               i > pos[g] \/ (i = pos[g] /\ run'[g] = "next")
        PROVE  post'[g][pending[g][i]] = "none"
    <3>1. g # f \/ pending[g][i] # r
      BY <1>2, <1>5, <2>2 DEF TypeOK
    <3>2. i > pos[g] \/ (i = pos[g] /\ run[g] = "next")
      BY <1>2, <2>2
    <3>3. post[g][pending[g][i]] = "none"
      BY <2>2, <3>2 DEF Flow, FlushFresh
    <3>4. QED
      BY <1>5, <1>7, <1>9, <3>1, <3>3
  <2>3. QED
    BY <1>1, <1>3, <2>1, <2>2 DEF FlushFresh
<1>15. Keeps'
  <2>1. \A q \in Reports : Stored(q) => Stored(q)'
    BY <1>7, <1>8 DEF Stored
  <2>2. QED
    BY <1>1, <1>3, <2>1 DEF Flow, Keeps, InSeq
<1>16. \A q \in Reports : Clean(q)' <=> Clean(q)
  BY <1>1 DEF Clean
<1>17. Clean(r) => \A x \in Senders : ~Sent(x, r)
  BY <1>5, <1>8 DEF Flow, NotSentYet, Sent
<1>18. OnePost'
  BY <1>7, <1>16, <1>17 DEF Flow, OnePost, Sent
<1>19. Sole'
  BY <1>1, <1>16 DEF Flow, Sole, InSeq
<1>20. NotSentYet'
  <2>1. ASSUME Clean(r)
        PROVE  /\ \A g \in Flushes : InSeq(r, pending[g]) => g = f
               /\ \A g \in Flushes : ~InSeq(r, remaining[g])
    <3>1. \A g \in Flushes : InSeq(r, pending[g]) => g = f
      BY <1>5, <2>1 DEF Flow, Sole
    <3>2. \A g \in Flushes : InSeq(r, remaining[g]) => InSeq(r, pending[g])
      BY DEF Flow, Held, InSeq
    <3>3. QED
      BY <1>5, <3>1, <3>2
  <2>2. \A q \in Reports : \A x \in Senders : Sent(x, q)' => Sent(x, q) \/ (x = f /\ q = r)
    BY <1>7 DEF Sent
  <2>3. \A q : /\ InSeq(q, queue)' <=> InSeq(q, queue)
               /\ \A g \in Flushes : /\ InSeq(q, pending[g])' <=> InSeq(q, pending[g])
                                     /\ InSeq(q, remaining[g])' <=> InSeq(q, remaining[g])
    BY <1>1 DEF InSeq
  <2>4. QED
    BY <1>5, <1>16, <2>1, <2>2, <2>3 DEF Flow, NotSentYet
<1>21. FormUnsent'
  BY <1>1, <1>5, <1>7, <1>16 DEF Flow, FormUnsent, Sent
<1>22. QED
  BY <1>10, <1>11, <1>12, <1>13, <1>14, <1>15, <1>18, <1>19, <1>20, <1>21 DEF Flow

\* What a flush passes it has sent, or keeps.
LEMMA TransmittedFlow ==
    ASSUME TypeOK, Flow, NEW f \in Flushes, Transmitted(f)
    PROVE  Flow'
<1>1. /\ run[f] = "await" /\ post[f][Current(f)] = "stored"
      /\ run' = [run EXCEPT ![f] = "next"] /\ pos' = [pos EXCEPT ![f] = @ + 1]
      /\ UNCHANGED <<queue, form, at, tries, page, pending, remaining, post, exposed, shared, unheard>>
  BY DEF Transmitted, Advance, forms, notes
<1>2. /\ run'[f] = "next" /\ pos'[f] = pos[f] + 1
      /\ \A g \in Flushes \ {f} : run'[g] = run[g] /\ pos'[g] = pos[g]
  BY <1>1 DEF TypeOK
<1>3. Running(f) /\ \A g \in Flushes : Running(g)' <=> Running(g)
  BY <1>1, <1>2 DEF Running
<1>4. pos[f] <= Len(pending[f])
  BY <1>1 DEF Flow, Locals
<1>5. /\ pos[f] \in 1..Len(pending[f]) /\ Len(pending[f]) \in Nat /\ pos[f] \in Nat
      /\ \A i \in 1..Len(pending[f]) : pending[f][i] = Current(f) => i = pos[f]
      /\ pending[f][pos[f]] = Current(f)
  BY <1>3, <1>4, CurrentFacts, TypeFacts DEF Current
<1>6. f \in Senders
  BY DEF Senders
<1>7. Held'
  BY <1>1, <1>2, <1>5 DEF Flow, Held
<1>8. Locals'
  <2>1. run'[f] # "await"
    BY <1>2
  <2>2. QED
    BY <1>1, <1>2, <1>3, <2>1 DEF Flow, Locals
<1>9. Forms' /\ FormFresh'
  BY <1>1 DEF Flow, Forms, FormFresh
<1>10. FlushFresh'
  <2>1. \A g \in Flushes : run'[g] = "idle" => run[g] = "idle"
    BY <1>2
  <2>2. ASSUME NEW g \in Flushes, Running(g), NEW i \in 1..Len(pending[g]),
               i > pos'[g] \/ (i = pos'[g] /\ run'[g] = "next")
        PROVE  post[g][pending[g][i]] = "none"
    <3>1. i > pos[g] \/ (i = pos[g] /\ run[g] = "next")
      BY <1>2, <1>5, <2>2
    <3>2. QED
      BY <2>2, <3>1 DEF Flow, FlushFresh
  <2>3. QED
    BY <1>1, <1>3, <2>1, <2>2 DEF Flow, FlushFresh
<1>11. Keeps'
  <2>1. ASSUME NEW r \in Reports, form[r] = "queued", r \notin exposed, ~Stored(r),
               NEW g \in Flushes, Running(g)
        PROVE  \/ InSeq(r, remaining[g])
               \/ \E i \in 1..Len(pending[g]) : i >= pos'[g] /\ pending[g][i] = r
    <3>1. r # Current(f)
      BY <1>1, <1>6, <2>1 DEF Stored
    <3>2. \/ InSeq(r, remaining[g])
          \/ \E i \in 1..Len(pending[g]) : i >= pos[g] /\ pending[g][i] = r
      BY <2>1 DEF Flow, Keeps
    <3>3. QED
      BY <1>2, <1>5, <3>1, <3>2
  <2>2. \A r \in Reports : Stored(r)' <=> Stored(r)
    BY <1>1 DEF Stored
  <2>3. QED
    BY <1>1, <1>3, <2>1, <2>2 DEF Flow, Keeps, InSeq
<1>12. OnePost' /\ Sole' /\ NotSentYet' /\ FormUnsent'
  BY <1>1 DEF Flow, OnePost, Sole, NotSentYet, FormUnsent, Clean, Sent, InSeq
<1>13. QED
  BY <1>7, <1>8, <1>9, <1>10, <1>11, <1>12 DEF Flow

LEMMA CaughtFlow ==
    ASSUME TypeOK, Flow, NEW f \in Flushes, Caught(f)
    PROVE  Flow'
<1>1. /\ run[f] = "await" /\ Fails(f, Current(f))
      /\ run' = [run EXCEPT ![f] = "next"] /\ pos' = [pos EXCEPT ![f] = @ + 1]
      /\ remaining' = [remaining EXCEPT ![f] = Append(@, Current(f))]
      /\ UNCHANGED <<queue, form, at, tries, page, pending, post, exposed, shared>>
  BY DEF Caught, Advance, forms
<1>2. /\ run'[f] = "next" /\ pos'[f] = pos[f] + 1
      /\ remaining'[f] = Append(remaining[f], Current(f))
      /\ \A g \in Flushes \ {f} : run'[g] = run[g] /\ pos'[g] = pos[g] /\ remaining'[g] = remaining[g]
  BY <1>1 DEF TypeOK
<1>3. Running(f) /\ \A g \in Flushes : Running(g)' <=> Running(g)
  BY <1>1, <1>2 DEF Running
<1>4. pos[f] <= Len(pending[f])
  BY <1>1 DEF Flow, Locals
<1>5. PICK r \in Reports : r = Current(f)
  BY <1>3, <1>4, CurrentFacts
<1>6. /\ pos[f] \in 1..Len(pending[f]) /\ Len(pending[f]) \in Nat /\ pos[f] \in Nat
      /\ pending[f][pos[f]] = r /\ InSeq(r, pending[f])
      /\ \A i \in 1..Len(pending[f]) : pending[f][i] = r => i = pos[f]
  BY <1>3, <1>4, <1>5, CurrentFacts, TypeFacts DEF Current
<1>7. /\ Len(remaining[f]) \in Nat /\ Len(remaining'[f]) = Len(remaining[f]) + 1
      /\ remaining'[f][Len(remaining[f]) + 1] = r
      /\ \A i \in 1..Len(remaining[f]) : remaining'[f][i] = remaining[f][i]
      /\ \A q : InSeq(q, remaining'[f]) <=> InSeq(q, remaining[f]) \/ q = r
  BY <1>2, <1>5, AppendFacts, TypeFacts
<1>8. /\ \A q : InSeq(q, queue)' <=> InSeq(q, queue)
      /\ \A q : \A g \in Flushes : InSeq(q, pending[g])' <=> InSeq(q, pending[g])
      /\ \A q : \A g \in Flushes \ {f} : InSeq(q, remaining[g])' <=> InSeq(q, remaining[g])
      /\ \A q : InSeq(q, remaining[f])' <=> InSeq(q, remaining[f]) \/ q = r
  BY <1>1, <1>2, <1>7 DEF InSeq
<1>9. Held'
  <2>1. ASSUME NEW i \in 1..Len(remaining'[f])
        PROVE  \E j \in 1..Len(pending[f]) : j < pos'[f] /\ remaining'[f][i] = pending[f][j]
    <3>1. CASE i = Len(remaining[f]) + 1
      BY <1>2, <1>6, <1>7, <3>1
    <3>2. CASE i \in 1..Len(remaining[f])
      <4>1. PICK j \in 1..Len(pending[f]) : j < pos[f] /\ remaining[f][i] = pending[f][j]
        BY <3>2 DEF Flow, Held
      <4>2. QED
        BY <1>2, <1>6, <1>7, <3>2, <4>1
    <3>3. QED
      BY <1>7, <3>1, <3>2
  <2>2. QED
    BY <1>1, <1>2, <2>1 DEF Flow, Held
<1>10. Locals'
  <2>1. run'[f] # "await" /\ Running(f)
    BY <1>2, <1>3
  <2>2. QED
    BY <1>1, <1>2, <1>3, <2>1 DEF Flow, Locals
<1>11. Forms' /\ FormFresh'
  BY <1>1 DEF Flow, Forms, FormFresh
<1>12. FlushFresh'
  <2>1. \A g \in Flushes : run'[g] = "idle" => run[g] = "idle"
    BY <1>2
  <2>2. ASSUME NEW g \in Flushes, Running(g), NEW i \in 1..Len(pending[g]),
               i > pos'[g] \/ (i = pos'[g] /\ run'[g] = "next")
        PROVE  post[g][pending[g][i]] = "none"
    <3>1. i > pos[g] \/ (i = pos[g] /\ run[g] = "next")
      BY <1>2, <1>6, <2>2
    <3>2. QED
      BY <2>2, <3>1 DEF Flow, FlushFresh
  <2>3. QED
    BY <1>1, <1>3, <2>1, <2>2 DEF Flow, FlushFresh
<1>13. Keeps'
  <2>1. ASSUME NEW q \in Reports, form[q] = "queued", q \notin exposed, ~Stored(q),
               NEW g \in Flushes, Running(g)
        PROVE  \/ InSeq(q, remaining[g])'
               \/ \E i \in 1..Len(pending[g]) : i >= pos'[g] /\ pending[g][i] = q
    <3>1. \/ InSeq(q, remaining[g])
          \/ \E i \in 1..Len(pending[g]) : i >= pos[g] /\ pending[g][i] = q
      BY <2>1 DEF Flow, Keeps
    <3>2. CASE g # f
      BY <1>2, <1>8, <3>1, <3>2
    <3>3. CASE g = f
      <4>1. CASE InSeq(q, remaining[f]) \/ q = r
        BY <1>8, <3>3, <4>1
      <4>2. CASE ~InSeq(q, remaining[f]) /\ q # r
        <5>1. PICK i \in 1..Len(pending[f]) : i >= pos[f] /\ pending[f][i] = q
          BY <3>1, <3>3, <4>2
        <5>2. i >= pos'[f]
          BY <1>2, <1>6, <4>2, <5>1
        <5>3. QED
          BY <3>3, <5>1, <5>2
      <4>3. QED
        BY <4>1, <4>2
    <3>4. QED
      BY <3>2, <3>3
  <2>2. \A q \in Reports : Stored(q)' <=> Stored(q)
    BY <1>1 DEF Stored
  <2>3. QED
    BY <1>1, <1>3, <1>8, <2>1, <2>2 DEF Flow, Keeps
<1>14. /\ \A q \in Reports : Clean(q)' => Clean(q)
       /\ Clean(r)' => post[f][r] = "refused"
  BY <1>1, <1>5 DEF Clean, Fails
<1>15. \A q \in Reports : \A x \in Senders : Sent(x, q)' <=> Sent(x, q)
  BY <1>1 DEF Sent
<1>16. OnePost'
  BY <1>14, <1>15 DEF Flow, OnePost
<1>17. Sole'
  BY <1>8, <1>14 DEF Flow, Sole
<1>18. NotSentYet'
  <2>1. Clean(r)' => \A x \in Senders : ~Sent(x, r)
    BY <1>6, <1>14 DEF Flow, NotSentYet, Sent
  <2>2. QED
    BY <1>8, <1>14, <1>15, <2>1 DEF Flow, NotSentYet
<1>19. FormUnsent'
  BY <1>1, <1>14, <1>15 DEF Flow, FormUnsent
<1>20. QED
  BY <1>9, <1>10, <1>11, <1>12, <1>13, <1>16, <1>17, <1>18, <1>19 DEF Flow

\* The rest that is written back has every saved report but the exposed ones, and no clean
\* one that was sent.
LEMMA FinishFlow ==
    ASSUME TypeOK, Flow, NEW f \in Flushes, Finish(f)
    PROVE  Flow'
<1>1. /\ run[f] = "next" /\ pos[f] > Len(pending[f]) /\ End({f}) /\ queue' = remaining[f]
      /\ UNCHANGED <<form, at, tries, post, exposed, shared, unheard>>
  BY DEF Finish, WriteBack, forms, notes
<1>2. /\ run'[f] = "done" /\ pos'[f] = 1 /\ pending'[f] = <<>> /\ remaining'[f] = <<>>
      /\ \A g \in Flushes \ {f} : /\ run'[g] = run[g] /\ page'[g] = page[g] /\ pos'[g] = pos[g]
                                  /\ pending'[g] = pending[g] /\ remaining'[g] = remaining[g]
  BY <1>1, EndFacts
<1>3. Running(f) /\ ~Running(f)' /\ \A g \in Flushes \ {f} : Running(g)' <=> Running(g)
  BY <1>1, <1>2 DEF Running
<1>4. /\ Len(pending'[f]) = 0 /\ Len(remaining'[f]) = 0
      /\ \A q : ~InSeq(q, pending'[f]) /\ ~InSeq(q, remaining'[f])
  BY <1>2, EmptyFacts
<1>5. /\ \A q : InSeq(q, queue)' <=> InSeq(q, remaining[f])
      /\ \A q : ~InSeq(q, pending[f])' /\ ~InSeq(q, remaining[f])'
      /\ \A q : \A g \in Flushes \ {f} : /\ InSeq(q, pending[g])' <=> InSeq(q, pending[g])
                                         /\ InSeq(q, remaining[g])' <=> InSeq(q, remaining[g])
  BY <1>1, <1>2, <1>4 DEF InSeq
<1>6. Held'
  <2>1. \A i \in 1..Len(remaining[f]) : form[remaining[f][i]] = "queued"
    BY DEF Flow, Held
  <2>2. ASSUME NEW g \in Flushes \ {f}
        PROVE  /\ \A i \in 1..Len(pending[g]) : form[pending[g][i]] = "queued"
               /\ \A i \in 1..Len(remaining[g]) :
                    \E j \in 1..Len(pending[g]) : j < pos[g] /\ remaining[g][i] = pending[g][j]
    BY <2>2 DEF Flow, Held
  <2>3. 1..Len(pending'[f]) = {} /\ 1..Len(remaining'[f]) = {}
    BY <1>4
  <2>4. QED
    BY <1>1, <1>2, <2>1, <2>2, <2>3 DEF Held
<1>7. Locals'
  <2>1. run'[f] # "await"
    BY <1>2
  <2>2. QED
    BY <1>2, <1>3, <2>1 DEF Flow, Locals
<1>8. Forms' /\ FormFresh'
  BY <1>1 DEF Flow, Forms, FormFresh
<1>9. FlushFresh'
  <2>1. run'[f] # "idle"
    BY <1>2
  <2>2. QED
    BY <1>1, <1>2, <1>3, <2>1 DEF Flow, FlushFresh
<1>10. Keeps'
  <2>1. ASSUME NEW q \in Reports, form[q] = "queued", q \notin exposed, ~Stored(q)
        PROVE  InSeq(q, remaining[f])
    <3>1. \A i \in 1..Len(pending[f]) : ~(i >= pos[f])
      BY <1>1, TypeFacts
    <3>2. QED
      BY <1>3, <2>1, <3>1 DEF Flow, Keeps
  <2>2. \A q \in Reports : Stored(q)' <=> Stored(q)
    BY <1>1 DEF Stored
  <2>3. QED
    BY <1>1, <1>2, <1>3, <1>5, <2>1, <2>2 DEF Flow, Keeps
<1>11. /\ \A q \in Reports : Clean(q)' <=> Clean(q)
       /\ \A q \in Reports : \A x \in Senders : Sent(x, q)' <=> Sent(x, q)
  BY <1>1 DEF Clean, Sent
<1>12. OnePost'
  BY <1>11 DEF Flow, OnePost
<1>13. Sole'
  BY <1>5, <1>11 DEF Flow, Sole
<1>14. NotSentYet'
  BY <1>5, <1>11 DEF Flow, NotSentYet
<1>15. FormUnsent'
  BY <1>1, <1>11 DEF Flow, FormUnsent
<1>16. QED
  BY <1>6, <1>7, <1>8, <1>9, <1>10, <1>12, <1>13, <1>14, <1>15 DEF Flow

\* A page takes its forms and its flushes with it; what they had sent is not clean then.
LEMMA CloseFlow ==
    ASSUME TypeOK, Flow, NEW t \in Tabs, Close(t)
    PROVE  Flow'
<1> DEFINE dying == {f \in Flushes : Running(f) /\ page[f] = t}
<1>1. /\ End(dying)
      /\ \A r \in Reports : \/ at[r] = t /\ form'[r] = "dropped" /\ at'[r] = "nowhere"
                            \/ at[r] # t /\ form'[r] = form[r] /\ at'[r] = at[r]
      /\ unheard' = unheard \union
                      {r \in Reports : \E f \in dying : post[f][r] \in {"posted", "stored"}}
      /\ UNCHANGED <<queue, tries, post, exposed, shared>>
  BY DEF Close
<1>2. /\ \A f \in dying : run'[f] = "done" /\ pos'[f] = 1 /\ pending'[f] = <<>> /\ remaining'[f] = <<>>
      /\ \A f \in Flushes \ dying :
           /\ run'[f] = run[f] /\ page'[f] = page[f] /\ pos'[f] = pos[f]
           /\ pending'[f] = pending[f] /\ remaining'[f] = remaining[f]
  <2>1. dying \in SUBSET Flushes
    OBVIOUS
  <2> HIDE DEF dying
  <2>2. QED
    BY <1>1, <2>1, EndFacts
<1>3. \A f \in dying : Len(pending'[f]) = 0 /\ Len(remaining'[f]) = 0
  BY <1>2, EmptyFacts
<1>4. /\ \A r : InSeq(r, queue)' <=> InSeq(r, queue)
      /\ \A r : \A f \in dying : ~InSeq(r, pending[f])' /\ ~InSeq(r, remaining[f])'
      /\ \A r : \A f \in Flushes \ dying : /\ InSeq(r, pending[f])' <=> InSeq(r, pending[f])
                                           /\ InSeq(r, remaining[f])' <=> InSeq(r, remaining[f])
  <2> HIDE DEF dying
  <2>1. QED
    BY <1>1, <1>2, <1>3 DEF InSeq
<1>5. \A r \in Reports : /\ form'[r] = "queued" <=> form[r] = "queued"
                         /\ form'[r] = form[r] \/ form'[r] = "dropped"
  BY <1>1 DEF Flow, Forms
<1>6. dying \in SUBSET Flushes
  OBVIOUS
<1>7. \A r \in Reports : Clean(r)' => Clean(r) /\ \A f \in dying : ~Sent(f, r)
  <2> HIDE DEF dying
  <2>1. QED
    BY <1>1 DEF Clean, Sent
<1> HIDE DEF dying
<1>8. /\ \A i \in 1..Len(queue) : queue[i] \in Reports
      /\ \A f \in Flushes : \A i \in 1..Len(pending[f]) : pending[f][i] \in Reports
  BY TypeFacts
<1>9. /\ \A f \in dying : ~Running(f)'
      /\ \A f \in Flushes \ dying : Running(f)' <=> Running(f)
  BY <1>2 DEF Running
<1>10. Held'
  <2>1. \A i \in 1..Len(queue') : form'[queue'[i]] = "queued"
    BY <1>1, <1>5, <1>8 DEF Flow, Held
  <2>2. ASSUME NEW f \in Flushes \ dying
        PROVE  /\ \A i \in 1..Len(pending'[f]) : form'[pending'[f][i]] = "queued"
               /\ \A i \in 1..Len(remaining'[f]) :
                    \E j \in 1..Len(pending'[f]) : j < pos'[f] /\ remaining'[f][i] = pending'[f][j]
    <3>1. pending'[f] = pending[f] /\ remaining'[f] = remaining[f] /\ pos'[f] = pos[f]
      BY <1>2, <2>2
    <3>2. \A i \in 1..Len(pending[f]) : form'[pending[f][i]] = "queued"
      BY <1>5, <1>8, <2>2 DEF Flow, Held
    <3>3. \A i \in 1..Len(remaining[f]) :
            \E j \in 1..Len(pending[f]) : j < pos[f] /\ remaining[f][i] = pending[f][j]
      BY <2>2 DEF Flow, Held
    <3>4. QED
      BY <3>1, <3>2, <3>3
  <2>3. ASSUME NEW f \in dying
        PROVE  1..Len(pending'[f]) = {} /\ 1..Len(remaining'[f]) = {}
    BY <1>3, <2>3
  <2>4. QED
    BY <1>6, <2>1, <2>2, <2>3 DEF Held
<1>11. Locals'
  <2>1. \A f \in dying : run'[f] # "await"
    BY <1>2
  <2>2. QED
    BY <1>2, <1>6, <1>9, <2>1 DEF Flow, Locals
<1>12. Forms'
  BY <1>1, ReportsAssumption DEF Flow, Forms
<1>13. FormFresh'
  BY <1>1, <1>5 DEF Flow, FormFresh
<1>14. FlushFresh'
  <2>1. \A f \in dying : run'[f] # "idle"
    BY <1>2
  <2>2. QED
    BY <1>1, <1>2, <1>6, <1>9, <2>1 DEF Flow, FlushFresh
<1>15. Keeps'
  <2>1. \A r \in Reports : Stored(r)' <=> Stored(r)
    BY <1>1 DEF Stored
  <2>2. QED
    BY <1>1, <1>2, <1>4, <1>5, <1>6, <1>9, <2>1 DEF Flow, Keeps
<1>16. \A r \in Reports : \A x \in Senders : Sent(x, r)' <=> Sent(x, r)
  BY <1>1 DEF Sent
<1>17. OnePost'
  BY <1>7, <1>16 DEF Flow, OnePost
<1>18. Sole'
  BY <1>4, <1>6, <1>7 DEF Flow, Sole
<1>19. NotSentYet'
  BY <1>4, <1>6, <1>7, <1>16 DEF Flow, NotSentYet
<1>20. FormUnsent'
  BY <1>1, <1>5, <1>7, <1>16 DEF Flow, FormUnsent
<1>21. QED
  BY <1>10, <1>11, <1>12, <1>13, <1>14, <1>15, <1>17, <1>18, <1>19, <1>20 DEF Flow

-----------------------------------------------------------------------------
(***************************************************************************)
(* Types.  Append and write-back keep the queue and the rests free of      *)
(* repetitions, by Held.                                                   *)
(***************************************************************************)
PageTypes ==
    /\ online \in BOOLEAN
    /\ open \subseteq Tabs /\ due \subseteq open /\ stale \subseteq open
    /\ badge \in [Tabs -> Nat]
FormTypes ==
    /\ form \in [Reports -> {"idle", "uploading", "posted", "failed", "dropped", "queued", "told"}]
    /\ at \in [Reports -> Tabs \union {"nowhere"}]
    /\ left \subseteq Reports
    /\ tries \in [Reports -> 0..MaxTries]
FlushTypes ==
    /\ run \in [Flushes -> {"idle", "next", "await", "done"}]
    /\ page \in [Flushes -> Tabs \union {"nowhere"}]
    /\ pending \in [Flushes -> Seq(Reports)] /\ remaining \in [Flushes -> Seq(Reports)]
    /\ \A f \in Flushes : IsInjective(pending[f]) /\ IsInjective(remaining[f])
    /\ pos \in [Flushes -> Nat \ {0}]
QueueTypes == queue \in Seq(Reports) /\ IsInjective(queue)
PostTypes == post \in [Senders -> [Reports -> {"none", "posted", "stored", "refused"}]]
NoteTypes == exposed \subseteq Reports /\ shared \subseteq Reports /\ unheard \subseteq Reports

AllTypes == PageTypes /\ FormTypes /\ FlushTypes /\ QueueTypes /\ PostTypes /\ NoteTypes

LEMMA Types == (TypeOK => AllTypes) /\ (AllTypes' => TypeOK')
BY DEF AllTypes, TypeOK, PageTypes, FormTypes, FlushTypes, QueueTypes, PostTypes, NoteTypes

LEMMA TypeStep ==
    ASSUME TypeOK, Flow, Next
    PROVE  TypeOK'
<1>0. PageTypes /\ FormTypes /\ FlushTypes /\ QueueTypes /\ PostTypes /\ NoteTypes
  BY Types DEF AllTypes
<1> USE DEF pages, forms, flushes, notes
<1>1. CASE GoOffline \/ GoOnline \/ \E t \in Tabs : Open(t) \/ HandleNothing(t)
  <2>1. PageTypes'
    BY <1>0, <1>1, TypeFacts DEF GoOffline, GoOnline, Open, HandleNothing, PageTypes
  <2>2. UNCHANGED <<forms, flushes, queue, post, notes>>
    BY <1>1 DEF GoOffline, GoOnline, Open, HandleNothing
  <2>3. QED
    BY <1>0, <2>1, <2>2, Types DEF AllTypes, FormTypes, FlushTypes, QueueTypes, PostTypes, NoteTypes
<1>2. ASSUME NEW t \in Tabs, Close(t) PROVE TypeOK'
  <2>1. PageTypes'
    BY <1>0, <1>2 DEF Close, PageTypes
  <2>2. FormTypes'
    BY <1>0, <1>2 DEF Close, FormTypes
  <2>3. FlushTypes'
    <3>1. End({f \in Flushes : Running(f) /\ page[f] = t})
      BY <1>2 DEF Close
    <3>2. {f \in Flushes : Running(f) /\ page[f] = t} \in SUBSET Flushes
      OBVIOUS
    <3>3. QED
      BY <3>1, <3>2, EndFacts DEF FlushTypes
  <2>4. QueueTypes' /\ PostTypes' /\ NoteTypes'
    BY <1>0, <1>2 DEF Close, QueueTypes, PostTypes, NoteTypes
  <2>5. QED
    BY <2>1, <2>2, <2>3, <2>4, Types DEF AllTypes
<1>3. ASSUME NEW t \in Tabs, NEW r \in Reports, QueueOfflineReport(t, r) PROVE TypeOK'
  <2>1. PageTypes'
    BY <1>0, <1>3 DEF QueueOfflineReport, PageTypes
  <2>2. FormTypes'
    BY <1>0, <1>3 DEF QueueOfflineReport, Fill, FormTypes
  <2>3. QueueTypes'
    <3>1. form[r] # "queued" /\ queue' = Append(queue, r)
      BY <1>3 DEF QueueOfflineReport, MaySubmit
    <3>2. ~InSeq(r, queue)
      BY <3>1, NotHeld DEF Flow
    <3>3. queue' \in Seq(Reports) /\ Distinct(queue')
      BY <3>1, <3>2, AppendFacts, TypeFacts
    <3>4. IsInjective(queue')
      BY <3>3, SeqFacts
    <3>5. QED
      BY <3>3, <3>4 DEF QueueTypes
  <2>4. FlushTypes' /\ PostTypes'
    BY <1>0, <1>3 DEF QueueOfflineReport, FlushTypes, PostTypes
  <2>5. NoteTypes'
    BY <1>0, <1>3 DEF QueueOfflineReport, NoteTypes
  <2>6. QED
    BY <2>1, <2>2, <2>3, <2>4, <2>5, Types DEF AllTypes
<1>4. ASSUME NEW t \in Tabs, NEW r \in Reports, Submit(t, r) PROVE TypeOK'
  <2>1. FormTypes'
    <3>1. form' \in [Reports -> {"idle", "uploading", "posted", "failed", "dropped", "queued", "told"}]
      BY <1>0, <1>4 DEF Submit, Fill, FormTypes
    <3>2. at' \in [Reports -> Tabs \union {"nowhere"}] /\ left' \subseteq Reports
      BY <1>0, <1>4 DEF Submit, Fill, FormTypes
    <3>3. tries' \in [Reports -> 0..MaxTries]
      <4>1. PICK n \in Attempts : tries' = [tries EXCEPT ![r] = n]
        BY <1>4 DEF Submit
      <4>2. n \in 0..MaxTries
        BY ReportsAssumption DEF Attempts
      <4>3. QED
        BY <1>0, <4>1, <4>2 DEF FormTypes
    <3>4. QED
      BY <3>1, <3>2, <3>3 DEF FormTypes
  <2>2. PageTypes' /\ FlushTypes' /\ QueueTypes' /\ PostTypes' /\ NoteTypes'
    BY <1>0, <1>4 DEF Submit, PageTypes, FlushTypes, QueueTypes, PostTypes, NoteTypes
  <2>3. QED
    BY <2>1, <2>2, Types DEF AllTypes
<1>5. ASSUME NEW r \in Reports, PostForm(r) PROVE TypeOK'
  <2>1. FormTypes'
    BY <1>0, <1>5 DEF PostForm, FormTypes
  <2>2. PostTypes'
    <3>1. tries[r] \in Senders /\ Send(tries[r], r)
      BY <1>5 DEF PostForm, Flow, Forms, Senders
    <3>2. PICK x \in Senders : x = tries[r]
      BY <3>1
    <3>3. QED
      BY <3>1, <3>2, SendFacts DEF PostTypes
  <2>3. PageTypes' /\ FlushTypes' /\ QueueTypes' /\ NoteTypes'
    BY <1>0, <1>5 DEF PostForm, PageTypes, FlushTypes, QueueTypes, NoteTypes
  <2>4. QED
    BY <2>1, <2>2, <2>3, Types DEF AllTypes
<1>6. ASSUME NEW r \in Reports, Submitted(r) \/ SubmitFails(r) PROVE TypeOK'
  <2>1. FormTypes'
    BY <1>0, <1>6 DEF Submitted, SubmitFails, Settle, FormTypes
  <2>2. NoteTypes'
    BY <1>0, <1>6 DEF Submitted, SubmitFails, Fails, NoteTypes
  <2>3. PageTypes' /\ FlushTypes' /\ QueueTypes' /\ PostTypes'
    BY <1>0, <1>6 DEF Submitted, SubmitFails, PageTypes, FlushTypes, QueueTypes, PostTypes
  <2>4. QED
    BY <2>1, <2>2, <2>3, Types DEF AllTypes
<1>7. ASSUME NEW t \in Tabs, NEW f \in Flushes, HandleOnline(t, f) PROVE TypeOK'
  <2>1. PageTypes' /\ FormTypes' /\ QueueTypes' /\ PostTypes'
    BY <1>0, <1>7 DEF HandleOnline, PageTypes, FormTypes, QueueTypes, PostTypes
  <2>2. FlushTypes'
    BY <1>0, <1>7 DEF HandleOnline, FlushTypes, QueueTypes
  <2>3. NoteTypes'
    <3>1. \A r \in Range(queue) : r \in Reports
      BY TypeFacts DEF InSeq
    <3>2. QED
      BY <1>0, <1>7, <3>1 DEF HandleOnline, NoteTypes
  <2>4. QED
    BY <2>1, <2>2, <2>3, Types DEF AllTypes
<1>8. ASSUME NEW f \in Flushes, SubmitNext(f) PROVE TypeOK'
  <2>1. PageTypes' /\ FormTypes' /\ QueueTypes' /\ NoteTypes'
    BY <1>0, <1>8 DEF SubmitNext, PageTypes, FormTypes, QueueTypes, NoteTypes
  <2>2. FlushTypes'
    BY <1>0, <1>8 DEF SubmitNext, FlushTypes
  <2>3. PostTypes'
    <3>1. Running(f) /\ pos[f] <= Len(pending[f]) /\ Send(f, Current(f)) /\ f \in Senders
      BY <1>8 DEF SubmitNext, Running, Senders
    <3>2. PICK r \in Reports : r = Current(f)
      BY <3>1, CurrentFacts
    <3>3. QED
      BY <3>1, <3>2, SendFacts DEF PostTypes
  <2>4. QED
    BY <2>1, <2>2, <2>3, Types DEF AllTypes
<1>9. ASSUME NEW f \in Flushes, Transmitted(f) PROVE TypeOK'
  <2>1. PageTypes' /\ FormTypes' /\ QueueTypes' /\ NoteTypes' /\ PostTypes'
    BY <1>0, <1>9 DEF Transmitted, PageTypes, FormTypes, QueueTypes, NoteTypes, PostTypes
  <2>2. FlushTypes'
    BY <1>0, <1>9 DEF Transmitted, Advance, FlushTypes
  <2>3. QED
    BY <2>1, <2>2, Types DEF AllTypes
<1>10. ASSUME NEW f \in Flushes, Caught(f) PROVE TypeOK'
  <2>1. PageTypes' /\ FormTypes' /\ QueueTypes' /\ PostTypes'
    BY <1>0, <1>10 DEF Caught, PageTypes, FormTypes, QueueTypes, PostTypes
  <2>2. /\ Running(f) /\ pos[f] <= Len(pending[f])
        /\ remaining' = [remaining EXCEPT ![f] = Append(remaining[f], Current(f))]
    BY <1>0, <1>10 DEF Caught, Running, Flow, Locals, FlushTypes
  <2>3. Current(f) \in Reports /\ ~InSeq(Current(f), remaining[f])
    BY <2>2, CurrentFacts
  <2>4. FlushTypes'
    <3>1. Append(remaining[f], Current(f)) \in Seq(Reports) /\ Distinct(Append(remaining[f], Current(f)))
      BY <2>3, AppendFacts, TypeFacts
    <3>2. IsInjective(Append(remaining[f], Current(f)))
      BY <3>1, SeqFacts
    <3>3. /\ remaining' \in [Flushes -> Seq(Reports)]
          /\ \A g \in Flushes : IsInjective(remaining'[g])
      BY <1>0, <2>2, <3>1, <3>2 DEF FlushTypes
    <3>4. QED
      BY <1>0, <1>10, <3>3 DEF Caught, Advance, FlushTypes
  <2>5. NoteTypes'
    BY <1>0, <1>10, <2>3 DEF Caught, Fails, NoteTypes
  <2>6. QED
    BY <2>1, <2>4, <2>5, Types DEF AllTypes
<1>11. ASSUME NEW f \in Flushes, Finish(f) PROVE TypeOK'
  <2>1. FlushTypes'
    BY <1>11, EndFacts DEF Finish, WriteBack, FlushTypes
  <2>2. QueueTypes'
    BY <1>0, <1>11 DEF Finish, WriteBack, FlushTypes, QueueTypes
  <2>3. PageTypes'
    BY <1>0, <1>11, TypeFacts DEF Finish, WriteBack, PageTypes
  <2>4. FormTypes' /\ PostTypes' /\ NoteTypes'
    BY <1>0, <1>11 DEF Finish, WriteBack, FormTypes, PostTypes, NoteTypes
  <2>5. QED
    BY <2>1, <2>2, <2>3, <2>4, Types DEF AllTypes
<1>12. ASSUME NEW x \in Senders, NEW r \in Reports, Insert(x, r) PROVE TypeOK'
  <2>1. PageTypes' /\ FormTypes' /\ FlushTypes' /\ QueueTypes' /\ NoteTypes'
    BY <1>0, <1>12 DEF Insert, PageTypes, FormTypes, FlushTypes, QueueTypes, NoteTypes
  <2>2. PostTypes'
    BY <1>12, InsertFacts DEF PostTypes
  <2>3. QED
    BY <2>1, <2>2, Types DEF AllTypes
<1>13. QED
  BY <1>1, <1>2, <1>3, <1>4, <1>5, <1>6, <1>7, <1>8, <1>9, <1>10, <1>11, <1>12 DEF Next

-----------------------------------------------------------------------------
(***************************************************************************)
(* The invariant.                                                          *)
(***************************************************************************)
LEMMA FlowStep ==
    ASSUME TypeOK, Flow, [Next]_vars
    PROVE  Flow'
<1>1. CASE UNCHANGED vars
  <2>1. UNCHANGED <<queue, forms, flushes, notes>> /\ post' = post
    BY <1>1 DEF vars, forms, flushes, notes
  <2>2. QED
    BY <2>1, Gentle DEF Sent
<1>2. CASE GoOffline \/ GoOnline \/ \E t \in Tabs : Open(t) \/ HandleNothing(t)
  <2>1. UNCHANGED <<queue, forms, flushes, notes>> /\ post' = post
    BY <1>2 DEF GoOffline, GoOnline, Open, HandleNothing
  <2>2. QED
    BY <2>1, Gentle DEF Sent
<1>3. ASSUME NEW x \in Senders, NEW r \in Reports, Insert(x, r) PROVE Flow'
  <2>1. UNCHANGED <<queue, forms, flushes, notes>>
    BY <1>3 DEF Insert
  <2>2. /\ post[x][r] = "posted" /\ post'[x][r] = "stored"
        /\ \A y \in Senders, q \in Reports : y # x \/ q # r => post'[y][q] = post[y][q]
    BY <1>3, InsertFacts
  <2>3. \A y \in Senders, q \in Reports :
          /\ post'[y][q] = "none" <=> post[y][q] = "none"
          /\ Sent(y, q)' <=> Sent(y, q)
          /\ post[y][q] = "stored" => post'[y][q] = "stored"
    BY <2>2 DEF Sent
  <2>4. QED
    BY <2>1, <2>3, Gentle
<1>4. QED
  BY <1>1, <1>2, <1>3, CloseFlow, QueueFlow, SubmitFlow, PostFormFlow, SubmittedFlow, SubmitFailsFlow,
     HandleFlow, SubmitNextFlow, TransmittedFlow, CaughtFlow, FinishFlow
  DEF Next

\* The badge changes with the queue, or the page becomes stale.
LEMMA BadgeStep ==
    ASSUME TypeOK, Flow, BadgeIsQueue, [Next]_vars
    PROVE  BadgeIsQueue'
<1>1. CASE UNCHANGED vars
  BY <1>1 DEF vars, BadgeIsQueue
<1>2. CASE GoOffline \/ GoOnline \/ \E t \in Tabs : HandleNothing(t)
  BY <1>2 DEF GoOffline, GoOnline, HandleNothing, BadgeIsQueue, pages
<1>3. ASSUME NEW t \in Tabs, Open(t) PROVE BadgeIsQueue'
  BY <1>3 DEF Open, BadgeIsQueue, TypeOK
<1>4. ASSUME NEW t \in Tabs, Close(t) PROVE BadgeIsQueue'
  BY <1>4 DEF Close, BadgeIsQueue, TypeOK
<1>5. ASSUME NEW t \in Tabs, NEW r \in Reports, QueueOfflineReport(t, r) PROVE BadgeIsQueue'
  <2>1. Len(queue') = Len(queue) + 1
    BY <1>5, AppendFacts, TypeFacts DEF QueueOfflineReport
  <2>2. /\ open' = open /\ badge' = [badge EXCEPT ![t] = @ + 1]
        /\ stale' = stale \union (open \ {t})
    BY <1>5 DEF QueueOfflineReport
  <2>3. ASSUME NEW u \in open' \ stale' PROVE badge'[u] = Len(queue')
    BY <2>1, <2>2, <2>3 DEF BadgeIsQueue, TypeOK
  <2>4. QED
    BY <2>3 DEF BadgeIsQueue
<1>6. ASSUME NEW t \in Tabs, NEW r \in Reports, Submit(t, r) PROVE BadgeIsQueue'
  BY <1>6 DEF Submit, BadgeIsQueue, pages
<1>7. ASSUME NEW r \in Reports, PostForm(r) \/ Submitted(r) \/ SubmitFails(r) PROVE BadgeIsQueue'
  BY <1>7 DEF PostForm, Submitted, SubmitFails, BadgeIsQueue, pages
<1>8. ASSUME NEW t \in Tabs, NEW f \in Flushes, HandleOnline(t, f) PROVE BadgeIsQueue'
  BY <1>8 DEF HandleOnline, BadgeIsQueue
<1>9. ASSUME NEW f \in Flushes, SubmitNext(f) \/ Transmitted(f) \/ Caught(f) PROVE BadgeIsQueue'
  BY <1>9 DEF SubmitNext, Transmitted, Caught, BadgeIsQueue, pages
<1>10. ASSUME NEW f \in Flushes, Finish(f) PROVE BadgeIsQueue'
  <2>1. /\ open' = open /\ stale' = open \ {page[f]} /\ queue' = remaining[f]
        /\ badge' = [badge EXCEPT ![page[f]] = Len(remaining[f])]
    BY <1>10 DEF Finish, WriteBack
  <2>2. \A t \in open : t \in Tabs
    BY DEF TypeOK
  <2>3. ASSUME NEW t \in open' \ stale' PROVE badge'[t] = Len(queue')
    BY <2>1, <2>2, <2>3 DEF TypeOK
  <2>4. QED
    BY <2>3 DEF BadgeIsQueue
<1>11. ASSUME NEW x \in Senders, NEW r \in Reports, Insert(x, r) PROVE BadgeIsQueue'
  BY <1>11 DEF Insert, BadgeIsQueue, pages
<1>12. QED
  BY <1>1, <1>2, <1>3, <1>4, <1>5, <1>6, <1>7, <1>8, <1>9, <1>10, <1>11 DEF Next

LEMMA InitHolds == Init => IInv
<1> SUFFICES ASSUME Init PROVE IInv
  OBVIOUS
<1>1. TypeOK
  BY EmptyFacts, ReportsAssumption DEF Init, TypeOK
<1>2. Held /\ Locals
  BY EmptyFacts DEF Init, Held, Locals, Running
<1>3. Forms
  BY ReportsAssumption DEF Init, Forms
<1>4. FlushFresh /\ FormFresh
  BY DEF Init, FlushFresh, FormFresh, Running, Senders
<1>5. Keeps
  BY DEF Init, Keeps
<1>6. OnePost /\ NotSentYet /\ FormUnsent
  BY DEF Init, OnePost, NotSentYet, FormUnsent, Sent
<1>7. Sole
  BY EmptyFacts DEF Init, Sole
<1>8. BadgeIsQueue
  BY DEF Init, BadgeIsQueue
<1>9. QED
  BY <1>1, <1>2, <1>3, <1>4, <1>5, <1>6, <1>7, <1>8 DEF IInv

\* The inductive invariant holds of every behaviour.
THEOREM Invariance == Spec => []IInv
<1>1. IInv /\ [Next]_vars => IInv'
  <2> SUFFICES ASSUME IInv, [Next]_vars PROVE IInv'
    OBVIOUS
  <2>1. TypeOK /\ Flow /\ BadgeIsQueue
    BY DEF IInv, Flow
  <2>2. TypeOK'
    BY <2>1, TypeStep, Types DEF vars, TypeOK
  <2>3. Flow' /\ BadgeIsQueue'
    BY <2>1, FlowStep, BadgeStep
  <2>4. QED
    BY <2>2, <2>3 DEF IInv, Flow
<1>2. QED
  BY <1>1, InitHolds, PTL DEF Spec

\* Every variable keeps its type, and the queue never names a report twice.
THEOREM TypeCorrect == Spec => []TypeOK
<1>1. IInv => TypeOK
  BY DEF IInv
<1>2. QED
  BY <1>1, Invariance, PTL

\* useSubmitReport.ts:60, __root.tsx:63: whatever the number of pages and of overlapping
\* flushes, a saved report stays in localStorage until the server has it, unless it was
\* saved while a flush was running.
THEOREM SavedReportsKept == Spec => []NotLost
<1>1. IInv => NotLost
  <2> SUFFICES ASSUME IInv, NEW r \in Reports, form[r] = "queued", ~Stored(r), r \notin exposed
               PROVE  r \in Range(queue)
    BY DEF NotLost
  <2>1. InSeq(r, queue)
    BY DEF IInv, Keeps
  <2>2. QED
    BY <2>1, TypeFacts DEF IInv
<1>2. QED
  BY <1>1, Invariance, PTL

\* __root.tsx:63, incidents/service.go:68: for any number of attempts and of flushes, two
\* rows of one report mean a lost answer or two flushes that had read it at the same time.
THEOREM DuplicatesAreExplained == Spec => []DuplicatesExplained
<1>1. IInv => DuplicatesExplained
  BY DEF IInv, OnePost, DuplicatesExplained, Clean, Sent
<1>2. QED
  BY <1>1, Invariance, PTL

\* useAppStore.ts:75: a page's counter is the length of the queue until another page
\* writes the queue.
THEOREM BadgeCorrect == Spec => []BadgeIsQueue
<1>1. IInv => BadgeIsQueue
  BY DEF IInv
<1>2. QED
  BY <1>1, Invariance, PTL

\* What a page says of the reports that are saved on the phone is true (useSubmitReport.ts).
THEOREM AuthorsAreToldTheTruth == Spec => []ToldIsTrue
  BY SavedReportsKept, BadgeCorrect, PTL DEF ToldIsTrue
=============================================================================
