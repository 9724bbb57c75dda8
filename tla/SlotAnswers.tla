------------------------------- MODULE SlotAnswers -------------------------------
(***************************************************************************)
(* The questions on the assembly card of a device in the browser           *)
(* (ItemAccessoriesTab, ZubehoerCard) and the quality review that stores   *)
(* the answers.  The tab shows no answers until they are loaded, and none  *)
(* if they cannot be.  A handler posts the new answer together with all    *)
(* others of the rendering it was started on, and the review replaces      *)
(* what was stored.                                                        *)
(***************************************************************************)
EXTENDS Integers, FiniteSets

CONSTANTS
  Questions,
  Values,     \* what a question may be answered with
  Tasks,      \* bound: handlers under way
  MaxClicks,  \* bound: answers given
  MaxForeign, \* bound: reviews by others
  NoQuestion, Unanswered

VARIABLES
  answers,  \* responses of the assessment the device refers to
  shown,    \* qualityResponses
  reading,  \* the load of the tab: sent, what it read, or done
  pending,  \* answerPending
  task,     \* handlers
  given,    \* history: the answers as the operator gave them
  unsettled,  \* history: questions whose stored answer may be another than the one given
  clicks, foreign  \* bounds

vars == <<answers, shown, reading, pending, task, given, unsettled, clicks, foreign>>

Sheet == [Questions -> Values \cup {Unanswered}]
Blank == [q \in Questions |-> Unanswered]
NoTask == [kind |-> "none", pc |-> "none", question |-> NoQuestion, sheet |-> Blank]

UnderWay == {t \in Tasks : task[t].kind # "none"}
AtRest == reading.pc = "done" /\ UnderWay = {}

-----------------------------------------------------------------------------
(* The load *)

\* getItemQualityResponses
ReadAnswers ==
  /\ reading.pc = "sent" /\ reading' = [pc |-> "read", sheet |-> answers]
  /\ UNCHANGED <<answers, shown, pending, task, given, unsettled, clicks, foreign>>

ShowAnswers ==
  /\ reading.pc = "read" /\ shown' = reading.sheet
  /\ reading' = [reading EXCEPT !.pc = "done"]
  /\ UNCHANGED <<answers, pending, task, given, unsettled, clicks, foreign>>

AnswersUnknown ==
  /\ reading.pc # "done" /\ shown' = Blank
  /\ reading' = [reading EXCEPT !.pc = "done"]
  /\ unsettled' = Questions
  /\ UNCHANGED <<answers, pending, task, given, clicks, foreign>>

-----------------------------------------------------------------------------
(* Answering *)

\* Wrong variant: only the new answer is posted.
Alone(q, v) == [Blank EXCEPT ![q] = v]

\* The answers of this rendering with the new one, or without the cleared one.
Merged(q, v) == [shown EXCEPT ![q] = v]

\* Answers given before the others are loaded are posted without them; of two that are
\* under way together neither knows the other.
UnsettledBy(q) ==
  CASE reading.pc # "done" -> Questions
    [] AtRest              -> unsettled
    [] OTHER               -> unsettled \cup {q} \cup {task[t].question : t \in UnderWay}

Begin(t, kind, q, v) ==
  /\ clicks > 0 /\ q # pending /\ shown[q] # v /\ task[t].kind = "none"
  /\ clicks' = clicks - 1
  /\ task' = [task EXCEPT ![t] = [kind |-> kind, pc |-> "user", question |-> q, sheet |-> Merged(q, v)]]
  /\ unsettled' = UnsettledBy(q)
  /\ UNCHANGED <<answers, shown, reading, pending, given, foreign>>

handleSlotAnswer(t) == \E q \in Questions, v \in Values : Begin(t, "answer", q, v)
handleClearAnswer(t) == \E q \in Questions : Begin(t, "clear", q, Unanswered)

NoUser(t) ==
  /\ task[t].pc = "user" /\ task' = [task EXCEPT ![t] = NoTask]
  /\ UNCHANGED <<answers, shown, reading, pending, given, unsettled, clicks, foreign>>

\* A cleared answer is gone from the card before it is posted.  An answer given alone
\* settles its question.
Submit(t) ==
  /\ task[t].pc = "user" /\ task' = [task EXCEPT ![t].pc = "post"]
  /\ given' = [given EXCEPT ![task[t].question] = task[t].sheet[task[t].question]]
  /\ IF task[t].kind = "answer"
     THEN pending' = task[t].question /\ UNCHANGED shown
     ELSE shown' = task[t].sheet /\ UNCHANGED pending
  /\ unsettled' = IF reading.pc = "done" /\ UnderWay = {t}
                  THEN unsettled \ {task[t].question} ELSE unsettled
  /\ UNCHANGED <<answers, reading, clicks, foreign>>

\* The assessment is inserted and the device refers to it, or nothing changed for the
\* device; the card is not told why, and not told either when the answer is lost.
Review(t) ==
  /\ task[t].pc = "post"
  /\ \E stored, told \in BOOLEAN :
       /\ answers' = IF stored THEN task[t].sheet ELSE answers
       /\ task' = [task EXCEPT ![t].pc = IF stored /\ told THEN "ok" ELSE "failed"]
       /\ unsettled' = IF stored /\ (told \/ task[t].kind = "clear")
                       THEN unsettled ELSE unsettled \cup {task[t].question}
  /\ UNCHANGED <<shown, reading, pending, given, clicks, foreign>>

ShownAfter(t) == IF task[t].kind = "answer" /\ task[t].pc = "ok" THEN task[t].sheet ELSE shown

Answered(t) ==
  /\ task[t].pc \in {"ok", "failed"} /\ task' = [task EXCEPT ![t] = NoTask]
  /\ shown' = ShownAfter(t)
  /\ pending' = IF task[t].kind = "answer" THEN NoQuestion ELSE pending
  /\ UNCHANGED <<answers, reading, given, unsettled, clicks, foreign>>

\* The device is reviewed on another page.
ReviewElsewhere(q) ==
  /\ foreign > 0 /\ foreign' = foreign - 1
  /\ \E v \in Values \cup {Unanswered} : answers' = [answers EXCEPT ![q] = v]
  /\ unsettled' = unsettled \cup {q}
  /\ UNCHANGED <<shown, reading, pending, task, given, clicks>>

-----------------------------------------------------------------------------
(* Specification *)

\* The tab has just been opened.
Init ==
  /\ answers \in Sheet /\ given = answers /\ shown = Blank
  /\ reading = [pc |-> "sent", sheet |-> Blank] /\ pending = NoQuestion
  /\ task = [t \in Tasks |-> NoTask]
  /\ unsettled = {} /\ clicks = MaxClicks /\ foreign = MaxForeign

Next ==
  \/ ReadAnswers \/ ShowAnswers \/ AnswersUnknown
  \/ \E t \in Tasks : handleSlotAnswer(t) \/ handleClearAnswer(t) \/ NoUser(t) \/ Submit(t)
                      \/ Review(t) \/ Answered(t)
  \/ \E q \in Questions : ReviewElsewhere(q)

Spec == Init /\ [][Next]_vars

-----------------------------------------------------------------------------
(* Properties *)

\* The variables stay in their sets.
TypeOK ==
  /\ answers \in Sheet /\ shown \in Sheet /\ given \in Sheet /\ reading.sheet \in Sheet
  /\ reading.pc \in {"sent", "read", "done"} /\ pending \in Questions \cup {NoQuestion}
  /\ \A t \in Tasks : task[t].pc \in {"none", "user", "post", "ok", "failed"} /\ task[t].sheet \in Sheet
  /\ unsettled \subseteq Questions /\ clicks \in 0..MaxClicks /\ foreign \in 0..MaxForeign

\* The stored answer to a question is the last one the operator gave, and the card shows
\* it, although every answer posts the sheet of the card and replaces the stored one.
\* The exceptions are questions whose own last answer was not stored, or stored without
\* the card being told, or under way together with another, or that others answered; and
\* all of them when one was given before they were loaded or the load failed.  The next
\* answer to such a question, given alone, stored and told, is kept again.
AnswersKept ==
  AtRest => \A q \in Questions \ unsettled : answers[q] = given[q] /\ shown[q] = given[q]
=============================================================================
