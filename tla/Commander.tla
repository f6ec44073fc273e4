----------------------------- MODULE Commander -----------------------------
(***************************************************************************)
(* The serial console (commander.cpp): input_handler() runs in the serial  *)
(* interrupt, appends the character to a vector and posts a call of pump() *)
(* to the event queue; pump(), in the main thread, takes one character off *)
(* the front of the vector and edits or runs the command line with it.     *)
(*                                                                         *)
(* Nothing masks the interrupt while pump() erases the front element, so   *)
(* vector::erase() is taken apart: the elements move down one place, then  *)
(* the size is loaded, decremented and stored.                             *)
(*                                                                         *)
(* The event queue is the one everything else uses too: PUT and update     *)
(* handlers, samples, refreshes.  Of these the module knows how many hold  *)
(* a place in it.                                                          *)
(***************************************************************************)
EXTENDS Naturals, SequencesExt

CONSTANTS Printable,   \* the printable characters in use
          Capacity,    \* MBED_CONF_APP_COMMANDER_ISR_BUFFER_LENGTH
          QueueRoom,   \* events the event queue has memory for
          MaxTyped     \* bound: characters typed

Enter     == "enter"      \* 13
Backspace == "backspace"  \* 8
Control   == "control"    \* any other character that is not printable
Chars     == Printable \cup {Enter, Backspace, Control}

ASSUME CommanderAssumption == /\ Capacity \in Nat \ {0}
                              /\ QueueRoom \in Nat
                              /\ MaxTyped \in Nat
                              /\ Printable \cap {Enter, Backspace, Control} = {}

VARIABLES buffer,   \* _buffer
          calls,    \* calls of pump() in the event queue
          others,   \* other events in it
          pc,       \* where pump() is: "idle", "front", "move", "load", "store", "edit"
          nInput,   \* the character pump() took
          size,     \* the size erase() loaded
          command,  \* _strcommand
          got,      \* history: the characters the interrupt appended
          taken,    \* history: the characters pump() took
          ran,      \* history: the command lines that were processed
          hit,      \* history: has a character been appended in the middle of erase()?
          missed,   \* history: characters appended since the vector was last empty whose
                    \* evq.call() failed
          typed     \* characters typed so far

vars == <<buffer, calls, others, pc, nInput, size, command, got, taken, ran, hit, missed, typed>>

Init == /\ buffer = <<>>
        /\ calls = 0 /\ others = 0
        /\ pc = "idle"
        /\ nInput = Control
        /\ size = 0
        /\ command = <<>>
        /\ got = <<>> /\ taken = <<>> /\ ran = <<>>
        /\ hit = FALSE /\ missed = 0
        /\ typed = 0

-----------------------------------------------------------------------------
\* mutant: a call is posted only when none is pending
InterruptOnce(c) ==
    /\ typed < MaxTyped
    /\ typed' = typed + 1
    /\ \/ /\ Len(buffer) < Capacity
          /\ buffer' = Append(buffer, c)
          /\ got' = Append(got, c)
          /\ hit' = (hit \/ pc \in {"load", "store"})
       \/ /\ Len(buffer) >= Capacity
          /\ UNCHANGED <<buffer, got, hit>>
    /\ calls' = 1
    /\ UNCHANGED <<others, pc, nInput, size, command, taken, ran, missed>>

Room == calls + others < QueueRoom

\* The interrupt: input_handler(), then cmd_on_ready(), whether or not the character
\* fitted.  evq.call() fails when the queue is full, which nobody looks at.
Interrupt(c) ==
    /\ typed < MaxTyped
    /\ typed' = typed + 1
    /\ \/ /\ Len(buffer) < Capacity
          /\ buffer' = Append(buffer, c)
          /\ got' = Append(got, c)
          /\ hit' = (hit \/ pc \in {"load", "store"})
          /\ missed' = IF Room THEN missed ELSE missed + 1
       \/ /\ Len(buffer) >= Capacity
          /\ UNCHANGED <<buffer, got, hit, missed>>
    /\ calls' = IF Room THEN calls + 1 ELSE calls
    /\ UNCHANGED <<others, pc, nInput, size, command, taken, ran>>

\* Another thread, or an event that is due, takes a place in the queue.
OtherPosts ==
    /\ Room
    /\ others' = others + 1
    /\ UNCHANGED <<buffer, calls, pc, nInput, size, command, got, taken, ran, hit, missed, typed>>

\* The main thread runs such an event, or it is cancelled.
OtherRuns ==
    /\ pc = "idle" /\ others > 0
    /\ others' = others - 1
    /\ UNCHANGED <<buffer, calls, pc, nInput, size, command, got, taken, ran, hit, missed, typed>>

\* The main thread dispatches a call of pump().
Dispatch ==
    /\ pc = "idle" /\ calls > 0
    /\ calls' = calls - 1
    /\ pc' = IF buffer = <<>> THEN "idle" ELSE "front"
    /\ UNCHANGED <<buffer, others, nInput, size, command, got, taken, ran, hit, missed, typed>>

\* mutant: the newest character is taken
TakeBack ==
    /\ pc = "front"
    /\ nInput' = Last(buffer)
    /\ taken' = Append(taken, Last(buffer))
    /\ pc' = "move"
    /\ UNCHANGED <<buffer, calls, others, size, command, got, ran, hit, missed, typed>>

\* _buffer.front()
TakeFront ==
    /\ pc = "front"
    /\ nInput' = Head(buffer)
    /\ taken' = Append(taken, Head(buffer))
    /\ pc' = "move"
    /\ UNCHANGED <<buffer, calls, others, size, command, got, ran, hit, missed, typed>>

\* erase(): the elements behind the first one move down; the last place keeps its own
MoveDown ==
    /\ pc = "move"
    /\ buffer' = Append(Tail(buffer), Last(buffer))
    /\ pc' = "load"
    /\ UNCHANGED <<calls, others, nInput, size, command, got, taken, ran, hit, missed, typed>>

LoadSize ==
    /\ pc = "load"
    /\ size' = Len(buffer)
    /\ pc' = "store"
    /\ UNCHANGED <<buffer, calls, others, nInput, command, got, taken, ran, hit, missed, typed>>

StoreSize ==
    /\ pc = "store"
    /\ buffer' = SubSeq(buffer, 1, size - 1)
    /\ missed' = IF size = 1 THEN 0 ELSE missed
    /\ pc' = "edit"
    /\ UNCHANGED <<calls, others, nInput, size, command, got, taken, ran, hit, typed>>

\* mutant: any character is taken into the line
EditUnfiltered ==
    /\ pc = "edit"
    /\ command' = IF nInput = Enter THEN <<>> ELSE Append(command, nInput)
    /\ ran' = IF nInput = Enter /\ command # <<>> THEN Append(ran, command) ELSE ran
    /\ pc' = "idle"
    /\ UNCHANGED <<buffer, calls, others, nInput, size, got, taken, hit, missed, typed>>

\* mutant: the line stays after it was processed
EditKeepingLine ==
    /\ pc = "edit"
    /\ command' = IF nInput \in Printable THEN Append(command, nInput)
                  ELSE IF nInput = Backspace /\ command # <<>> THEN Front(command)
                  ELSE command
    /\ ran' = IF nInput = Enter /\ command # <<>> THEN Append(ran, command) ELSE ran
    /\ pc' = "idle"
    /\ UNCHANGED <<buffer, calls, others, nInput, size, got, taken, hit, missed, typed>>

\* the rest of pump(): enter runs a line that is not blank
Edit ==
    /\ pc = "edit"
    /\ \/ /\ nInput = Enter
          /\ command' = <<>>
          /\ ran' = IF command = <<>> THEN ran ELSE Append(ran, command)
       \/ /\ nInput = Backspace /\ command # <<>>
          /\ command' = Front(command)
          /\ UNCHANGED ran
       \/ /\ nInput \in Printable
          /\ command' = Append(command, nInput)
          /\ UNCHANGED ran
       \/ /\ nInput = Control \/ (nInput = Backspace /\ command = <<>>)
          /\ UNCHANGED <<command, ran>>
    /\ pc' = "idle"
    /\ UNCHANGED <<buffer, calls, others, nInput, size, got, taken, hit, missed, typed>>

Pump == TakeFront \/ MoveDown \/ LoadSize \/ StoreSize \/ Edit

Next == (\E c \in Chars : Interrupt(c)) \/ OtherPosts \/ OtherRuns \/ Dispatch \/ Pump

Spec == Init /\ [][Next]_vars

\* the main thread returns from its callbacks and dispatches: the queue is ordered by
\* time, so that the turn of a call of pump() comes
FairSpec == Spec /\ WF_vars(Dispatch \/ Pump)

-----------------------------------------------------------------------------
(* Properties *)

TypeOK == /\ buffer \in Seq(Chars)
          /\ calls \in Nat /\ others \in Nat /\ calls + others <= QueueRoom
          /\ pc \in {"idle", "front", "move", "load", "store", "edit"}
          /\ nInput \in Chars
          /\ size \in 0..Capacity
          /\ command \in Seq(Printable)
          /\ got \in Seq(Chars) /\ taken \in Seq(Chars)
          /\ ran \in Seq(Seq(Printable))
          /\ hit \in BOOLEAN /\ missed \in Nat
          /\ typed \in 0..MaxTyped

\* The vector never outgrows what init() reserved, so the interrupt never allocates
\* (commander.cpp:102-103), even when it hits in the middle of erase().
NeverGrows == Len(buffer) <= Capacity

Taking == pc \in {"front", "move", "load", "store"}

\* A character is stranded, left in the buffer with no call of pump() to come, only if an
\* evq.call() failed for one since the buffer was last empty (main.cpp:1523), and no more
\* of them than calls failed - whatever the interrupt did to an erase() under way.
NoneStranded == Len(buffer) <= calls + missed + (IF Taking THEN 1 ELSE 0)

\* Once the typing stops, the buffer drains, down to what failed calls have stranded.
Drains == []<>(Len(buffer) <= missed /\ pc = "idle")

\* The command line is the characters taken since the last enter, each backspace having
\* removed the printable one before it, if any.
Edited(s) == FoldLeft(LAMBDA line, c : IF c \in Printable THEN Append(line, c)
                                       ELSE IF c = Backspace /\ line # <<>> THEN Front(line)
                                       ELSE line, <<>>, s)
SinceEnter(s) == SubSeq(s, SelectLastInSeq(s, LAMBDA c : c = Enter) + 1, Len(s))
LineIsEdited == pc = "idle" => command = Edited(SinceEnter(taken))

\* "All it does is append our current input buffer with the last thing on the port"
\* (commander.h:204-205): the characters appended are the ones taken and the ones still
\* in the buffer, in their order - as long as none came in the middle of erase(), which
\* nothing prevents: then erase() stores a size that forgets it, or a copy of another.
InputKept == pc = "idle" /\ ~hit => taken \o buffer = got
=============================================================================
