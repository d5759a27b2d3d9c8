------------------------------- MODULE Captions -------------------------------
(***************************************************************************)
(* Which lines a reel shows, and when (agents/workflows/video/nodes.py):    *)
(* the hook on the first shot, one proof line in the middle, the call to    *)
(* action on the last planned beat.  Times are in twentieths of a second;   *)
(* a line is a member of a small set, "" where a shot has none.             *)
(***************************************************************************)
EXTENDS Integers, SequencesExt

PadIn == 4           \* _OVERLAY_PAD_IN_S
PadOut == 3          \* _OVERLAY_PAD_OUT_S
MinEvent == 6        \* _OVERLAY_MIN_EVENT_S
MinOnScreen == 32    \* _OVERLAY_MIN_ON_SCREEN_S
HookStart == 7       \* _HOOK_START_S
MaxHold == 64        \* _CAPTION_MAX_HOLD_S
Dwell == MinOnScreen + PadIn + PadOut
SnapTolerance == 20  \* _CUT_SNAP_TOLERANCE_S
HalfSecond == 10
Nudge == 7           \* _DISSOLVE_NUDGE_S
MinNudged == 40      \* _MIN_NUDGED_WINDOW_S

AskLine == "cta"
Least(a, b) == IF a < b THEN a ELSE b
Most(a, b) == IF a > b THEN a ELSE b

\* What the first shots last together, for every number of them.
Upto(w) == LET sum[i \in 0..Len(w)] == IF i = 0 THEN 0 ELSE sum[i - 1] + w[i] IN sum
Total(w) == Upto(w)[Len(w)]
StartOf(w, i) == Upto(w)[i - 1]

----------------------------------------------------------------------------
(* Windows: how long each shot is on screen *)

\* The planned lengths scaled onto a clip; the last takes up the rounding.
Distribute(planned, total) ==
    LET share(i) == (planned[i] * total) \div Total(planned)
        n == Len(planned)
        shares == [i \in 1..(n - 1) |-> share(i)]
    IN IF total <= 0 THEN [i \in 1..n |-> 0]
       ELSE [i \in 1..n |-> IF i < n THEN shares[i] ELSE total - Total(shares)]

\* The cut nearest to a boundary, if it is near enough to be that boundary.
Near(b, cuts) ==
    {c \in cuts : /\ c - b <= SnapTolerance /\ b - c <= SnapTolerance
                  /\ \A d \in cuts : Most(c - b, b - c) <= Most(d - b, b - d)}

\* Each inner boundary moves to its cut unless a neighbour would get less than
\* half a second: [ends |-> boundaries, sure |-> shots whose start is a cut].
Snapped(w, cuts) ==
    LET n == Len(w)
        planned == Upto(w)
        moved(i) == i < n /\ Near(planned[i], cuts) # {}
        wish == [i \in 1..n |-> IF moved(i) THEN CHOOSE c \in Near(planned[i], cuts) : TRUE
                                ELSE planned[i]]
        fits(prev, i) == prev + HalfSecond <= wish[i] /\ wish[i] <= wish[i + 1] - HalfSecond
        end[i \in 0..n] == IF i = 0 THEN 0
                           ELSE IF moved(i) /\ fits(end[i - 1], i) THEN wish[i] ELSE planned[i]
    IN [ends |-> end, sure |-> {i \in 2..n : moved(i - 1) /\ fits(end[i - 2], i - 1)}]

\* An unconfirmed boundary is a dissolve: the caption windows leave it behind.
DissolveSafe(w, sure) ==
    LET leaves(i) == i \in 2..Len(w) /\ i \notin sure /\ w[i] - Nudge >= MinNudged
    IN [i \in 1..Len(w) |-> w[i] - (IF leaves(i) THEN Nudge ELSE 0)
                                + (IF leaves(i + 1) THEN Nudge ELSE 0)]

NativeWindows(w, cuts) ==
    LET s == Snapped(w, cuts)
        lengths == [i \in 1..Len(w) |-> s.ends[i] - s.ends[i - 1]]
    IN DissolveSafe(lengths, s.sure)

----------------------------------------------------------------------------
(* Lines.  A shot is [of |-> the planned beat it shows, text |-> its line]. *)

\* The first rendered shot of the last planned beat, past the end without a
\* call to action.
AskFrom(shots, ask) ==
    LET n == Len(shots)
        tail == {i \in 1..n : \A j \in i..n : shots[j].of = shots[n].of}
    IN IF ask THEN CHOOSE i \in tail : \A j \in tail : i <= j ELSE n + 1

Proofs(shots, to) == {i \in 2..(to - 1) : shots[i].text \notin {"", shots[1].text}}

\* The hook, and of the lines in the middle the one with the longest window.
KeptLines(shots, w, from) ==
    LET mids == Proofs(shots, from)
        longest(i) == \A j \in mids : w[j] < w[i] \/ (w[j] = w[i] /\ j <= i)
    IN {1} \cup {i \in mids : longest(i)}

Beats(shots, w, ask) ==
    LET from == AskFrom(shots, ask)
        line(i) == IF i >= from THEN [text |-> AskLine, style |-> "CTA"]
                   ELSE [text |-> IF i \in KeptLines(shots, w, from) THEN shots[i].text ELSE "",
                         style |-> IF i = 1 THEN "Hook" ELSE "Overlay"]
    IN [i \in 1..Len(shots) |-> [text |-> line(i).text, style |-> line(i).style,
                                 from |-> StartOf(w, i), to |-> StartOf(w, i + 1)]]

ExtendLast(s, e) == [s EXCEPT ![Len(s)].to = e.to]

\* Consecutive windows with one line are one.
Joined(s, e) ==
    IF s # <<>> /\ Last(s).text = e.text /\ Last(s).style = e.style
    THEN ExtendLast(s, e) ELSE Append(s, e)
Merged(beats) ==
    LET merged[i \in 0..Len(beats)] ==
            IF i = 0 THEN <<>> ELSE Joined(merged[i - 1], beats[i])
    IN merged[Len(beats)]

\* A line too short to read holds over clean footage and its own style.
Brief(e) == e.text # "" /\ e.to - e.from < Dwell
HeldOver(s, e) ==
    IF s # <<>> /\ Brief(Last(s)) /\ (e.style = Last(s).style \/ e.text = "")
    THEN ExtendLast(s, e) ELSE Append(s, e)
Held(beats) ==
    LET held[i \in 0..Len(beats)] ==
            IF i = 0 THEN <<>> ELSE HeldOver(held[i - 1], beats[i])
    IN held[Len(beats)]

\* Mutant: a call to action that is too short stays so.
AskKeepsItsWindow(held) == held

\* A call to action that is too short takes its time from what comes before it.
AskTakesBack(held) ==
    LET last == held[Len(held)]
        start == Most(held[1].from, last.to - Dwell)
        cut(e) == [e EXCEPT !.to = Least(@, Most(e.from, start))]
    IN IF Len(held) > 1 /\ last.style = "CTA" /\ last.to - last.from < Dwell
       THEN Append([i \in 1..(Len(held) - 1) |-> cut(held[i])], [last EXCEPT !.from = start])
       ELSE held

OnScreen(e) ==
    LET start == IF e.style = "Hook" /\ e.from < HookStart THEN HookStart ELSE e.from + PadIn
        end == e.to - PadOut
    IN [text |-> e.text, style |-> e.style, start |-> start,
        end |-> IF e.style = "CTA" THEN end ELSE Least(end, start + MaxHold)]

\* Lines that are long enough to be worth burning.
Burnt(events) ==
    LET burnt[i \in 0..Len(events)] ==
            IF i = 0 THEN <<>>
            ELSE IF events[i].text # "" /\ events[i].end - events[i].start >= MinEvent
                 THEN Append(burnt[i - 1], events[i]) ELSE burnt[i - 1]
    IN burnt[Len(events)]

\* _overlay_events: what is burned, in order.
OverlayEvents(shots, w, ask) ==
    LET held == AskTakesBack(Held(Merged(Beats(shots, w, ask))))
    IN Burnt([i \in 1..Len(held) |-> OnScreen(held[i])])

=============================================================================
