------------------------------ MODULE ShellPager ------------------------------
(***************************************************************************)
(* Paging: which rows of the shell transcript and of the error report are  *)
(* on screen.  Keys compute with the viewport the loop stored from the     *)
(* terminal's size; the frame is drawn with the size the terminal has by   *)
(* then, and output may be added or the window resized between a frame and *)
(* the key pressed on it.                                                  *)
(*                                                                         *)
(* Text is measured in lines that take one row on a wide terminal and two  *)
(* on a narrow one; what the lines say is left out.  A terminal may be     *)
(* lower than the layout, and a text longer than a frame can scroll.       *)
(***************************************************************************)
EXTENDS Integers

CONSTANTS
  Sizes,      (* terminal sizes: [narrow : BOOLEAN, height : Nat]           *)
  None,       (* shell_top is None: follow the prompt                       *)
  ScrollMax,  (* the last row a Paragraph can scroll to, u16::MAX           *)
  MaxLength,  (* bound: lines of transcript                                 *)
  ReportLines (* lines of an error report                                   *)

VARIABLES
  pass,     (* "measure" and "draw" of one pass, then "select"              *)
  size,     (* what the terminal is now                                     *)
  viewport, (* app.shell_viewport                                           *)
  length,   (* shell_history and the prompt, in lines                       *)
  top,      (* app.shell_top                                                *)
  mode,     (* "Shell", or "Error" while the report covers the screen       *)
  scroll,   (* app.error_scroll                                             *)
  frame     (* the last frame drawn: its size and the first row it shows    *)
vars == <<pass, size, viewport, length, top, mode, scroll, frame>>

-------------------------------------------------------------------------------
Lesser(a, b) == IF a < b THEN a ELSE b
Less(a, b) == IF a < b THEN 0 ELSE a - b
Greater(a, b) == IF a < b THEN b ELSE a

Rows(count, narrow) == IF narrow THEN 2 * count ELSE count

(* Header 6, tabs 1, status 2 and two borders leave the pane this height.  *)
PaneHeight(s) == Less(s.height, 11)
Viewport(s) == [narrow |-> s.narrow, height |-> PaneHeight(s)]

(* max_top: by the stored viewport. *)
MaxTop(v) == Less(Rows(length, v.narrow), v.height)
Resolved(end) == IF top = None THEN end ELSE Lesser(top, end)

(* Fault: takes the report to show no more rows than the shell does. *)
ErrorMaxScrollOfPane(v) == Lesser(Less(Rows(ReportLines, v.narrow), v.height), ScrollMax)

(* error_max_scroll: the viewport's height, which was saturated at zero,   *)
(* and the nine rows the report has beyond the pane; a u16.                *)
ErrorMaxScroll(v) == Lesser(Less(Rows(ReportLines, v.narrow), v.height + 9), ScrollMax)

(* What the frame really has room for, and what it has to show in it. *)
Room(s) == IF mode = "Error" THEN Less(s.height, 2) ELSE PaneHeight(s)

Content(s) == Rows(IF mode = "Error" THEN ReportLines ELSE length, s.narrow)
FrameEnd(s) == Less(Content(s), Room(s))

Init ==
  /\ pass = "measure" /\ size \in Sizes
  /\ viewport = [narrow |-> FALSE, height |-> 0]
  /\ length = 1 /\ top = None /\ mode = "Shell" /\ scroll = 0
  /\ frame = [size |-> size, first |-> 0]

-------------------------------------------------------------------------------
Measure ==
  /\ pass = "measure"
  /\ viewport' = Viewport(size)
  /\ pass' = "draw"
  /\ UNCHANGED <<size, length, top, mode, scroll, frame>>

(* shell::draw and chrome::draw_error. *)
Draw ==
  /\ pass = "draw"
  /\ frame' = [size |-> size,
               first |-> Lesser(IF mode = "Error" THEN Lesser(scroll, FrameEnd(size))
                                                  ELSE Resolved(FrameEnd(size)),
                                ScrollMax)]
  /\ pass' = "select"
  /\ UNCHANGED <<size, viewport, length, top, mode, scroll>>

(* The operator drags the window at any moment; the event comes later. *)
Resize ==
  /\ size' \in Sizes
  /\ UNCHANGED <<pass, viewport, length, top, mode, scroll, frame>>

ResizeEvent ==
  /\ pass = "select"
  /\ viewport' = Viewport(size)
  /\ pass' = "measure"
  /\ UNCHANGED <<size, length, top, mode, scroll, frame>>

Key ==
  /\ pass = "select"
  /\ pass' = "measure"
  /\ UNCHANGED <<size, viewport, frame>>

(* Fault: pages from a row beyond the end. *)
PageFromBeyond(up) ==
  LET end == MaxTop(viewport)
      from == IF top = None THEN end ELSE top
      distance == Greater(viewport.height, 1)
      next == IF up THEN Less(from, distance) ELSE Lesser(from + distance, end)
  IN  top' = IF next = end THEN None ELSE next

(* ui::shell::page: at the bottom the transcript is followed again. *)
Page(up) ==
  LET end == MaxTop(viewport)
      from == Resolved(end)
      distance == Greater(viewport.height, 1)
      next == IF up THEN Less(from, distance) ELSE Lesser(from + distance, end)
  IN  top' = IF next = end THEN None ELSE next

PageUp == Key /\ mode = "Shell" /\ Page(TRUE) /\ UNCHANGED <<length, mode, scroll>>

PageDown == Key /\ mode = "Shell" /\ Page(FALSE) /\ UNCHANGED <<length, mode, scroll>>

Home ==
  /\ Key /\ mode = "Shell"
  /\ top' = 0
  /\ UNCHANGED <<length, mode, scroll>>

End ==
  /\ Key /\ mode = "Shell"
  /\ top' = None
  /\ UNCHANGED <<length, mode, scroll>>

(* An outcome arrives, or typing wraps onto another row. *)
Output ==
  /\ Key
  /\ \E n \in 1 .. MaxLength : n > length /\ length' = n
  /\ UNCHANGED <<top, mode, scroll>>

(* A submitted line is followed: the composer's Enter, then start_shell. *)
Submit ==
  /\ Key /\ mode = "Shell"
  /\ \E n \in 1 .. MaxLength : n > length /\ length' = n
  /\ top' = None
  /\ UNCHANGED <<mode, scroll>>

(* Raising opens the report at its first row. *)
Raise ==
  /\ Key
  /\ mode' = "Error" /\ scroll' = 0
  /\ UNCHANGED <<length, top>>

(* j, k, PgDn, PgUp and Home on the report. *)
ErrorScroll ==
  /\ Key /\ mode = "Error"
  /\ LET page == Greater(viewport.height, 1)
         next == {scroll + 1, Less(scroll, 1), scroll + page, Less(scroll, page), 0}
     IN  scroll' \in {Lesser(n, ErrorMaxScroll(viewport)) : n \in next}
  /\ UNCHANGED <<length, top, mode>>

ErrorClose ==
  /\ Key /\ mode = "Error"
  /\ mode' = "Shell"
  /\ UNCHANGED <<length, top, scroll>>

(* A hop starts another transcript, raised or not. *)
Hop ==
  /\ Key /\ mode = "Shell"
  /\ length' = 1 /\ top' = None
  /\ UNCHANGED <<mode, scroll>>

Next ==
  \/ Measure \/ Draw \/ Resize \/ ResizeEvent
  \/ PageUp \/ PageDown \/ Home \/ End \/ Output \/ Submit \/ Hop
  \/ Raise \/ ErrorScroll \/ ErrorClose
Spec == Init /\ [][Next]_vars
-------------------------------------------------------------------------------
(* The key that ends this select is pressed on the frame as it stands: no  *)
(* resize the loop has not seen.                                           *)
Settled == pass = "select" /\ frame.size = size /\ viewport = Viewport(size)

(* The first row the next frame will show if nothing else happens.         *)
Upcoming(t, end) == IF t = None THEN end ELSE Lesser(t, end)

(* Paging reads on: a page never skips a row nobody has seen, and gets     *)
(* somewhere unless there is nothing further (ui::shell::page against what *)
(* draw put on the screen), however the window was resized before.  The    *)
(* second is only so while the end is within what a frame can scroll to:   *)
(* past it the offsets that page computes are all drawn as one.            *)
PagesReadOn ==
  Settled /\ mode = "Shell" /\ PaneHeight(size) > 0 =>
    LET end == FrameEnd(size)
        next == Lesser(Upcoming(top', end), ScrollMax)
    IN  /\ PageDown => next - frame.first <= PaneHeight(size)
        /\ PageUp => frame.first - next <= PaneHeight(size)
        /\ end <= ScrollMax =>
             /\ PageDown => next > frame.first \/ frame.first = end
             /\ PageUp => next < frame.first \/ frame.first = 0

(* Output, a report opened and closed, or a frame redrawn do not move a    *)
(* transcript that was paged away from its end.                            *)
ReaderIsLeftAlone ==
  top # None /\ top' # top => PageUp \/ PageDown \/ Home \/ End \/ Submit \/ Hop

(* Paging down to the bottom follows the prompt again: an offset is only   *)
(* kept by a page that left something below it.                            *)
BottomFollows == (PageDown \/ PageUp) /\ top' # None => top' < MaxTop(viewport)

(* The reader of the transcript keeps his place (ui::shell::page and draw, *)
(* App::shell_top): nothing else moves him, a page reads on from what he   *)
(* saw, and the bottom is followed again.                                  *)
ReaderKeepsPlace == [][PagesReadOn /\ ReaderIsLeftAlone /\ BottomFollows]_vars

(* The rows a frame shows are those after its first, as many as it has     *)
(* room for: is the last one, the prompt's, among them?                    *)
PromptOnScreen ==
  /\ frame.first < Rows(length, size.narrow)
  /\ Rows(length, size.narrow) <= frame.first + PaneHeight(size)

(* chrome.rs documents error_max_scroll as how far the error pane can      *)
(* scroll at the current terminal size, over a report that is never cut    *)
(* short: as far as its last row.                                          *)
ReportInReach == ErrorMaxScroll(viewport) = FrameEnd(size)
ReportReachable == Settled /\ mode = "Error" => ReportInReach

(* Where the end of either text can be shown, and where it cannot: a       *)
(* transcript that follows its prompt (App::shell_top) shows it in every   *)
(* pane that has a row, up to the last offset a frame can scroll to; the   *)
(* report's last row can be scrolled to (error_max_scroll computes by the  *)
(* stored viewport, draw_error by the frame) on every terminal that has    *)
(* the eleven rows of the layout, up to that offset.  On a lower one it    *)
(* is out of reach unless the report needs no scrolling at all.            *)
WithinScroll == FrameEnd(size) <= ScrollMax
EndIsShown ==
  /\ Settled /\ mode = "Shell" /\ top = None =>
       (PromptOnScreen <=> (PaneHeight(size) > 0 /\ WithinScroll))
  /\ Settled /\ mode = "Error" =>
       (ReportInReach <=> (FrameEnd(size) = 0 \/ (size.height >= 11 /\ WithinScroll)))
===============================================================================
