------------------------------ MODULE LineReader ------------------------------
(***************************************************************************)
(* read_line of the structured transport: commands cut out of a byte       *)
(* stream that arrives in chunks of any size, with a limit on the bytes of *)
(* one line, an optional CR before the LF, and UTF-8 checked line by line. *)
(*                                                                         *)
(* The bytes told apart are LF, CR, an ASCII byte "x" and the two bytes    *)
(* "h1", "h2" of one character.                                            *)
(***************************************************************************)
EXTENDS Naturals, Sequences, FiniteSets, SequencesExt

CONSTANTS
  MaxLine,   (* MAX_LINE, the terminator included                           *)
  MaxStream, (* bound: bytes the client sends before it closes              *)
  Buffer     (* BufReader's capacity: the largest chunk                     *)

VARIABLES
  sent,      (* everything the client sends                                 *)
  stream,    (* what has not arrived yet                                    *)
  available, (* fill_buf's chunk, or what consume left of it                *)
  bytes,     (* the line being read                                         *)
  lines,     (* what read_line has returned Ok(Some) of so far              *)
  ending     (* "" while lines are read, then why the session reads no more *)
vars == <<sent, stream, available, bytes, lines, ending>>

Byte == {"x", "h1", "h2", "CR", "LF"}

(* String::from_utf8: each h1 is followed by its h2, each h2 follows one. *)
Utf8(s) ==
  \A i \in 1 .. Len(s) :
    /\ s[i] = "h1" => i < Len(s) /\ s[i + 1] = "h2"
    /\ s[i] = "h2" => i > 1 /\ s[i - 1] = "h1"

FirstLF(s) == SelectInSeq(s, LAMBDA b : b = "LF")

(* How much of the chunk belongs to this line, its LF included. *)
Count == IF FirstLF(available) = 0 THEN Len(available) ELSE FirstLF(available)

WithoutCR(s) == IF s # <<>> /\ Last(s) = "CR" THEN Front(s) ELSE s

Init ==
  /\ \E n \in 0 .. MaxStream : sent \in [1 .. n -> Byte]
  /\ stream = sent /\ available = <<>> /\ bytes = <<>> /\ lines = <<>> /\ ending = ""

(* fill_buf asks the descriptor only when the last chunk is used up. *)
Arrive ==
  /\ ending = "" /\ available = <<>> /\ stream # <<>>
  /\ \E n \in 1 .. Len(stream) :
       /\ n <= Buffer
       /\ available' = SubSeq(stream, 1, n)
       /\ stream' = SubSeq(stream, n + 1, Len(stream))
  /\ UNCHANGED <<sent, bytes, lines, ending>>

EndOfInput ==
  /\ ending = "" /\ available = <<>> /\ stream = <<>>
  /\ ending' = IF bytes = <<>> THEN "closed" ELSE "unterminated"
  /\ UNCHANGED <<sent, stream, available, bytes, lines>>

Exceeds == Len(bytes) + Count > MaxLine

TooLong ==
  /\ ending = "" /\ available # <<>> /\ Exceeds
  /\ ending' = "too long"
  /\ UNCHANGED <<sent, stream, available, bytes, lines>>

(* Fault: each chunk is decoded as it comes. *)
TakeDecoding ==
  /\ ending = "" /\ available # <<>> /\ ~Exceeds
  /\ FirstLF(available) = 0
  /\ IF Utf8(available) THEN UNCHANGED ending ELSE ending' = "invalid"
  /\ bytes' = bytes \o available
  /\ available' = <<>>
  /\ UNCHANGED <<sent, stream, lines>>

(* A chunk without LF is taken whole. *)
Take ==
  /\ ending = "" /\ available # <<>> /\ ~Exceeds
  /\ FirstLF(available) = 0
  /\ bytes' = bytes \o available
  /\ available' = <<>>
  /\ UNCHANGED <<sent, stream, lines, ending>>

(* The line is complete; what follows its LF stays for the next one. *)
TakeLine ==
  /\ ending = "" /\ available # <<>> /\ ~Exceeds
  /\ FirstLF(available) # 0
  /\ LET line == WithoutCR(bytes \o SubSeq(available, 1, Count - 1))
     IN  IF Utf8(line)
         THEN lines' = Append(lines, line) /\ UNCHANGED ending
         ELSE ending' = "invalid" /\ UNCHANGED lines
  /\ bytes' = <<>>
  /\ available' = SubSeq(available, Count + 1, Len(available))
  /\ UNCHANGED <<sent, stream>>

Terminated == ending # "" /\ UNCHANGED vars

Next == Arrive \/ EndOfInput \/ TooLong \/ Take \/ TakeLine \/ Terminated
Spec == Init /\ [][Next]_vars
-------------------------------------------------------------------------------
(* What the protocol promises of a stream, said of the whole stream: the   *)
(* lines before the first that is too long, unterminated or not UTF-8, and *)
(* why it stops there.                                                     *)
Ends(s) == {i \in 1 .. Len(s) : s[i] = "LF"}
LineFrom(s, i) ==
  IF \E j \in Ends(s) : j >= i
  THEN SubSeq(s, i, CHOOSE j \in Ends(s) : j >= i /\ \A k \in Ends(s) : k >= i => j <= k)
  ELSE SubSeq(s, i, Len(s))
Verdict(line) ==
  IF line = <<>> THEN "closed"
  ELSE IF Len(line) > MaxLine THEN "too long"
  ELSE IF Last(line) # "LF" THEN "unterminated"
  ELSE IF Utf8(WithoutCR(Front(line))) THEN "" ELSE "invalid"
Starts(s) == {1} \cup {i + 1 : i \in Ends(s)}
(* Where the first line without an answer starts. *)
Bad(s) ==
  CHOOSE i \in Starts(s) : /\ Verdict(LineFrom(s, i)) # ""
                           /\ \A j \in Starts(s) : j < i => Verdict(LineFrom(s, j)) = ""
Nth(S, n) == CHOOSE i \in S : Cardinality({j \in S : j < i}) = n - 1
Good(s) ==
  [n \in 1 .. Cardinality({i \in Starts(s) : i < Bad(s)}) |->
     WithoutCR(Front(LineFrom(s, Nth(Starts(s), n))))]

(* How the stream is cut into chunks is invisible: the same lines are run  *)
(* and the session stops for the same reason, a buffer boundary inside a   *)
(* character, between CR and LF or at the limit included.                  *)
ChunkingIsInvisible ==
  /\ IsPrefix(lines, Good(sent))
  /\ ending # "" => lines = Good(sent) /\ ending = Verdict(LineFrom(sent, Bad(sent)))
===============================================================================
