------------------------------ MODULE PartsProofs ------------------------------
(***************************************************************************)
(* What the parts promise, for every value of the constants.  A behaviour  *)
(* of the whole is one of each part, so that a part is proved about alone: *)
(* what a transcript shows in TranscriptFoldProofs, the inventory in       *)
(* AssetsProofs and the start in SelectionProofs, which are cited at the   *)
(* end, and the other parts here.                                          *)
(***************************************************************************)
EXTENDS AllParts, Counting, Sequences, SequenceTheorems, FiniteSetTheorems, TLAPS

-------------------------------------------------------------------------------
(* Each part of the whole makes its own steps or none. *)

LEMMA ResultsRun == Spec => Results!Init /\ [][Results!Next]_resultsVars
<1>1. Init => Results!Init BY DEF Init
<1>2. [Next]_vars => [Results!Next]_resultsVars BY DEF Next, vars, OnlyPart
<1>3. QED BY <1>1, <1>2, PTL DEF Spec

LEMMA LinesRun == Spec => Lines!Init /\ [][Lines!Next]_linesVars
<1>1. Init => Lines!Init BY DEF Init
<1>2. [Next]_vars => [Lines!Next]_linesVars BY DEF Next, OnlyPart, vars
<1>3. QED BY <1>1, <1>2, PTL DEF Spec

LEMMA ScanRuns == Spec => Scan!Init /\ [][Scan!Next]_credentialsVars
<1>1. Init => Scan!Init BY DEF Init
<1>2. [Next]_vars => [Scan!Next]_credentialsVars BY DEF Next, vars, OnlyPart
<1>3. QED BY <1>1, <1>2, PTL DEF Spec

LEMMA PagerRuns == Spec => Pager!Init /\ [][Pager!Next]_pagerVars
<1>1. Init => Pager!Init BY DEF Init
<1>2. [Next]_vars => [Pager!Next]_pagerVars BY DEF Next, vars, OnlyPart
<1>3. QED BY <1>1, <1>2, PTL DEF Spec

LEMMA RevealsRun == Spec => Reveals!Init /\ [][Reveals!Next]_revealsVars
<1>1. Init => Reveals!Init BY DEF Init
<1>2. [Next]_vars => [Reveals!Next]_revealsVars BY DEF Next, vars, OnlyPart
<1>3. QED BY <1>1, <1>2, PTL DEF Spec

LEMMA ReportsRun == Spec => Told!Init /\ [][Told!Next]_toldVars
<1>1. Init => Told!Init BY DEF Init
<1>2. [Next]_vars => [Told!Next]_toldVars BY DEF Next, vars, OnlyPart
<1>3. QED BY <1>1, <1>2, PTL DEF Spec

-------------------------------------------------------------------------------
(* Results.  No frame is forged because a line is escaped before it is     *)
(* clipped; a cut is noted because the clip, not the number of lines       *)
(* written, decides whether anything is left of the limit; and the limit   *)
(* holds because it is charged for what the clip left.                     *)

Shape(forms) == [form : forms, chars : Nat, width : {1, 3}]
Raw == Shape({"plain", "marker", "tabbed"})
Safe == Shape({"plain"})

(* Escaping leaves no marker, also of a line that was one only behind a    *)
(* tab.                                                                    *)
LEMMA EscapeSafe == ASSUME NEW line \in Raw PROVE Results!Escape(line) \in Safe
<1>1. CASE line.form = "plain"
  <2>1. Results!Sanitize(line) = line BY <1>1 DEF Raw, Shape, Results!Sanitize
  <2>2. QED BY <1>1, <2>1 DEF Raw, Safe, Shape, Results!Escape
<1>2. CASE line.form # "plain"
  <2>1. Results!Sanitize(line) = [line EXCEPT !.form = "marker"]
    BY <1>2 DEF Raw, Shape, Results!Sanitize
  <2>2. Results!Escape(line) = [form |-> "plain", chars |-> line.chars + 2, width |-> line.width]
    BY <2>1 DEF Raw, Shape, Results!Escape
  <2>3. QED BY <2>2 DEF Raw, Safe, Shape
<1>3. QED BY <1>1, <1>2

(* Clipping makes no marker, keeps to the limit, and below the limit it    *)
(* leaves the line as it is.                                               *)
LEMMA ClipSafe ==
  ASSUME NEW line \in Safe, NEW n \in Nat
  PROVE  /\ Results!Clip(line, n) \in Safe
         /\ Results!Clip(line, n).chars <= n
         /\ Results!Clip(line, n).chars < n => Results!Clip(line, n) = line
<1>1. CASE line.chars <= n BY <1>1 DEF Results!Clip, Safe, Shape
<1>2. CASE line.chars > n
  <2>1. ~(line.chars <= n) BY <1>2 DEF Safe, Shape
  <2>2. Results!Clip(line, n) = [form |-> "plain", chars |-> n, width |-> line.width]
    BY <2>1 DEF Results!Clip, Safe, Shape
  <2>3. QED BY <2>2 DEF Safe, Shape
<1>3. QED BY <1>1, <1>2 DEF Safe, Shape

(* What is left of the text is its end, and while anything is left of the  *)
(* limit each line written is the whole of its own.                        *)
ResultsTyped ==
  /\ outcome \in Seq(Raw) /\ todo \in Seq(Raw) /\ body \in Seq(Safe)
  /\ remaining \in Nat
Upto ==
  /\ Len(body) + Len(todo) = Len(outcome)
  /\ \A i \in 1 .. Len(todo) : todo[i] = outcome[Len(body) + i]
Whole ==
  remaining > 0 => \A i \in 1 .. Len(body) : body[i] = Results!Escape(outcome[i])
Noted ==
  place = "ended" => (cut <=> remaining = 0) /\ (todo = <<>> \/ remaining = 0)

ResultsInv == ResultsTyped /\ Upto /\ Whole /\ Noted

LEMMA ResultsInit == Results!Init => ResultsInv
<1> SUFFICES ASSUME Results!Init PROVE ResultsInv OBVIOUS
<1>1. outcome \in Seq(Raw)
  <2>1. Results!Line \subseteq Raw BY DEF Results!Line, Raw, Shape
  <2>2. PICK n \in 1 .. MaxTextLines : outcome \in [1 .. n -> Results!Line] BY DEF Results!Init
  <2>3. QED BY <2>1, <2>2
<1>2. MaxOutput \in Nat BY PartsAssumption
<1>3. QED BY <1>1, <1>2
  DEF Results!Init, ResultsInv, ResultsTyped, Upto, Whole, Noted

(* One line more: the next of the text, whole if anything is left after it.*)
LEMMA WriteLineKeeps == ResultsInv /\ Results!WriteLine => ResultsInv'
<1> SUFFICES ASSUME ResultsInv, Results!WriteLine PROVE ResultsInv' OBVIOUS
<1> DEFINE line == Results!Clip(Results!Escape(Head(todo)), remaining)
<1>1. ResultsTyped /\ Upto /\ Whole BY DEF ResultsInv
<1>2. /\ body' = Append(body, line) /\ remaining' = remaining - line.chars
      /\ todo' = Tail(todo) /\ todo # <<>> /\ remaining > 0
      /\ outcome' = outcome /\ place' = "lines"
  BY DEF Results!WriteLine
<1>3. Head(todo) \in Raw BY <1>1, <1>2 DEF ResultsTyped
<1>4. /\ line \in Safe /\ line.chars <= remaining
      /\ line.chars < remaining => line = Results!Escape(Head(todo))
  BY <1>1, <1>3, EscapeSafe, ClipSafe DEF ResultsTyped
<1>5. line.chars \in Nat BY <1>4 DEF Safe, Shape
<1> HIDE DEF line
<1>6. ResultsTyped' BY <1>1, <1>2, <1>4, <1>5 DEF ResultsTyped
<1>7. /\ Len(body') = Len(body) + 1 /\ Len(todo') + 1 = Len(todo)
      /\ Len(body) \in Nat /\ Len(todo') \in Nat
  BY <1>1, <1>2, <1>4 DEF ResultsTyped
<1>8. Upto'
  <2>1. ASSUME NEW i \in 1 .. Len(todo') PROVE todo'[i] = outcome'[Len(body') + i]
    <3>1. i + 1 \in 1 .. Len(todo) BY <1>7
    <3>2. todo'[i] = todo[i + 1] BY <1>1, <1>2, <3>1 DEF ResultsTyped
    <3>3. Len(body') + i = Len(body) + (i + 1) BY <1>7
    <3>4. QED BY <1>1, <1>2, <3>1, <3>2, <3>3 DEF Upto
  <2>2. QED BY <1>1, <1>2, <1>7, <2>1 DEF Upto
<1>9. Whole'
  <2>1. SUFFICES ASSUME remaining' > 0, NEW i \in 1 .. Len(body')
                 PROVE  body'[i] = Results!Escape(outcome'[i])
    BY DEF Whole
  <2>2. CASE i <= Len(body)
    <3>1. body'[i] = body[i] BY <1>1, <1>2, <1>7, <2>2 DEF ResultsTyped
    <3>2. i \in 1 .. Len(body) BY <1>7, <2>2
    <3>3. QED BY <1>1, <1>2, <3>1, <3>2 DEF Whole
  <2>3. CASE i = Len(body) + 1
    <3>1. body'[i] = line BY <1>1, <1>2, <1>7, <2>3 DEF ResultsTyped
    <3>2. line = Results!Escape(Head(todo)) BY <1>1, <1>2, <1>4, <1>5, <2>1 DEF ResultsTyped
    <3>3. 1 \in 1 .. Len(todo) BY <1>7
    <3>4. Head(todo) = outcome[i]
      <4>1. Head(todo) = todo[1] BY <1>1, <3>3 DEF ResultsTyped
      <4>2. QED BY <1>1, <2>3, <3>3, <4>1 DEF Upto
    <3>5. QED BY <1>2, <3>1, <3>2, <3>4
  <2>4. QED BY <1>7, <2>2, <2>3
<1>10. Noted' BY <1>2 DEF Noted
<1>11. QED BY <1>6, <1>8, <1>9, <1>10 DEF ResultsInv

LEMMA ResultsStep == ResultsInv /\ [Results!Next]_resultsVars => ResultsInv'
<1> SUFFICES ASSUME ResultsInv, [Results!Next]_resultsVars PROVE ResultsInv' OBVIOUS
<1>1. CASE Results!WriteLine BY <1>1, WriteLineKeeps
<1>2. CASE Results!Close
  BY <1>2 DEF Results!Close, ResultsInv, ResultsTyped, Upto, Whole, Noted
<1>3. CASE Results!ClientGone
  BY <1>3 DEF Results!ClientGone, ResultsInv, ResultsTyped, Upto, Whole, Noted
<1>4. CASE UNCHANGED resultsVars
  BY <1>4 DEF resultsVars, ResultsInv, ResultsTyped, Upto, Whole, Noted
<1>5. QED BY <1>1, <1>2, <1>3, <1>4 DEF Results!Next, Results!Terminated, Results!vars, resultsVars

-------------------------------------------------------------------------------
(* What the specification counts is the sum of the lines' characters. *)
LineChars == [i \in 1 .. Len(body) |-> body[i].chars]

LEMMA CharsCount == ASSUME ResultsTyped PROVE Sums(Results!CharsUpto, LineChars, Len(body))
<1>1. Len(body) \in Nat BY DEF ResultsTyped
<1>2. \A f : Sums(f, LineChars, Len(body)) <=>
              f = [i \in 0 .. Len(body) |-> IF i = 0 THEN 0 ELSE f[i - 1] + body[i].chars]
  <2>1. \A i \in 0 .. Len(body) : i # 0 => LineChars[i] = body[i].chars
    BY <1>1 DEF LineChars
  <2>2. \A f : [i \in 0 .. Len(body) |-> IF i = 0 THEN 0 ELSE f[i - 1] + LineChars[i]]
              = [i \in 0 .. Len(body) |-> IF i = 0 THEN 0 ELSE f[i - 1] + body[i].chars]
    BY <2>1
  <2>3. QED BY <2>2 DEF Sums
<1>3. PICK f : Sums(f, LineChars, Len(body)) BY <1>1, SumsExist
<1>4. Results!CharsUpto = [i \in 0 .. Len(body) |->
                             IF i = 0 THEN 0 ELSE Results!CharsUpto[i - 1] + body[i].chars]
  BY <1>2, <1>3 DEF Results!CharsUpto
<1>5. QED BY <1>2, <1>4

(* No line of a result begins like a frame marker, for every limit, text   *)
(* and length of the nonce (write_result).                                 *)
THEOREM FramesUnforged == Spec => []NoForgedFrame
<1>1. ResultsInv => NoForgedFrame
  <2>1. SUFFICES ASSUME ResultsInv, NEW i \in 1 .. Len(body) PROVE body[i].form # "marker"
    BY DEF NoForgedFrame, Results!NoForgedFrame
  <2>2. body[i] \in Safe BY <2>1 DEF ResultsInv, ResultsTyped
  <2>3. QED BY <2>2 DEF Safe, Shape
<1>2. QED BY <1>1, ResultsInit, ResultsStep, ResultsRun, PTL

(* Of the limit, what is not left was written: clipping leaves it never    *)
(* overdrawn, and the count goes up by what each line takes.               *)
LEMMA BoundKept ==
  ASSUME ResultsInv, Results!CharsBounded, Results!WriteLine
  PROVE  Results!CharsBounded'
<1> DEFINE line == Results!Clip(Results!Escape(Head(todo)), remaining)
<1>1. ResultsTyped /\ ResultsTyped' BY WriteLineKeeps DEF ResultsInv
<1>2. body' = Append(body, line) /\ remaining' = remaining - line.chars BY DEF Results!WriteLine
<1>3. line \in Safe
  <2>1. Head(todo) \in Raw BY <1>1 DEF Results!WriteLine, ResultsTyped
  <2>2. QED BY <1>1, <2>1, EscapeSafe, ClipSafe DEF ResultsTyped
<1>4. \A x \in Safe : x.chars \in Nat BY DEF Safe, Shape
<1>5. remaining \in Nat /\ remaining' \in Nat /\ body \in Seq(Safe) BY <1>1 DEF ResultsTyped
<1> HIDE DEF line
<1> DEFINE n == Len(body)
<1>6. n \in Nat /\ Len(body') = n + 1 /\ body'[n + 1] = line
      /\ \A i \in 1 .. n : body'[i] = body[i] /\ body[i] \in Safe
  BY <1>2, <1>3, <1>5
<1>7. Sums(Results!CharsUpto, LineChars, n) BY <1>1, CharsCount
<1>8. Sums(Results!CharsUpto', LineChars', n + 1)
  <2>1. (ResultsTyped => Sums(Results!CharsUpto, LineChars, Len(body)))' BY CharsCount, PTL
  <2>2. QED BY <1>1, <1>6, <2>1 DEF Sums
<1> HIDE DEF n
<1>9. /\ \A i \in 1 .. n : LineChars[i] \in Nat /\ LineChars'[i] = LineChars[i]
      /\ LineChars'[n + 1] = line.chars
  <2>1. LineChars = [i \in 1 .. n |-> body[i].chars] BY DEF LineChars, n
  <2>2. LineChars' = [i \in 1 .. n + 1 |-> body'[i].chars] BY <1>6 DEF LineChars
  <2>3. n + 1 \in 1 .. n + 1 /\ \A i \in 1 .. n : i \in 1 .. n + 1 BY <1>6
  <2>4. QED BY <1>4, <1>6, <2>1, <2>2, <2>3
<1>10. Results!CharsUpto[n] \in Nat
  <2>1. n \in 0 .. n BY <1>6
  <2>2. QED BY <1>6, <1>7, <1>9, <2>1, SumsAreNumbers
<1>11. Results!CharsUpto'[n + 1] = Results!CharsUpto[n] + line.chars
  <2>1. n + 1 \in 0 .. n + 1 /\ n + 1 # 0 /\ n + 1 \in Nat /\ (n + 1) - 1 = n /\ n <= n + 1
    BY <1>6
  <2>2. Results!CharsUpto'[n + 1] = Results!CharsUpto'[n] + LineChars'[n + 1] BY <1>8, <2>1, SumStep
  <2>3. Results!CharsUpto[n] = Results!CharsUpto'[n]
    <3>1. \A i \in 1 .. n : LineChars[i] = LineChars'[i] BY <1>9
    <3>2. QED BY <1>6, <1>7, <1>8, <2>1, <3>1, SumsAgree
  <2>4. QED BY <1>9, <2>2, <2>3
<1>12. Results!Chars = Results!CharsUpto[n] /\ Results!Chars' = Results!CharsUpto'[n + 1]
  BY <1>6 DEF Results!Chars, n
<1>13. line.chars \in Nat BY <1>3, <1>4
<1>14. QED BY <1>2, <1>5, <1>10, <1>11, <1>12, <1>13 DEF Results!CharsBounded

(* A result that was ended without the truncation note is the whole text,  *)
(* line by line (write_result).                                            *)
LEMMA UnnotedIsComplete == ResultsInv => Results!CompleteUnlessNoted
<1>1. SUFFICES ASSUME ResultsInv, place = "ended", ~cut
               PROVE  /\ Len(body) = Len(outcome)
                      /\ \A i \in 1 .. Len(outcome) : body[i] = Results!Escape(outcome[i])
  BY DEF Results!CompleteUnlessNoted
<1>2. remaining > 0 /\ todo = <<>> BY <1>1 DEF ResultsInv, ResultsTyped, Noted
<1>3. Len(body) = Len(outcome) BY <1>1, <1>2 DEF ResultsInv, ResultsTyped, Upto
<1>4. QED BY <1>1, <1>2, <1>3 DEF ResultsInv, Whole

(* For every limit and every text: the limit of a result holds, and what   *)
(* it cuts is said to be cut (write_result).                               *)
THEOREM LimitHolds == Spec => []LimitCutsHonestly
<1>1. Results!Init => Results!CharsBounded
  <2> SUFFICES ASSUME Results!Init PROVE Results!CharsBounded OBVIOUS
  <2>1. ResultsTyped /\ body = <<>> /\ remaining = MaxOutput
    BY ResultsInit DEF Results!Init, ResultsInv
  <2>2. Sums(Results!CharsUpto, LineChars, Len(body)) BY <2>1, CharsCount
  <2>3. Len(body) = 0 BY <2>1
  <2>4. Results!CharsUpto[0] = 0 BY <2>2, <2>3 DEF Sums
  <2>5. MaxOutput \in Nat BY PartsAssumption
  <2>6. QED BY <2>1, <2>3, <2>4, <2>5 DEF Results!CharsBounded, Results!Chars
<1>2. ResultsInv /\ Results!CharsBounded /\ [Results!Next]_resultsVars => Results!CharsBounded'
  <2> SUFFICES ASSUME ResultsInv, Results!CharsBounded, [Results!Next]_resultsVars
               PROVE  Results!CharsBounded'
    OBVIOUS
  <2>1. CASE Results!WriteLine BY <2>1, BoundKept
  <2>2. CASE UNCHANGED <<remaining, body>>
    BY <2>2 DEF Results!CharsBounded, Results!Chars, Results!CharsUpto
  <2>3. QED BY <2>1, <2>2
    DEF Results!Next, Results!Close, Results!ClientGone, Results!Terminated, Results!vars,
        resultsVars
<1>3. ResultsInv /\ Results!CharsBounded => LimitCutsHonestly
  BY UnnotedIsComplete DEF LimitCutsHonestly, Results!LimitCutsHonestly
<1>4. QED BY <1>1, <1>2, <1>3, ResultsInit, ResultsStep, ResultsRun, PTL

-------------------------------------------------------------------------------
(* Lines.  What has been sent and not yet answered is the line read so far, *)
(* the rest of the chunk and what has not arrived; how it is divided among  *)
(* the three is all that the chunks decide.                                *)

Bytes == Lines!Byte

LEMMA CountOf == \A S : Lines!Cardinality(S) = Cardinality(S)
BY DEF Lines!Cardinality, Cardinality

(* The position after the first LF, 0 if there is none. *)
LEMMA FirstLFFound ==
  ASSUME NEW s \in Seq(Bytes)
  PROVE  LET f == Lines!FirstLF(s)
         IN  \/ f = 0 /\ \A i \in 1 .. Len(s) : s[i] # "LF"
             \/ f \in 1 .. Len(s) /\ s[f] = "LF" /\ \A i \in 1 .. f - 1 : s[i] # "LF"
<1> DEFINE I == {i \in 1 .. Len(s) : s[i] = "LF"}
<1>1. Lines!FirstLF(s) = IF I # {} THEN Lines!Min(I) ELSE 0
  BY DEF Lines!FirstLF, Lines!SelectInSeq
<1>2. CASE I = {} BY <1>1, <1>2
<1>3. CASE I # {}
  <2>1. I \in SUBSET Nat BY DEF I
  <2> HIDE DEF I
  <2>2. \E x \in I : \A y \in I : x <= y BY <1>3, <2>1, LeastNumber
  <2>3. PICK f : f = Lines!Min(I) OBVIOUS
  <2>4. f \in I /\ \A y \in I : f <= y BY <2>2, <2>3 DEF Lines!Min
  <2>5. f \in 1 .. Len(s) /\ s[f] = "LF" BY <2>4 DEF I
  <2>6. ASSUME NEW i \in 1 .. f - 1 PROVE s[i] # "LF"
    <3>1. i \in 1 .. Len(s) /\ ~(f <= i) BY <2>5
    <3>2. i \notin I BY <2>4, <3>1
    <3>3. QED BY <3>1, <3>2 DEF I
  <2>7. QED BY <1>1, <1>3, <2>3, <2>5, <2>6
<1>4. QED BY <1>2, <1>3

(* Starts and lines of a stream. *)
LEMMA StartsFinite ==
  ASSUME NEW s \in Seq(Bytes), NEW S \in SUBSET Lines!Starts(s)
  PROVE  IsFiniteSet(S) /\ Cardinality(S) \in Nat /\ S \subseteq 1 .. Len(s) + 1
<1>1. S \subseteq 1 .. Len(s) + 1 BY DEF Lines!Starts, Lines!Ends
<1>2. Len(s) + 1 \in Int OBVIOUS
<1>3. IsFiniteSet(1 .. Len(s) + 1) BY <1>2, FS_Interval
<1>4. IsFiniteSet(S) BY <1>1, <1>3, FS_Subset
<1>5. QED BY <1>1, <1>4, FS_CardinalityType

LEMMA StartsAreNumbers ==
  ASSUME NEW s \in Seq(Bytes)
  PROVE  \A i \in Lines!Starts(s) : i \in 1 .. Len(s) + 1 /\ i \in Nat
<1>1. Lines!Starts(s) \subseteq 1 .. Len(s) + 1 BY StartsFinite
<1>2. \A i \in 1 .. Len(s) + 1 : i \in Nat OBVIOUS
<1>3. QED BY <1>1, <1>2

(* The starts before this one. *)
Below(s, p) == {i \in Lines!Starts(s) : i < p}

(* A start is found by how many come before it. *)
LEMMA NthStart ==
  ASSUME NEW s \in Seq(Bytes), NEW p \in Lines!Starts(s)
  PROVE  Lines!Nth(Lines!Starts(s), Cardinality(Below(s, p)) + 1) = p
<1> DEFINE S == Lines!Starts(s)
           Under(i) == {j \in S : j < i}
<1>1. \A i \in S : i \in Nat BY StartsAreNumbers
<1>2. \A i \in S : Under(i) \in SUBSET S OBVIOUS
<1>3. \A i \in S : IsFiniteSet(Under(i)) /\ Cardinality(Under(i)) \in Nat
  BY <1>2, StartsFinite
<1>4. ASSUME NEW i \in S, NEW k \in S, i < k PROVE Cardinality(Under(i)) # Cardinality(Under(k))
  <2>1. Under(i) \in SUBSET Under(k) BY <1>1, <1>4
  <2>2. i \in Under(k) /\ i \notin Under(i) BY <1>1, <1>4
  <2> HIDE DEF Under
  <2>3. QED BY <1>3, <2>1, <2>2, FS_Subset
<1>5. ASSUME NEW i \in S, Cardinality(Under(i)) = Cardinality(Under(p)) PROVE i = p
  <2>1. i < p \/ p < i \/ i = p BY <1>1
  <2>2. QED BY <1>4, <1>5, <2>1
<1>6. \A i \in S : Cardinality(Under(i)) = (Cardinality(Under(p)) + 1) - 1 <=> i = p
  <2>1. (Cardinality(Under(p)) + 1) - 1 = Cardinality(Under(p))
    <3> HIDE DEF Under
    <3>1. QED BY <1>3
  <2> HIDE DEF Under
  <2>2. QED BY <1>5, <2>1
<1>7. Below(s, p) = Under(p) BY DEF Below
<1>8. Lines!Nth(S, Cardinality(Under(p)) + 1) =
        CHOOSE i \in S : Cardinality(Under(i)) = (Cardinality(Under(p)) + 1) - 1
  BY CountOf DEF Lines!Nth
<1> HIDE DEF S, Under
<1>9. (CHOOSE i \in S : Cardinality(Under(i)) = (Cardinality(Under(p)) + 1) - 1) = p
  BY <1>6 DEF S
<1>10. QED BY <1>7, <1>8, <1>9 DEF S

(* The line that starts here and ends with the LF at e, and the next one. *)
LEMMA WholeLine ==
  ASSUME NEW s \in Seq(Bytes), NEW p \in Lines!Starts(s), NEW e \in p .. Len(s),
         s[e] = "LF", \A i \in p .. e - 1 : s[i] # "LF"
  PROVE  /\ Lines!LineFrom(s, p) = SubSeq(s, p, e)
         /\ e + 1 \in Lines!Starts(s)
         /\ Below(s, e + 1) = Below(s, p) \cup {p}
         /\ Cardinality(Below(s, e + 1)) = Cardinality(Below(s, p)) + 1
<1>1. p \in 1 .. Len(s) + 1 BY StartsFinite
<1>2. e \in 1 .. Len(s) BY <1>1
<1>3. e \in Lines!Ends(s) BY <1>2 DEF Lines!Ends
<1>4. \A k \in Lines!Ends(s) : k \in 1 .. Len(s) /\ s[k] = "LF" BY DEF Lines!Ends
<1>5. \A k \in Lines!Ends(s) : k >= p => e <= k
  <2> SUFFICES ASSUME NEW k \in Lines!Ends(s), k >= p, ~(e <= k) PROVE FALSE OBVIOUS
  <2>1. k \in p .. e - 1 BY <1>1, <1>2, <1>4
  <2>2. QED BY <1>4, <2>1
<1>6. (CHOOSE j \in Lines!Ends(s) :
         j >= p /\ \A k \in Lines!Ends(s) : k >= p => j <= k) = e
  <2>1. \A j \in Lines!Ends(s) :
          (j >= p /\ \A k \in Lines!Ends(s) : k >= p => j <= k) <=> j = e
    BY <1>1, <1>2, <1>3, <1>4, <1>5
  <2>2. QED BY <1>3, <2>1
<1>7. Lines!LineFrom(s, p) = SubSeq(s, p, e)
  <2>1. \E j \in Lines!Ends(s) : j >= p BY <1>3
  <2>2. QED BY <1>6, <2>1 DEF Lines!LineFrom
<1>8. e + 1 \in Lines!Starts(s) BY <1>3 DEF Lines!Starts
<1>9. Below(s, e + 1) = Below(s, p) \cup {p}
  <2>1. ASSUME NEW i \in Lines!Starts(s), i < e + 1 PROVE i < p \/ i = p
    <3> SUFFICES ASSUME ~(i < p), i # p PROVE FALSE OBVIOUS
    <3>1. i \in 1 .. Len(s) + 1 BY StartsFinite
    <3>2. i # 1 BY <1>1, <3>1
    <3>3. PICK k \in Lines!Ends(s) : i = k + 1 BY <3>2 DEF Lines!Starts
    <3>4. k \in p .. e - 1 BY <1>1, <1>2, <1>4, <2>1, <3>3
    <3>5. QED BY <1>4, <3>4
  <2>2. \A i \in Lines!Starts(s) : (i < p \/ i = p) => i < e + 1
    BY <1>1, <1>2, StartsFinite
  <2>3. QED BY <2>1, <2>2 DEF Below
<1>10. Cardinality(Below(s, p) \cup {p}) = Cardinality(Below(s, p)) + 1
  <2>1. Below(s, p) \in SUBSET Lines!Starts(s) /\ p \notin Below(s, p) BY <1>1 DEF Below
  <2>2. IsFiniteSet(Below(s, p)) BY <2>1, StartsFinite
  <2>3. QED BY <2>1, <2>2, FS_AddElement
<1>11. QED BY <1>7, <1>8, <1>9, <1>10

(* A line that nothing ends is all that is left. *)
LEMMA OpenLine ==
  ASSUME NEW s \in Seq(Bytes), NEW p \in Lines!Starts(s), \A i \in p .. Len(s) : s[i] # "LF"
  PROVE  Lines!LineFrom(s, p) = SubSeq(s, p, Len(s))
<1>1. p \in 1 .. Len(s) + 1 BY StartsFinite
<1>2. ~ \E j \in Lines!Ends(s) : j >= p BY <1>1 DEF Lines!Ends
<1>3. QED BY <1>2 DEF Lines!LineFrom

(* The line that starts here is answered. *)
Fine(s, i) == Lines!Verdict(Lines!LineFrom(s, i)) = ""

(* The first line that is not. *)
LEMMA BadIsFirst ==
  ASSUME NEW s \in Seq(Bytes), NEW p \in Lines!Starts(s),
         ~Fine(s, p), \A j \in Below(s, p) : Fine(s, j)
  PROVE  Lines!Bad(s) = p
<1> DEFINE S == Lines!Starts(s)
<1>1. \A i \in S : i \in Nat BY StartsAreNumbers
<1>2. \A j \in S : j < p => Fine(s, j) BY DEF Below
<1>3. ~Fine(s, p) OBVIOUS
<1>4. Lines!Bad(s) = CHOOSE i \in S : ~Fine(s, i) /\ \A j \in S : j < i => Fine(s, j)
  BY DEF Lines!Bad, Fine
<1> HIDE DEF S
<1>5. p \in S BY DEF S
<1>6. ASSUME NEW i \in S PROVE i = p \/ i < p \/ p < i
  <2>1. i \in Nat /\ p \in Nat BY <1>1, <1>5
  <2>2. QED BY <2>1
<1>7. \A i \in S : (~Fine(s, i) /\ \A j \in S : j < i => Fine(s, j)) <=> i = p
  <2> SUFFICES ASSUME NEW i \in S, ~Fine(s, i), \A j \in S : j < i => Fine(s, j), i # p PROVE FALSE
    BY <1>2, <1>3, <1>5
  <2>1. QED BY <1>2, <1>3, <1>5, <1>6
<1>8. QED BY <1>4, <1>5, <1>7

(* Some line has no answer: the last, which nothing ends. *)
LEMMA BadExists ==
  ASSUME NEW s \in Seq(Bytes)
  PROVE  Lines!Bad(s) \in Lines!Starts(s) /\ ~Fine(s, Lines!Bad(s))
<1> DEFINE S == Lines!Starts(s)
           Left == {n \in Nat : (Len(s) + 1) - n \in S}
           Faulty == {i \in S : ~Fine(s, i)}
<1>1. \A i \in S : i \in 1 .. Len(s) + 1 /\ i \in Nat BY StartsAreNumbers
<1>2. 1 \in S BY DEF Lines!Starts
<1>3. PICK n \in Left : \A m \in Left : n <= m
  <2>1. Len(s) \in Left BY <1>2
  <2>2. Left \in SUBSET Nat OBVIOUS
  <2> HIDE DEF Left
  <2>3. QED BY <2>1, <2>2, LeastNumber
<1> DEFINE m == (Len(s) + 1) - n
<1>4. m \in S /\ m \in 1 .. Len(s) + 1 /\ n \in Nat BY <1>1, <1>3
<1>5. \A i \in S : i <= m
  <2> SUFFICES ASSUME NEW i \in S PROVE i <= m OBVIOUS
  <2>1. (Len(s) + 1) - i \in Nat /\ (Len(s) + 1) - ((Len(s) + 1) - i) = i BY <1>1
  <2>2. (Len(s) + 1) - i \in Left BY <2>1
  <2>3. n <= (Len(s) + 1) - i BY <1>3, <2>2
  <2>4. QED BY <1>1, <1>4, <2>3
<1> HIDE DEF m, Left
<1>6. \A i \in m .. Len(s) : s[i] # "LF"
  <2> SUFFICES ASSUME NEW i \in m .. Len(s), s[i] = "LF" PROVE FALSE OBVIOUS
  <2>1. i \in 1 .. Len(s) BY <1>4
  <2>2. i + 1 \in S BY <2>1 DEF Lines!Starts, Lines!Ends
  <2>3. QED BY <1>4, <1>5, <2>2
<1>7. ~Fine(s, m)
  <2> DEFINE line == SubSeq(s, m, Len(s))
  <2>1. Lines!LineFrom(s, m) = line BY <1>4, <1>6, OpenLine
  <2>2. /\ line \in Seq(Bytes) /\ Len(line) = Len(s) - m + 1
        /\ \A k \in 1 .. Len(line) : line[k] = s[m + k - 1]
    BY <1>4
  <2>3. line # <<>> => Lines!Last(line) # "LF"
    <3> HIDE DEF line
    <3> SUFFICES ASSUME line # <<>> PROVE Lines!Last(line) # "LF" OBVIOUS
    <3>1. Len(line) \in 1 .. Len(line) BY <2>2
    <3>2. m + Len(line) - 1 \in m .. Len(s) BY <1>4, <2>2, <3>1
    <3>3. line[Len(line)] = s[m + Len(line) - 1] BY <2>2, <3>1
    <3>4. QED BY <1>6, <3>2, <3>3 DEF Lines!Last
  <2>4. Lines!Verdict(line) # "" BY <2>3 DEF Lines!Verdict
  <2>5. QED BY <2>1, <2>4 DEF Fine
<1>8. PICK b \in Faulty : \A i \in Faulty : b <= i
  <2>1. m \in Faulty BY <1>4, <1>7
  <2>2. \A i \in Faulty : i \in Nat BY <1>1
  <2> HIDE DEF Faulty
  <2>3. Faulty \in SUBSET Nat BY <2>2
  <2>4. QED BY <2>1, <2>3, LeastNumber
<1>9. ASSUME NEW j \in Below(s, b) PROVE Fine(s, j)
  <2>1. j \in S /\ j < b /\ b \in S BY <1>8 DEF Below
  <2>2. j \in Nat /\ b \in Nat BY <1>1, <2>1
  <2>3. ~(b <= j) BY <2>1, <2>2
  <2>4. j \notin Faulty BY <1>8, <2>3
  <2>5. QED BY <2>1, <2>4
<1>10. Lines!Bad(s) = b BY <1>8, <1>9, BadIsFirst
<1>11. QED BY <1>8, <1>10

(* What read_line has of the line that starts at p. *)
Reading(p) ==
  /\ p \in Lines!Starts(sent)
  /\ Len(sent) = (p - 1) + Len(bytes) + Len(available) + Len(stream)
  /\ \A k \in 1 .. Len(bytes) : bytes[k] = sent[(p - 1) + k] /\ bytes[k] # "LF"
  /\ \A k \in 1 .. Len(available) : available[k] = sent[(p - 1) + Len(bytes) + k]
  /\ \A k \in 1 .. Len(stream) :
       stream[k] = sent[(p - 1) + Len(bytes) + Len(available) + k]
  /\ Len(bytes) <= MaxLine

(* The answers to all lines before the one that starts at p. *)
Answer(s, n) == Lines!WithoutCR(Lines!Front(Lines!LineFrom(s, Lines!Nth(Lines!Starts(s), n))))
Answered(s, answers, p) ==
  /\ \A j \in Below(s, p) : Fine(s, j)
  /\ Len(answers) = Cardinality(Below(s, p))
  /\ \A n \in 1 .. Len(answers) : answers[n] = Answer(s, n)

StreamTyped ==
  /\ sent \in Seq(Bytes) /\ stream \in Seq(Bytes) /\ available \in Seq(Bytes)
  /\ bytes \in Seq(Bytes) /\ lines \in Seq(Seq(Bytes))

LinesInv ==
  /\ StreamTyped
  /\ IF ending = ""
     THEN \E p : Reading(p) /\ Answered(sent, lines, p)
     ELSE /\ lines = Lines!Good(sent)
          /\ ending = Lines!Verdict(Lines!LineFrom(sent, Lines!Bad(sent)))

LEMMA SomeLineIsRead ==
  ASSUME LinesInv, ending = ""
  PROVE  \E p : Reading(p) /\ Answered(sent, lines, p)
BY DEF LinesInv

(* All lines before the first that has no answer are the good ones. *)
LEMMA AllAnswered ==
  ASSUME NEW s \in Seq(Bytes), NEW answers \in Seq(Seq(Bytes)), NEW p \in Lines!Starts(s),
         Answered(s, answers, p), ~Fine(s, p)
  PROVE  Lines!Bad(s) = p /\ answers = Lines!Good(s)
<1>1. Lines!Bad(s) = p BY BadIsFirst DEF Answered
<1>2. Lines!Good(s) = [n \in 1 .. Cardinality(Below(s, p)) |-> Answer(s, n)]
  BY <1>1, CountOf DEF Lines!Good, Below, Answer
<1>3. answers = [n \in 1 .. Len(answers) |-> answers[n]] OBVIOUS
<1>4. Len(answers) = Cardinality(Below(s, p))
      /\ \A n \in 1 .. Len(answers) : answers[n] = Answer(s, n)
  BY DEF Answered
<1>5. QED BY <1>1, <1>2, <1>3, <1>4

(* Those before one that may have an answer are a first part of them. *)
LEMMA AnsweredSoFar ==
  ASSUME NEW s \in Seq(Bytes), NEW answers \in Seq(Seq(Bytes)), NEW p \in Lines!Starts(s),
         Answered(s, answers, p)
  PROVE  Lines!IsPrefix(answers, Lines!Good(s))
<1> DEFINE b == Lines!Bad(s)
<1>1. b \in Lines!Starts(s) /\ ~Fine(s, b) BY BadExists
<1>2. b \in Nat /\ p \in Nat BY <1>1, StartsAreNumbers
<1>3. p <= b
  <2> SUFFICES ASSUME b < p PROVE FALSE BY <1>2
  <2>1. b \in Below(s, p) BY <1>1 DEF Below
  <2>2. QED BY <1>1, <2>1 DEF Answered
<1> HIDE DEF b
<1>4. Below(s, p) \in SUBSET Below(s, b)
  <2>1. \A j \in Lines!Starts(s) : j \in Nat BY StartsAreNumbers
  <2>2. \A j \in Lines!Starts(s) : j < p => j < b BY <1>2, <1>3, <2>1
  <2>3. QED BY <2>2 DEF Below
<1>5. Cardinality(Below(s, p)) <= Cardinality(Below(s, b))
      /\ Cardinality(Below(s, b)) \in Nat
  <2>1. Below(s, b) \in SUBSET Lines!Starts(s) BY DEF Below
  <2>2. IsFiniteSet(Below(s, b)) /\ Cardinality(Below(s, b)) \in Nat BY <2>1, StartsFinite
  <2>3. QED BY <1>4, <2>2, FS_Subset
<1>6. Lines!Good(s) = [n \in 1 .. Cardinality(Below(s, b)) |-> Answer(s, n)]
  BY CountOf DEF Lines!Good, Below, Answer, b
<1> DEFINE good == Lines!Good(s)
           n == Cardinality(Below(s, b))
<1>7. n \in Nat /\ good = [k \in 1 .. n |-> Answer(s, k)] /\ Len(answers) <= n
      /\ Len(answers) \in Nat
  BY <1>5, <1>6 DEF Answered
<1>8. \A k \in 1 .. Len(answers) : answers[k] = Answer(s, k) BY DEF Answered
<1> HIDE DEF good, n
<1>9. Len(good) = n BY <1>7
<1>10. \A k \in 1 .. Len(answers) : good[k] = answers[k] BY <1>7, <1>8
<1>11. SubSeq(answers, 1, Len(answers)) = [k \in 1 .. Len(answers) |-> answers[k]]
  BY <1>7
<1>12. SubSeq(good, 1, Len(answers)) = [k \in 1 .. Len(answers) |-> good[k]]
  BY <1>7, <1>9
<1>13. SubSeq(answers, 1, Len(answers)) = SubSeq(good, 1, Len(answers))
  BY <1>10, <1>11, <1>12
<1>14. QED BY <1>7, <1>9, <1>13 DEF Lines!IsPrefix, good

(* One more answer. *)
LEMMA AnswerNext ==
  ASSUME NEW s \in Seq(Bytes), NEW answers \in Seq(Seq(Bytes)), NEW p \in Lines!Starts(s),
         Answered(s, answers, p), NEW e, Fine(s, p), Below(s, e + 1) = Below(s, p) \cup {p},
         Cardinality(Below(s, e + 1)) = Cardinality(Below(s, p)) + 1,
         NEW line \in Seq(Bytes), line = Lines!WithoutCR(Lines!Front(Lines!LineFrom(s, p)))
  PROVE  Answered(s, Append(answers, line), e + 1)
<1> DEFINE n == Cardinality(Below(s, p))
           longer == Append(answers, line)
<1>1. Len(answers) = n /\ n \in Nat
      /\ \A k \in 1 .. Len(answers) : answers[k] = Answer(s, k)
  BY DEF Answered
<1>2. Lines!Nth(Lines!Starts(s), n + 1) = p BY NthStart
<1>3. Answer(s, n + 1) = line BY <1>2 DEF Answer
<1>4. \A j \in Below(s, e + 1) : Fine(s, j) BY DEF Answered
<1> HIDE DEF n
<1>5. /\ Len(longer) = n + 1 /\ longer[n + 1] = line
      /\ \A k \in 1 .. n : longer[k] = answers[k]
  BY <1>1
<1> HIDE DEF longer
<1>6. \A k \in 1 .. n + 1 : k \in 1 .. n \/ k = n + 1 BY <1>1
<1>7. \A k \in 1 .. n + 1 : longer[k] = Answer(s, k) BY <1>1, <1>3, <1>5, <1>6
<1>8. QED BY <1>4, <1>5, <1>7 DEF Answered, n, longer

LEMMA LinesInit == Lines!Init => LinesInv
<1> SUFFICES ASSUME Lines!Init PROVE LinesInv OBVIOUS
<1>1. PICK n \in 0 .. MaxStream : sent \in [1 .. n -> Bytes]
  BY DEF Lines!Init, Bytes
<1>2. n \in Nat BY <1>1, PartsAssumption
<1>3. sent \in Seq(Bytes) /\ Len(sent) = n BY <1>1, <1>2
<1>4. stream = sent /\ available = <<>> /\ bytes = <<>> /\ lines = <<>> /\ ending = ""
  BY DEF Lines!Init
<1>5. StreamTyped
  <2>1. \A S : <<>> \in Seq(S) OBVIOUS
  <2>2. QED BY <1>3, <1>4, <2>1 DEF StreamTyped
<1>6. 1 \in Lines!Starts(sent) BY DEF Lines!Starts
<1>7. Below(sent, 1) = {}
  <2>1. \A i \in Lines!Starts(sent) : i \in 1 .. Len(sent) + 1 BY <1>3, StartsAreNumbers
  <2>2. QED BY <2>1 DEF Below
<1>8. Answered(sent, lines, 1)
  <2>1. Len(lines) = 0 /\ Cardinality(Below(sent, 1)) = 0 BY <1>4, <1>7, FS_EmptySet
  <2>2. QED BY <1>7, <2>1 DEF Answered
<1>9. Reading(1)
  <2>1. Len(<<>>) = 0 OBVIOUS
  <2>2. Len(bytes) = 0 /\ Len(available) = 0 /\ stream = sent BY <1>4, <2>1
  <2>3. Len(bytes) <= MaxLine BY <2>2, PartsAssumption
  <2>4. \A k \in 1 .. 0 : FALSE OBVIOUS
  <2>5. Len(sent) = (1 - 1) + 0 + 0 + Len(stream) BY <1>2, <1>3, <2>2
  <2>6. \A k \in 1 .. Len(stream) : stream[k] = sent[(1 - 1) + 0 + 0 + k] BY <1>2, <1>3, <2>2
  <2>7. QED BY <1>6, <2>2, <2>3, <2>4, <2>5, <2>6 DEF Reading
<1>10. QED BY <1>4, <1>5, <1>8, <1>9 DEF LinesInv

(* A line that has no answer ends the session as it says. *)
LEMMA EndsAsItSays ==
  ASSUME LinesInv, ending = "", NEW p, Reading(p), Answered(sent, lines, p),
         Lines!Verdict(Lines!LineFrom(sent, p)) # "",
         UNCHANGED <<sent, lines>>, ending' = Lines!Verdict(Lines!LineFrom(sent, p)),
         StreamTyped'
  PROVE  LinesInv'
<1>1. p \in Lines!Starts(sent) /\ sent \in Seq(Bytes) /\ lines \in Seq(Seq(Bytes))
  BY DEF Reading, LinesInv, StreamTyped
<1>2. ~Fine(sent, p) BY DEF Fine
<1>3. Lines!Bad(sent) = p /\ lines = Lines!Good(sent) BY <1>1, <1>2, AllAnswered
<1>4. ending' # "" BY DEF LinesInv
<1>5. lines' = Lines!Good(sent') /\ ending' = Lines!Verdict(Lines!LineFrom(sent', Lines!Bad(sent')))
  BY <1>3
<1>6. QED BY <1>4, <1>5 DEF LinesInv

(* A chunk arrives. *)
LEMMA ArriveStep == LinesInv /\ Lines!Arrive => LinesInv'
<1> SUFFICES ASSUME LinesInv, Lines!Arrive PROVE LinesInv' OBVIOUS
<1>1. PICK n \in 1 .. Len(stream) :
        available' = SubSeq(stream, 1, n) /\ stream' = SubSeq(stream, n + 1, Len(stream))
  BY DEF Lines!Arrive
<1>2. ending = "" /\ available = <<>> /\ UNCHANGED <<sent, bytes, lines, ending>>
  BY DEF Lines!Arrive
<1>3. PICK p : Reading(p) /\ Answered(sent, lines, p) BY <1>2 DEF LinesInv
<1>4. StreamTyped BY DEF LinesInv
<1>5. /\ available' \in Seq(Bytes) /\ Len(available') = n
      /\ \A k \in 1 .. n : available'[k] = stream[k]
      /\ stream' \in Seq(Bytes) /\ Len(stream') = Len(stream) - n
      /\ \A k \in 1 .. Len(stream) - n : stream'[k] = stream[n + k]
  BY <1>1, <1>4 DEF StreamTyped
<1>6. StreamTyped' BY <1>2, <1>4, <1>5 DEF StreamTyped
<1>7. Reading(p)'
  <2>1. p \in Nat /\ Len(bytes) \in Nat /\ Len(stream) \in Nat /\ n \in Nat /\ n <= Len(stream)
    BY <1>1, <1>3, <1>4, StartsAreNumbers DEF StreamTyped, Reading
  <2>2. Len(available) = 0 BY <1>2
  <2>3. Len(sent) = (p - 1) + Len(bytes) + Len(available') + Len(stream')
    BY <1>3, <1>5, <2>1, <2>2 DEF Reading
  <2>4. \A k \in 1 .. Len(available') : available'[k] = sent[(p - 1) + Len(bytes) + k]
    <3> SUFFICES ASSUME NEW k \in 1 .. n
                 PROVE  available'[k] = sent[(p - 1) + Len(bytes) + k]
      BY <1>5
    <3>1. k \in 1 .. Len(stream) BY <2>1
    <3>2. stream[k] = sent[(p - 1) + Len(bytes) + Len(available) + k]
      BY <1>3, <3>1 DEF Reading
    <3>3. (p - 1) + Len(bytes) + Len(available) + k = (p - 1) + Len(bytes) + k BY <2>1, <2>2
    <3>4. QED BY <1>5, <3>2, <3>3
  <2>5. \A k \in 1 .. Len(stream') :
          stream'[k] = sent[(p - 1) + Len(bytes) + Len(available') + k]
    <3> SUFFICES ASSUME NEW k \in 1 .. Len(stream) - n
                 PROVE  stream'[k] = sent[(p - 1) + Len(bytes) + n + k]
      BY <1>5
    <3>1. n + k \in 1 .. Len(stream) BY <2>1
    <3>2. stream[n + k] = sent[(p - 1) + Len(bytes) + Len(available) + (n + k)]
      BY <1>3, <3>1 DEF Reading
    <3>3. (p - 1) + Len(bytes) + Len(available) + (n + k) = (p - 1) + Len(bytes) + n + k
      BY <2>1, <2>2
    <3>4. QED BY <1>5, <3>2, <3>3
  <2>6. QED BY <1>2, <1>3, <2>3, <2>4, <2>5 DEF Reading
<1>8. ending' = "" /\ Answered(sent', lines', p) BY <1>2, <1>3
<1>9. QED BY <1>6, <1>7, <1>8 DEF LinesInv

(* The stream is over. *)
LEMMA EndStep == LinesInv /\ Lines!EndOfInput => LinesInv'
<1> SUFFICES ASSUME LinesInv, Lines!EndOfInput PROVE LinesInv' OBVIOUS
<1>1. /\ ending = "" /\ available = <<>> /\ stream = <<>>
      /\ ending' = IF bytes = <<>> THEN "closed" ELSE "unterminated"
      /\ UNCHANGED <<sent, stream, available, bytes, lines>>
  BY DEF Lines!EndOfInput
<1>2. PICK p : Reading(p) /\ Answered(sent, lines, p) BY <1>1, SomeLineIsRead
<1>3. StreamTyped BY DEF LinesInv
<1>4. p \in Nat /\ p \in Lines!Starts(sent) /\ p \in 1 .. Len(sent) + 1
  BY <1>2, <1>3, StartsAreNumbers DEF Reading, StreamTyped
<1>5. Len(available) = 0 /\ Len(stream) = 0 /\ Len(bytes) \in Nat
  <2>1. Len(<<>>) = 0 OBVIOUS
  <2>2. available = <<>> /\ stream = <<>> BY <1>1
  <2>3. bytes \in Seq(Bytes) BY <1>3 DEF StreamTyped
  <2>4. QED BY <2>1, <2>2, <2>3
<1>6. Len(sent) = (p - 1) + Len(bytes) BY <1>2, <1>4, <1>5 DEF Reading
<1>7. \A k \in 1 .. Len(bytes) : bytes[k] = sent[(p - 1) + k] /\ bytes[k] # "LF"
  BY <1>2 DEF Reading
<1>8. Lines!LineFrom(sent, p) = bytes
  <2>1. ASSUME NEW i \in p .. Len(sent) PROVE sent[i] # "LF"
    <3>1. i - (p - 1) \in 1 .. Len(bytes) /\ (p - 1) + (i - (p - 1)) = i BY <1>4, <1>5, <1>6
    <3>2. QED BY <1>7, <3>1
  <2>2. Lines!LineFrom(sent, p) = SubSeq(sent, p, Len(sent))
    BY <1>3, <1>4, <2>1, OpenLine DEF StreamTyped
  <2> DEFINE line == SubSeq(sent, p, Len(sent))
  <2>3. /\ line \in Seq(Bytes) /\ Len(line) = Len(sent) - p + 1
        /\ \A k \in 1 .. Len(line) : line[k] = sent[p + k - 1]
    BY <1>3, <1>4 DEF StreamTyped
  <2> HIDE DEF line
  <2>4. Len(line) = Len(bytes) BY <1>4, <1>5, <1>6, <2>3
  <2>5. ASSUME NEW k \in 1 .. Len(bytes) PROVE line[k] = bytes[k]
    <3>1. p + k - 1 = (p - 1) + k BY <1>4
    <3>2. line[k] = sent[p + k - 1] BY <2>3, <2>4
    <3>3. QED BY <1>7, <3>1, <3>2
  <2>6. line = bytes
    <3>1. bytes \in Seq(Bytes) BY <1>3 DEF StreamTyped
    <3>2. QED BY <2>3, <2>4, <2>5, <3>1, SeqEqual
  <2>7. QED BY <2>2, <2>6 DEF line
<1>9. Lines!Verdict(bytes) = ending' /\ ending' # ""
  <2>1. CASE bytes = <<>> BY <1>1, <2>1 DEF Lines!Verdict
  <2>2. CASE bytes # <<>>
    <3>1. Len(bytes) \in 1 .. Len(bytes) BY <1>3, <2>2 DEF StreamTyped
    <3>2. Lines!Last(bytes) # "LF" BY <1>7, <3>1 DEF Lines!Last
    <3>3. ~(Len(bytes) > MaxLine)
      <4>1. Len(bytes) <= MaxLine BY <1>2 DEF Reading
      <4>2. QED BY <1>5, <4>1, PartsAssumption
    <3>4. ending' = "unterminated" BY <1>1, <2>2
    <3>5. Lines!Verdict(bytes) = "unterminated" BY <2>2, <3>2, <3>3 DEF Lines!Verdict
    <3>6. QED BY <3>4, <3>5
  <2>3. QED BY <2>1, <2>2
<1>10. StreamTyped' BY <1>1, <1>3 DEF StreamTyped
<1>11. QED BY <1>1, <1>2, <1>8, <1>9, <1>10, EndsAsItSays

(* What the chunk holds of the line: all of it, or up to its LF. *)
LEMMA OfThisLine ==
  ASSUME StreamTyped, available # <<>>
  PROVE  /\ Lines!Count \in 1 .. Len(available)
         /\ Lines!FirstLF(available) = 0 =>
              Lines!Count = Len(available) /\ \A i \in 1 .. Len(available) : available[i] # "LF"
         /\ Lines!FirstLF(available) # 0 =>
              /\ Lines!Count = Lines!FirstLF(available) /\ available[Lines!Count] = "LF"
              /\ \A i \in 1 .. Lines!Count - 1 : available[i] # "LF"
<1>1. available \in Seq(Bytes) BY DEF StreamTyped
<1>2. Len(available) \in Nat \ {0} BY <1>1
<1> DEFINE f == Lines!FirstLF(available)
<1>3. \/ f = 0 /\ \A i \in 1 .. Len(available) : available[i] # "LF"
      \/ f \in 1 .. Len(available) /\ available[f] = "LF" /\ \A i \in 1 .. f - 1 : available[i] # "LF"
  BY <1>1, FirstLFFound
<1>4. Lines!Count = IF f = 0 THEN Len(available) ELSE f BY DEF Lines!Count
<1> HIDE DEF f
<1>5. CASE f = 0 BY <1>2, <1>3, <1>4, <1>5 DEF f
<1>6. CASE f # 0 BY <1>2, <1>3, <1>4, <1>6 DEF f
<1>7. QED BY <1>5, <1>6

(* A line that ends in the chunk: what was read of it and the chunk up to  *)
(* its LF.                                                                 *)
LEMMA LineEndsHere ==
  ASSUME StreamTyped, NEW p, Reading(p), available # <<>>, Lines!FirstLF(available) # 0
  PROVE  LET e == (p - 1) + Len(bytes) + Lines!Count
         IN  /\ Lines!LineFrom(sent, p) = bytes \o SubSeq(available, 1, Lines!Count)
             /\ e + 1 \in Lines!Starts(sent)
             /\ Below(sent, e + 1) = Below(sent, p) \cup {p}
             /\ Cardinality(Below(sent, e + 1)) = Cardinality(Below(sent, p)) + 1
<1>1. PICK c \in 1 .. Len(available) : c = Lines!Count BY OfThisLine
<1>2. available[c] = "LF" /\ \A i \in 1 .. c - 1 : available[i] # "LF" BY <1>1, OfThisLine
<1>3. /\ sent \in Seq(Bytes) /\ bytes \in Seq(Bytes) /\ available \in Seq(Bytes)
      /\ stream \in Seq(Bytes)
  BY DEF StreamTyped
<1>4. p \in Lines!Starts(sent) /\ p \in 1 .. Len(sent) + 1 /\ p \in Nat
  BY <1>3, StartsAreNumbers DEF Reading
<1>5. /\ Len(sent) = (p - 1) + Len(bytes) + Len(available) + Len(stream)
      /\ \A k \in 1 .. Len(bytes) : bytes[k] = sent[(p - 1) + k] /\ bytes[k] # "LF"
      /\ \A k \in 1 .. Len(available) : available[k] = sent[(p - 1) + Len(bytes) + k]
  BY DEF Reading
<1>6. /\ Len(sent) \in Nat /\ Len(bytes) \in Nat /\ Len(available) \in Nat
      /\ Len(stream) \in Nat
  BY <1>3
<1> DEFINE e == (p - 1) + Len(bytes) + c
<1>7. e \in p .. Len(sent)
  <2>1. Len(sent) = (p - 1) + Len(bytes) + Len(available) + Len(stream) BY <1>5
  <2>2. QED BY <1>1, <1>4, <1>6, <2>1
<1>8. sent[e] = "LF" BY <1>2, <1>5
<1>9. ASSUME NEW i \in p .. e - 1 PROVE sent[i] # "LF"
  <2>1. CASE i <= (p - 1) + Len(bytes)
    <3>1. i - (p - 1) \in 1 .. Len(bytes) /\ (p - 1) + (i - (p - 1)) = i BY <1>4, <1>6, <2>1
    <3>2. QED BY <1>5, <3>1
  <2>2. CASE ~(i <= (p - 1) + Len(bytes))
    <3> DEFINE k == i - ((p - 1) + Len(bytes))
    <3>1. k \in 1 .. c - 1 /\ k \in 1 .. Len(available) /\ (p - 1) + Len(bytes) + k = i
      BY <1>1, <1>4, <1>6, <2>2
    <3> HIDE DEF k
    <3>2. available[k] = sent[i] BY <1>5, <3>1
    <3>3. QED BY <1>2, <3>1, <3>2
  <2>3. QED BY <2>1, <2>2
<1> DEFINE line == bytes \o SubSeq(available, 1, c)
           left == SubSeq(sent, p, e)
<1>10. /\ line \in Seq(Bytes) /\ Len(line) = Len(bytes) + c
       /\ \A k \in 1 .. Len(bytes) : line[k] = bytes[k]
       /\ \A k \in 1 .. c : line[Len(bytes) + k] = available[k]
  <2> DEFINE part1 == SubSeq(available, 1, c)
  <2>1. part1 \in Seq(Bytes) /\ Len(part1) = c /\ \A k \in 1 .. c : part1[k] = available[k]
    BY <1>1, <1>3
  <2> HIDE DEF part1
  <2>2. line = bytes \o part1 BY DEF part1
  <2>3. QED BY <1>3, <2>1, <2>2
<1>11. /\ left \in Seq(Bytes) /\ Len(left) = e - p + 1
       /\ \A k \in 1 .. Len(left) : left[k] = sent[p + k - 1]
  <2> HIDE DEF e
  <2>1. QED BY <1>3, <1>4, <1>7
<1>12. left = line
  <2>1. Len(left) = Len(line) BY <1>1, <1>4, <1>6, <1>10, <1>11
  <2> HIDE DEF line, left
  <2>2. ASSUME NEW k \in 1 .. Len(line) PROVE left[k] = line[k]
    <3>1. k \in 1 .. Len(left) BY <2>1
    <3>2. left[k] = sent[p + k - 1] BY <1>11, <3>1
    <3>3. CASE k \in 1 .. Len(bytes)
      <4>1. p + k - 1 = (p - 1) + k BY <1>4
      <4>2. QED BY <1>5, <1>10, <3>2, <3>3, <4>1
    <3>4. CASE k \notin 1 .. Len(bytes)
      <4>1. Len(line) = Len(bytes) + c BY <1>10
      <4>2. k - Len(bytes) \in 1 .. c BY <1>1, <1>6, <3>4, <4>1
      <4>3. PICK m \in 1 .. c : k = Len(bytes) + m
        <5>1. Len(bytes) + (k - Len(bytes)) = k BY <1>6
        <5>2. QED BY <4>2, <5>1
      <4>4. m \in 1 .. Len(available) BY <1>1, <4>3
      <4>5. p + k - 1 = (p - 1) + Len(bytes) + m BY <1>4, <1>6, <4>3
      <4>6. sent[p + k - 1] = available[m] BY <1>5, <4>4, <4>5
      <4>7. line[k] = available[m] BY <1>10, <4>3
      <4>8. QED BY <3>2, <4>6, <4>7
    <3>5. QED BY <3>3, <3>4
  <2>3. QED BY <1>10, <1>11, <2>1, <2>2, SeqEqual
<1>13. /\ Lines!LineFrom(sent, p) = left /\ e + 1 \in Lines!Starts(sent)
       /\ Below(sent, e + 1) = Below(sent, p) \cup {p}
       /\ Cardinality(Below(sent, e + 1)) = Cardinality(Below(sent, p)) + 1
  <2> HIDE DEF e
  <2>1. QED BY <1>3, <1>4, <1>7, <1>8, <1>9, WholeLine DEF e
<1>14. QED BY <1>1, <1>12, <1>13

(* Over the limit: so is the whole line. *)
LEMMA TooLongStep == LinesInv /\ Lines!TooLong => LinesInv'
<1> SUFFICES ASSUME LinesInv, Lines!TooLong PROVE LinesInv' OBVIOUS
<1>1. /\ ending = "" /\ available # <<>> /\ Lines!Exceeds /\ ending' = "too long"
      /\ UNCHANGED <<sent, stream, available, bytes, lines>>
  BY DEF Lines!TooLong
<1>2. PICK p : Reading(p) /\ Answered(sent, lines, p) BY <1>1, SomeLineIsRead
<1>3. StreamTyped BY DEF LinesInv
<1>4. /\ sent \in Seq(Bytes) /\ bytes \in Seq(Bytes) /\ available \in Seq(Bytes)
      /\ stream \in Seq(Bytes)
  BY <1>3 DEF StreamTyped
<1>5. /\ Len(sent) \in Nat /\ Len(bytes) \in Nat /\ Len(available) \in Nat
      /\ Len(stream) \in Nat /\ MaxLine \in Nat
  BY <1>4, PartsAssumption
<1>6. PICK c \in 1 .. Len(available) : c = Lines!Count BY <1>1, <1>3, OfThisLine
<1>7. Len(bytes) + c > MaxLine BY <1>1, <1>6 DEF Lines!Exceeds
<1>8. p \in Lines!Starts(sent) /\ p \in 1 .. Len(sent) + 1 /\ p \in Nat
      /\ Len(sent) = (p - 1) + Len(bytes) + Len(available) + Len(stream)
  BY <1>2, <1>4, StartsAreNumbers DEF Reading
<1> DEFINE line == Lines!LineFrom(sent, p)
<1>9. line \in Seq(Bytes) /\ Len(line) >= Len(bytes) + c
  <2>1. CASE Lines!FirstLF(available) # 0
    <3>1. line = bytes \o SubSeq(available, 1, c) BY <1>1, <1>2, <1>3, <1>6, <2>1, LineEndsHere
    <3>2. SubSeq(available, 1, c) \in Seq(Bytes) /\ Len(SubSeq(available, 1, c)) = c
      BY <1>4, <1>6
    <3>3. line \in Seq(Bytes) /\ Len(line) = Len(bytes) + c BY <1>4, <3>1, <3>2
    <3> HIDE DEF line
    <3>4. QED BY <1>5, <1>6, <3>3
  <2>2. CASE Lines!FirstLF(available) = 0
    <3>1. c = Len(available) BY <1>1, <1>3, <1>6, <2>2, OfThisLine
    <3> DEFINE later == {j \in Lines!Ends(sent) : j >= p}
    <3>2. \A j \in later : j \in p .. Len(sent) /\ sent[j] = "LF" BY <1>4, <1>8 DEF Lines!Ends
    <3>3. CASE later = {}
      <4>1. line = SubSeq(sent, p, Len(sent)) BY <3>3 DEF Lines!LineFrom
      <4>2. line \in Seq(Bytes) /\ Len(line) = Len(sent) - p + 1 BY <1>4, <1>8, <4>1
      <4> HIDE DEF line
      <4>3. QED BY <1>5, <1>8, <3>1, <4>2
    <3>4. CASE later # {}
      <4>1. later \in SUBSET Nat BY <1>8, <3>2
      <4> HIDE DEF later
      <4>2. PICK e \in later : \A j \in later : e <= j BY <3>4, <4>1, LeastNumber
      <4>3. e \in p .. Len(sent) /\ sent[e] = "LF" BY <3>2, <4>2
      <4>4. \A i \in p .. e - 1 : sent[i] # "LF"
        <5> SUFFICES ASSUME NEW i \in p .. e - 1, sent[i] = "LF" PROVE FALSE OBVIOUS
        <5>1. i \in later BY <1>4, <1>8, <4>3 DEF later, Lines!Ends
        <5>2. ~(e <= i) BY <1>8, <4>3
        <5>3. QED BY <4>2, <5>1, <5>2
      <4>5. line = SubSeq(sent, p, e) BY <1>4, <1>8, <4>3, <4>4, WholeLine
      <4>6. line \in Seq(Bytes) /\ Len(line) = e - p + 1 BY <1>4, <1>8, <4>3, <4>5
      <4>7. ASSUME e <= (p - 1) + Len(bytes) + Len(available) PROVE FALSE
        <5>1. CASE e <= (p - 1) + Len(bytes)
          <6>1. e - (p - 1) \in 1 .. Len(bytes) /\ (p - 1) + (e - (p - 1)) = e
            BY <1>5, <1>8, <4>3, <5>1
          <6>2. \A k \in 1 .. Len(bytes) : bytes[k] = sent[(p - 1) + k] /\ bytes[k] # "LF"
            BY <1>2 DEF Reading
          <6>3. QED BY <4>3, <6>1, <6>2
        <5>2. CASE ~(e <= (p - 1) + Len(bytes))
          <6> DEFINE k == e - ((p - 1) + Len(bytes))
          <6>1. k \in 1 .. Len(available) /\ (p - 1) + Len(bytes) + k = e
            BY <1>5, <1>8, <4>3, <4>7, <5>2
          <6> HIDE DEF k
          <6>2. available[k] = sent[(p - 1) + Len(bytes) + k] BY <1>2, <6>1 DEF Reading
          <6>3. available[k] # "LF" BY <1>1, <1>3, <2>2, <6>1, OfThisLine
          <6>4. QED BY <4>3, <6>1, <6>2, <6>3
        <5>3. QED BY <5>1, <5>2
      <4> HIDE DEF line
      <4>8. QED BY <1>5, <1>8, <3>1, <4>3, <4>6, <4>7
    <3>5. QED BY <3>3, <3>4
  <2>3. QED BY <2>1, <2>2
<1> HIDE DEF line
<1>10. Len(line) > MaxLine BY <1>5, <1>6, <1>7, <1>9
<1>11. Len(<<>>) = 0 OBVIOUS
<1>12. line # <<>> BY <1>5, <1>10, <1>11
<1>13. Lines!Verdict(line) = "too long" BY <1>10, <1>12 DEF Lines!Verdict
<1>14. StreamTyped' BY <1>1, <1>3 DEF StreamTyped
<1>15. QED BY <1>1, <1>2, <1>13, <1>14, EndsAsItSays DEF line

LEMMA Joined ==
  ASSUME NEW a \in Seq(Bytes), NEW b \in Seq(Bytes)
  PROVE  /\ a \o b \in Seq(Bytes) /\ Len(a \o b) = Len(a) + Len(b)
         /\ \A k \in 1 .. Len(a) : (a \o b)[k] = a[k]
         /\ \A k \in 1 .. Len(b) : (a \o b)[Len(a) + k] = b[k]
OBVIOUS

(* A chunk of the line. *)
LEMMA TakeStep == LinesInv /\ Lines!Take => LinesInv'
<1> SUFFICES ASSUME LinesInv, Lines!Take PROVE LinesInv' OBVIOUS
<1>1. /\ ending = "" /\ available # <<>> /\ ~Lines!Exceeds /\ Lines!FirstLF(available) = 0
      /\ bytes' = bytes \o available /\ available' = <<>>
      /\ UNCHANGED <<sent, stream, lines, ending>>
  BY DEF Lines!Take
<1>2. PICK p : Reading(p) /\ Answered(sent, lines, p) BY <1>1, SomeLineIsRead
<1>3. StreamTyped BY DEF LinesInv
<1>4. /\ sent \in Seq(Bytes) /\ bytes \in Seq(Bytes) /\ available \in Seq(Bytes)
      /\ stream \in Seq(Bytes)
  BY <1>3 DEF StreamTyped
<1>5. /\ Len(sent) \in Nat /\ Len(bytes) \in Nat /\ Len(available) \in Nat
      /\ Len(stream) \in Nat /\ MaxLine \in Nat
  BY <1>4, PartsAssumption
<1>6. Lines!Count = Len(available) /\ \A i \in 1 .. Len(available) : available[i] # "LF"
  BY <1>1, <1>3, OfThisLine
<1>7. Len(bytes) + Len(available) <= MaxLine
  <2>1. ~(Len(bytes) + Len(available) > MaxLine) BY <1>1, <1>6 DEF Lines!Exceeds
  <2>2. QED BY <1>5, <2>1
<1>8. p \in Lines!Starts(sent) /\ p \in Nat BY <1>2, <1>4, StartsAreNumbers DEF Reading
<1>9. /\ Len(sent) = (p - 1) + Len(bytes) + Len(available) + Len(stream)
      /\ \A k \in 1 .. Len(bytes) : bytes[k] = sent[(p - 1) + k] /\ bytes[k] # "LF"
      /\ \A k \in 1 .. Len(available) : available[k] = sent[(p - 1) + Len(bytes) + k]
      /\ \A k \in 1 .. Len(stream) :
           stream[k] = sent[(p - 1) + Len(bytes) + Len(available) + k]
  BY <1>2 DEF Reading
<1>10. Len(<<>>) = 0 /\ \A S : <<>> \in Seq(S) OBVIOUS
<1>11. Len(available') = 0 /\ available' \in Seq(Bytes) BY <1>1, <1>10
<1>12. /\ bytes' \in Seq(Bytes) /\ Len(bytes') = Len(bytes) + Len(available)
       /\ \A k \in 1 .. Len(bytes) : bytes'[k] = bytes[k]
       /\ \A k \in 1 .. Len(available) : bytes'[Len(bytes) + k] = available[k]
  <2>1. bytes' = bytes \o available BY <1>1
  <2>2. bytes \in Seq(Bytes) /\ available \in Seq(Bytes) BY <1>4
  <2>3. QED BY <2>1, <2>2, Joined
<1>13. StreamTyped' BY <1>1, <1>3, <1>11, <1>12 DEF StreamTyped
<1>14. ASSUME NEW k \in 1 .. Len(bytes) + Len(available)
       PROVE  bytes'[k] = sent[(p - 1) + k] /\ bytes'[k] # "LF"
  <2>1. CASE k \in 1 .. Len(bytes) BY <1>9, <1>12, <2>1
  <2>2. CASE k \notin 1 .. Len(bytes)
    <3>1. k - Len(bytes) \in 1 .. Len(available) /\ Len(bytes) + (k - Len(bytes)) = k
      BY <1>5, <2>2
    <3>2. PICK m \in 1 .. Len(available) : k = Len(bytes) + m BY <3>1
    <3>3. (p - 1) + Len(bytes) + m = (p - 1) + k BY <1>5, <1>8, <3>2
    <3>4. bytes'[k] = available[m] BY <1>12, <3>2
    <3>5. available[m] = sent[(p - 1) + k] BY <1>9, <3>3
    <3>6. QED BY <1>6, <3>4, <3>5
  <2>3. QED BY <2>1, <2>2
<1>15. Len(sent') = (p - 1) + Len(bytes') + Len(available') + Len(stream')
  <2>1. sent' = sent /\ stream' = stream BY <1>1
  <2>2. Len(sent) = (p - 1) + Len(bytes') + Len(available') + Len(stream)
    BY <1>5, <1>8, <1>9, <1>11, <1>12
  <2>3. QED BY <2>1, <2>2
<1>16. ASSUME NEW k \in 1 .. Len(stream)
       PROVE  stream[k] = sent[(p - 1) + Len(bytes') + Len(available') + k]
  <2>1. (p - 1) + Len(bytes') + Len(available') + k = (p - 1) + Len(bytes) + Len(available) + k
    BY <1>5, <1>8, <1>11, <1>12
  <2>2. QED BY <1>9, <2>1
<1>17. \A k \in 1 .. Len(available') : FALSE BY <1>11
<1>18. Reading(p)'
  <2>1. Len(bytes') <= MaxLine BY <1>7, <1>12
  <2>2. \A k \in 1 .. Len(bytes') : bytes'[k] = sent[(p - 1) + k] /\ bytes'[k] # "LF"
    BY <1>12, <1>14
  <2>3. sent' = sent /\ stream' = stream BY <1>1
  <2>4. QED BY <1>8, <1>15, <1>16, <1>17, <2>1, <2>2, <2>3 DEF Reading
<1>19. ending' = "" /\ Answered(sent', lines', p) BY <1>1, <1>2
<1>20. QED BY <1>13, <1>18, <1>19 DEF LinesInv

(* The line is complete. *)
LEMMA TakeLineStep == LinesInv /\ Lines!TakeLine => LinesInv'
<1> SUFFICES ASSUME LinesInv, Lines!TakeLine PROVE LinesInv' OBVIOUS
<1> DEFINE line == Lines!WithoutCR(bytes \o SubSeq(available, 1, Lines!Count - 1))
<1>1. /\ ending = "" /\ available # <<>> /\ ~Lines!Exceeds /\ Lines!FirstLF(available) # 0
      /\ IF Lines!Utf8(line) THEN lines' = Append(lines, line) /\ UNCHANGED ending
         ELSE ending' = "invalid" /\ UNCHANGED lines
      /\ bytes' = <<>> /\ available' = SubSeq(available, Lines!Count + 1, Len(available))
      /\ UNCHANGED <<sent, stream>>
  BY DEF Lines!TakeLine
<1>2. PICK p : Reading(p) /\ Answered(sent, lines, p) BY <1>1, SomeLineIsRead
<1>3. StreamTyped BY DEF LinesInv
<1>4. /\ sent \in Seq(Bytes) /\ bytes \in Seq(Bytes) /\ available \in Seq(Bytes)
      /\ stream \in Seq(Bytes) /\ lines \in Seq(Seq(Bytes))
  BY <1>3 DEF StreamTyped
<1>5. /\ Len(sent) \in Nat /\ Len(bytes) \in Nat /\ Len(available) \in Nat
      /\ Len(stream) \in Nat /\ MaxLine \in Nat
  BY <1>4, PartsAssumption
<1>6. PICK c \in 1 .. Len(available) : c = Lines!Count BY <1>1, <1>3, OfThisLine
<1>7. p \in Lines!Starts(sent) /\ p \in Nat BY <1>2, <1>4, StartsAreNumbers DEF Reading
<1> DEFINE whole == bytes \o SubSeq(available, 1, c)
           e == (p - 1) + Len(bytes) + c
<1>8. /\ Lines!LineFrom(sent, p) = whole /\ e + 1 \in Lines!Starts(sent)
      /\ Below(sent, e + 1) = Below(sent, p) \cup {p}
      /\ Cardinality(Below(sent, e + 1)) = Cardinality(Below(sent, p)) + 1
  BY <1>1, <1>2, <1>3, <1>6, LineEndsHere
<1>9. Len(bytes) + c <= MaxLine
  <2>1. ~(Len(bytes) + c > MaxLine) BY <1>1, <1>6 DEF Lines!Exceeds
  <2>2. QED BY <1>5, <1>6, <2>1
<1>10. available[c] = "LF" BY <1>1, <1>3, <1>6, OfThisLine
<1>11. /\ whole \in Seq(Bytes) /\ Len(whole) = Len(bytes) + c /\ whole[Len(whole)] = "LF"
       /\ Lines!Front(whole) = bytes \o SubSeq(available, 1, c - 1)
       /\ Lines!Front(whole) \in Seq(Bytes)
  <2> DEFINE part1 == SubSeq(available, 1, c)
             part2 == SubSeq(available, 1, c - 1)
             front == SubSeq(whole, 1, Len(whole) - 1)
             most == bytes \o part2
  <2>1. part1 \in Seq(Bytes) /\ Len(part1) = c /\ \A k \in 1 .. c : part1[k] = available[k]
    BY <1>4, <1>6
  <2>2. /\ part2 \in Seq(Bytes) /\ Len(part2) = c - 1
        /\ \A k \in 1 .. c - 1 : part2[k] = available[k]
    BY <1>4, <1>6
  <2>3. whole = bytes \o part1 OBVIOUS
  <2> HIDE DEF part1, part2, whole
  <2>4. /\ whole \in Seq(Bytes) /\ Len(whole) = Len(bytes) + c
        /\ \A k \in 1 .. Len(bytes) : whole[k] = bytes[k]
        /\ \A k \in 1 .. c : whole[Len(bytes) + k] = available[k]
    <3>1. bytes \in Seq(Bytes) /\ part1 \in Seq(Bytes) BY <1>4, <2>1
    <3>2. /\ whole \in Seq(Bytes) /\ Len(whole) = Len(bytes) + Len(part1)
          /\ \A k \in 1 .. Len(bytes) : whole[k] = bytes[k]
          /\ \A k \in 1 .. Len(part1) : whole[Len(bytes) + k] = part1[k]
      BY <2>3, <3>1, Joined
    <3>3. QED BY <2>1, <3>2
  <2>5. /\ most \in Seq(Bytes) /\ Len(most) = Len(bytes) + (c - 1)
        /\ \A k \in 1 .. Len(bytes) : most[k] = bytes[k]
        /\ \A k \in 1 .. c - 1 : most[Len(bytes) + k] = available[k]
    <3>1. bytes \in Seq(Bytes) /\ part2 \in Seq(Bytes) BY <1>4, <2>2
    <3>2. /\ most \in Seq(Bytes) /\ Len(most) = Len(bytes) + Len(part2)
          /\ \A k \in 1 .. Len(bytes) : most[k] = bytes[k]
          /\ \A k \in 1 .. Len(part2) : most[Len(bytes) + k] = part2[k]
      BY <3>1, Joined
    <3> HIDE DEF most
    <3>3. QED BY <2>2, <3>2
  <2>6. /\ front \in Seq(Bytes) /\ Len(front) = Len(whole) - 1
        /\ \A k \in 1 .. Len(front) : front[k] = whole[k]
    BY <1>5, <1>6, <2>4
  <2> HIDE DEF most, front
  <2>7. Len(front) = Len(most) BY <1>5, <1>6, <2>4, <2>5, <2>6
  <2>8. ASSUME NEW k \in 1 .. Len(front) PROVE front[k] = most[k]
    <3>1. CASE k \in 1 .. Len(bytes) BY <2>4, <2>5, <2>6, <3>1
    <3>2. CASE k \notin 1 .. Len(bytes)
      <4>1. Len(front) = Len(bytes) + (c - 1) BY <2>5, <2>7
      <4>2. k - Len(bytes) \in 1 .. c - 1 /\ Len(bytes) + (k - Len(bytes)) = k
        BY <1>5, <1>6, <3>2, <4>1
      <4>3. PICK m \in 1 .. c - 1 : k = Len(bytes) + m BY <4>2
      <4>4. m \in 1 .. c BY <1>6
      <4>5. front[k] = available[m] BY <2>4, <2>6, <4>3, <4>4
      <4>6. most[k] = available[m] BY <2>5, <4>3
      <4>7. QED BY <4>5, <4>6
    <3>3. QED BY <3>1, <3>2
  <2>9. front = most BY <2>5, <2>6, <2>7, <2>8, SeqEqual
  <2>10. whole[Len(whole)] = "LF"
    <3>1. c \in 1 .. c BY <1>6
    <3>2. QED BY <1>10, <2>4, <3>1
  <2>11. Lines!Front(whole) = front BY DEF Lines!Front, front
  <2>12. QED BY <2>4, <2>5, <2>6, <2>9, <2>10, <2>11 DEF most, part2
<1>12. line = Lines!WithoutCR(Lines!Front(whole)) BY <1>6, <1>11
<1>13. line \in Seq(Bytes)
  <2> DEFINE front == Lines!Front(whole)
  <2>1. front \in Seq(Bytes) BY <1>11
  <2>2. line = IF front # <<>> /\ Lines!Last(front) = "CR" THEN SubSeq(front, 1, Len(front) - 1) ELSE front
    BY <1>12 DEF Lines!WithoutCR, Lines!Front
  <2> HIDE DEF front, line
  <2>3. front # <<>> => SubSeq(front, 1, Len(front) - 1) \in Seq(Bytes) BY <2>1
  <2>4. QED BY <2>1, <2>2, <2>3
<1>14. Lines!Verdict(whole) = IF Lines!Utf8(line) THEN "" ELSE "invalid"
  <2>1. Len(<<>>) = 0 OBVIOUS
  <2>2. Len(whole) \in Nat /\ Len(whole) > 0 /\ ~(Len(whole) > MaxLine)
    <3>1. Len(whole) = Len(bytes) + c BY <1>11
    <3> HIDE DEF whole
    <3>2. QED BY <1>5, <1>6, <1>9, <3>1
  <2>3. Lines!Last(whole) = "LF" BY <1>11 DEF Lines!Last
  <2> HIDE DEF whole, line
  <2>4. whole # <<>> BY <2>1, <2>2
  <2>5. QED BY <1>12, <2>2, <2>3, <2>4 DEF Lines!Verdict
<1>15. /\ bytes' \in Seq(Bytes) /\ Len(bytes') = 0
       /\ available' \in Seq(Bytes) /\ Len(available') = Len(available) - c
       /\ \A k \in 1 .. Len(available) - c : available'[k] = available[c + k]
  <2>1. bytes' = <<>> /\ available' = SubSeq(available, c + 1, Len(available)) BY <1>1, <1>6
  <2>2. bytes' \in Seq(Bytes) /\ Len(bytes') = 0 BY <2>1
  <2> DEFINE rest == SubSeq(available, c + 1, Len(available))
  <2>3. /\ rest \in Seq(Bytes) /\ Len(rest) = Len(available) - c
        /\ \A k \in 1 .. Len(available) - c : rest[k] = available[c + k]
    BY <1>4, <1>6
  <2>4. QED BY <2>1, <2>2, <2>3
<1> HIDE DEF line, whole
<1>16. lines' \in Seq(Seq(Bytes))
  <2>1. lines' = Append(lines, line) \/ lines' = lines BY <1>1
  <2>2. lines \in Seq(Seq(Bytes)) BY <1>4
  <2>3. Append(lines, line) \in Seq(Seq(Bytes)) BY <1>13, <2>2
  <2>4. QED BY <2>1, <2>2, <2>3
<1>17. StreamTyped' BY <1>1, <1>4, <1>15, <1>16 DEF StreamTyped
<1>18. CASE ~Lines!Utf8(line)
  <2>1. Lines!Verdict(Lines!LineFrom(sent, p)) = "invalid" BY <1>8, <1>14, <1>18
  <2>2. ending' = "invalid" /\ UNCHANGED <<sent, lines>> BY <1>1, <1>18
  <2>3. QED BY <1>1, <1>2, <1>17, <2>1, <2>2, EndsAsItSays
<1>19. CASE Lines!Utf8(line)
  <2>1. lines' = Append(lines, line) /\ ending' = "" /\ sent' = sent /\ stream' = stream
    BY <1>1, <1>19
  <2>2. Fine(sent, p) BY <1>8, <1>14, <1>19 DEF Fine
  <2>3. line = Lines!WithoutCR(Lines!Front(Lines!LineFrom(sent, p))) BY <1>8, <1>12
  <2>4. Answered(sent, lines', e + 1)
    <3> HIDE DEF e
    <3>1. QED BY <1>2, <1>4, <1>7, <1>8, <1>13, <2>1, <2>2, <2>3, AnswerNext
  <2> PICK q : q = e + 1 OBVIOUS
  <2>5. Reading(q)'
    <3>1. (e + 1) - 1 = (p - 1) + Len(bytes) + c BY <1>5, <1>6, <1>7
    <3>2. /\ Len(sent) = (p - 1) + Len(bytes) + Len(available) + Len(stream)
          /\ \A k \in 1 .. Len(available) : available[k] = sent[(p - 1) + Len(bytes) + k]
          /\ \A k \in 1 .. Len(stream) :
               stream[k] = sent[(p - 1) + Len(bytes) + Len(available) + k]
      BY <1>2 DEF Reading
    <3>3. q \in Lines!Starts(sent) /\ q - 1 = (p - 1) + Len(bytes) + c BY <1>8, <3>1
    <3> HIDE DEF e
    <3>4. Len(sent) = (q - 1) + 0 + (Len(available) - c) + Len(stream)
      BY <1>5, <1>6, <1>7, <3>2, <3>3
    <3>5. ASSUME NEW k \in 1 .. Len(available) - c
          PROVE  available'[k] = sent[(q - 1) + 0 + k]
      <4>1. c + k \in 1 .. Len(available) BY <1>5, <1>6
      <4>2. (p - 1) + Len(bytes) + (c + k) = (q - 1) + 0 + k BY <1>5, <1>6, <1>7, <3>3
      <4>3. available[c + k] = sent[(q - 1) + 0 + k] BY <3>2, <4>1, <4>2
      <4>4. QED BY <1>15, <4>3
    <3>6. ASSUME NEW k \in 1 .. Len(stream)
          PROVE  stream[k] = sent[(q - 1) + 0 + (Len(available) - c) + k]
      <4>1. (p - 1) + Len(bytes) + Len(available) + k = (q - 1) + 0 + (Len(available) - c) + k
        BY <1>5, <1>6, <1>7, <3>3
      <4>2. QED BY <3>2, <4>1
    <3>7. 0 <= MaxLine /\ \A k \in 1 .. 0 : FALSE BY <1>5
    <3>8. Reading(q)'
      <4>1. sent' = sent /\ stream' = stream BY <2>1
      <4>2. /\ q \in Lines!Starts(sent')
            /\ Len(sent') = (q - 1) + Len(bytes') + Len(available') + Len(stream')
            /\ Len(bytes') <= MaxLine
        BY <1>15, <3>3, <3>4, <3>7, <4>1
      <4>3. \A k \in 1 .. Len(bytes') : bytes'[k] = sent'[(q - 1) + k] /\ bytes'[k] # "LF"
        BY <1>15, <3>7
      <4>4. \A k \in 1 .. Len(available') : available'[k] = sent'[(q - 1) + Len(bytes') + k]
        BY <1>15, <3>5, <4>1
      <4>5. \A k \in 1 .. Len(stream') :
              stream'[k] = sent'[(q - 1) + Len(bytes') + Len(available') + k]
        BY <1>15, <3>6, <4>1
      <4>6. QED BY <4>2, <4>3, <4>4, <4>5 DEF Reading
    <3>9. QED BY <3>8
  <2>6. Answered(sent', lines', q) BY <2>1, <2>4
  <2> HIDE DEF e
  <2>7. Reading(q)' /\ Answered(sent', lines', q) BY <2>5, <2>6
  <2>8. ending' = "" BY <2>1
  <2>9. QED BY <1>17, <2>7, <2>8 DEF LinesInv
<1>20. QED BY <1>18, <1>19

LEMMA LinesStep == LinesInv /\ [Lines!Next]_linesVars => LinesInv'
<1> SUFFICES ASSUME LinesInv, [Lines!Next]_linesVars PROVE LinesInv' OBVIOUS
<1>1. CASE UNCHANGED linesVars
  BY <1>1 DEF linesVars, LinesInv, StreamTyped, Reading
<1>2. CASE Lines!Terminated
  BY <1>1, <1>2 DEF Lines!Terminated, Lines!vars, linesVars
<1>3. QED BY <1>1, <1>2, ArriveStep, EndStep, TooLongStep, TakeStep, TakeLineStep DEF Lines!Next

(* For every stream, however it is cut into chunks, and every limit: the   *)
(* lines read are those of the stream, and the session stops for the       *)
(* reason the stream gives (read_line).                                    *)
THEOREM ChunksAreInvisible == Spec => []ChunkingIsInvisible
<1>1. LinesInv => ChunkingIsInvisible
  <2> SUFFICES ASSUME LinesInv PROVE ChunkingIsInvisible OBVIOUS
  <2>1. sent \in Seq(Bytes) /\ lines \in Seq(Seq(Bytes)) BY DEF LinesInv, StreamTyped
  <2>2. CASE ending = ""
    <3>1. PICK p : Reading(p) /\ Answered(sent, lines, p) BY <2>2 DEF LinesInv
    <3>2. p \in Lines!Starts(sent) BY <3>1 DEF Reading
    <3>3. Lines!IsPrefix(lines, Lines!Good(sent)) BY <2>1, <3>1, <3>2, AnsweredSoFar
    <3>4. QED BY <2>2, <3>3 DEF ChunkingIsInvisible, Lines!ChunkingIsInvisible
  <2>3. CASE ending # ""
    <3>1. lines = Lines!Good(sent) /\ ending = Lines!Verdict(Lines!LineFrom(sent, Lines!Bad(sent)))
      BY <2>3 DEF LinesInv
    <3>2. Lines!IsPrefix(lines, lines)
      <4>1. Len(lines) \in Nat BY <2>1
      <4>2. QED BY <4>1 DEF Lines!IsPrefix
    <3>3. QED BY <3>1, <3>2 DEF ChunkingIsInvisible, Lines!ChunkingIsInvisible
  <2>4. QED BY <2>2, <2>3
<1>2. QED BY <1>1, LinesRun, LinesInit, LinesStep, PTL

-------------------------------------------------------------------------------
(* Credentials.  The pass keeps one word of memory, previous_run; the proof *)
(* rests on what that word stands for: it is a scheme exactly when nothing *)
(* but white space lies between one and the item looked at next.           *)

(* What is written for the i-th item. *)
Shown(i) == IF Scan!Credential(i) THEN "marker" ELSE argument[i]

ScanTyped ==
  /\ argument \in Seq(Scan!Items)
  /\ at \in 0 .. Len(argument)
  /\ previous \in Scan!Runs \cup {"none"}

Remembered == previous = "scheme" <=> Scan!Introduced(at + 1)

ScanInv == ScanTyped /\ Remembered /\ Scan!ExactlyCredentialsHidden

(* One item further on: a scheme introduces, white space passes on what    *)
(* came before it, and everything else ends it.                            *)
LEMMA IntroducedNext ==
  ASSUME ScanTyped, at < Len(argument)
  PROVE  Scan!Introduced(at + 2) <=>
           Scan!Item = "scheme" \/ (Scan!Item = "space" /\ Scan!Introduced(at + 1))
<1>1. at \in Nat BY DEF ScanTyped
<1>2. ASSUME Scan!Item = "scheme" PROVE Scan!Introduced(at + 2)
  <2>1. at + 1 \in 1 .. (at + 2) - 1 BY <1>1
  <2>2. \A k \in (at + 1) + 1 .. (at + 2) - 1 : argument[k] = "space" BY <1>1
  <2>3. QED BY <1>2, <2>1, <2>2 DEF Scan!Introduced, Scan!Item
<1>3. ASSUME Scan!Item = "space", Scan!Introduced(at + 1) PROVE Scan!Introduced(at + 2)
  <2>1. PICK j \in 1 .. (at + 1) - 1 :
          /\ argument[j] = "scheme"
          /\ \A k \in j + 1 .. (at + 1) - 1 : argument[k] = "space"
    BY <1>3 DEF Scan!Introduced
  <2>2. j \in 1 .. (at + 2) - 1 BY <1>1, <2>1
  <2>3. \A k \in j + 1 .. (at + 2) - 1 : k = at + 1 \/ k \in j + 1 .. (at + 1) - 1
    BY <1>1, <2>1
  <2>4. \A k \in j + 1 .. (at + 2) - 1 : argument[k] = "space"
    BY <1>3, <2>1, <2>3 DEF Scan!Item
  <2>5. QED BY <2>1, <2>2, <2>4 DEF Scan!Introduced
<1>4. ASSUME Scan!Introduced(at + 2), Scan!Item # "scheme"
      PROVE  Scan!Item = "space" /\ Scan!Introduced(at + 1)
  <2>1. PICK j \in 1 .. (at + 2) - 1 :
          /\ argument[j] = "scheme"
          /\ \A k \in j + 1 .. (at + 2) - 1 : argument[k] = "space"
    BY <1>4 DEF Scan!Introduced
  <2>2. j # at + 1 BY <1>4, <2>1 DEF Scan!Item
  <2>3. j \in 1 .. (at + 1) - 1 /\ at + 1 \in j + 1 .. (at + 2) - 1
    BY <1>1, <2>1, <2>2
  <2>4. Scan!Item = "space" BY <2>1, <2>3 DEF Scan!Item
  <2>5. \A k \in j + 1 .. (at + 1) - 1 : argument[k] = "space"
    <3>1. \A k \in j + 1 .. (at + 1) - 1 : k \in j + 1 .. (at + 2) - 1 BY <1>1, <2>1
    <3>2. QED BY <2>1, <3>1
  <2>6. QED BY <2>1, <2>3, <2>4, <2>5 DEF Scan!Introduced
<1>5. QED BY <1>2, <1>3, <1>4

(* Writing what the next item is shown as extends the list of all shown.   *)
LEMMA WriteNext ==
  ASSUME ScanTyped, Scan!ExactlyCredentialsHidden, at < Len(argument)
  PROVE  Append(output, Shown(at + 1)) = [i \in 1 .. at + 1 |-> Shown(i)]
<1>1. at \in Nat BY DEF ScanTyped
<1>2. output = [i \in 1 .. at |-> Shown(i)] BY DEF Scan!ExactlyCredentialsHidden, Shown
<1>3. HIDE DEF Shown
<1>4. QED BY <1>1, <1>2

(* The initial state: nothing scanned, nothing introduced. *)
LEMMA ScanInit == Scan!Init => ScanInv
<1> SUFFICES ASSUME Scan!Init PROVE ScanInv OBVIOUS
<1>1. ScanTyped
  <2>1. PICK n \in 0 .. MaxScanned : argument \in [1 .. n -> Scan!Items] BY DEF Scan!Init
  <2>2. QED BY <2>1 DEF Scan!Init, ScanTyped
<1>2. Remembered BY DEF Scan!Init, Remembered, Scan!Introduced
<1>3. Scan!ExactlyCredentialsHidden BY DEF Scan!Init, Scan!ExactlyCredentialsHidden
<1>4. QED BY <1>1, <1>2, <1>3 DEF ScanInv

(* Every step of the scan preserves what it remembers and has written. *)
LEMMA ScanStep == ScanInv /\ [Scan!Next]_credentialsVars => ScanInv'
<1> SUFFICES ASSUME ScanInv, [Scan!Next]_credentialsVars PROVE ScanInv' OBVIOUS
<1>1. ScanTyped /\ Remembered /\ Scan!ExactlyCredentialsHidden BY DEF ScanInv
<1>2. at \in Nat /\ Len(argument) \in Nat BY <1>1 DEF ScanTyped
<1>3. ASSUME at < Len(argument), UNCHANGED argument, at' = at + 1,
             previous' \in Scan!Runs \cup {"none"},
             previous' = "scheme" <=>
               Scan!Item = "scheme" \/ (Scan!Item = "space" /\ previous = "scheme"),
             output' = Append(output, Shown(at + 1))
      PROVE  ScanInv'
  <2>1. ScanTyped' BY <1>1, <1>2, <1>3 DEF ScanTyped
  <2>2. Scan!Introduced(at + 2) <=> previous' = "scheme"
    BY <1>1, <1>3, IntroducedNext DEF Remembered
  <2>3. Remembered'
    <3>1. at' + 1 = at + 2 BY <1>2, <1>3
    <3>2. Scan!Introduced(at + 1)' <=> Scan!Introduced(at + 2)
      BY <1>3, <3>1 DEF Scan!Introduced
    <3>3. QED BY <2>2, <3>2 DEF Remembered
  <2>4. Scan!ExactlyCredentialsHidden'
    <3>1. output' = [i \in 1 .. at + 1 |-> Shown(i)] BY <1>1, <1>3, WriteNext
    <3>2. ASSUME NEW i PROVE Shown(i)' = Shown(i)
      BY <1>3 DEF Shown, Scan!Credential, Scan!Introduced
    <3>3. output' = [i \in 1 .. at' |-> Shown(i)'] BY <1>3, <3>1, <3>2
    <3>4. QED BY <3>3 DEF Scan!ExactlyCredentialsHidden, Shown
  <2>5. QED BY <2>1, <2>3, <2>4 DEF ScanInv
<1>4. CASE Scan!Separator
  <2>1. Scan!Item \notin {"shaped", "long"} /\ Scan!Item # "scheme"
    BY <1>4 DEF Scan!Separator, Scan!Separators
  <2>2. Shown(at + 1) = Scan!Item BY <2>1 DEF Shown, Scan!Credential, Scan!Item
  <2>3. QED BY <1>1, <1>3, <1>4, <2>1, <2>2 DEF Scan!Separator, Scan!Separators, ScanTyped
<1>5. CASE Scan!Run
  <2>1. Scan!Item # "space" BY <1>5 DEF Scan!Run, Scan!Runs
  <2>2. Scan!Secret(Scan!Item) <=> Scan!Credential(at + 1)
    BY <1>1 DEF Scan!Secret, Scan!Credential, Remembered, Scan!Item
  <2>3. Shown(at + 1) = IF Scan!Secret(Scan!Item) THEN "marker" ELSE Scan!Item
    BY <2>2 DEF Shown, Scan!Item
  <2>4. QED BY <1>3, <1>5, <2>1, <2>3 DEF Scan!Run
<1>6. CASE UNCHANGED credentialsVars
  BY <1>1, <1>6
  DEF credentialsVars, ScanInv, ScanTyped, Remembered, Scan!ExactlyCredentialsHidden,
      Scan!Credential, Scan!Introduced
<1>7. QED BY <1>4, <1>5, <1>6 DEF Scan!Next, Scan!Over, Scan!vars, credentialsVars

(* For every text, of any length: each credential is replaced where it     *)
(* stood, and no other run and no separator is (redact_text).              *)
THEOREM CredentialsHidden == Spec => []ExactlyCredentialsHidden
<1>1. ScanInv => ExactlyCredentialsHidden BY DEF ScanInv, ExactlyCredentialsHidden
<1>2. QED BY <1>1, ScanRuns, ScanInit, ScanStep, PTL

-------------------------------------------------------------------------------
(* Paging.  While the loop selects, the frame on screen is the one the     *)
(* offsets give for the size it was drawn at: only then is what a key      *)
(* computes comparable with what the operator sees.                        *)

Terminals == [narrow : BOOLEAN, height : Nat]

(* The first row of a frame drawn at this size. *)
FirstRow(s) ==
  Pager!Lesser(IF mode = "Error" THEN Pager!Lesser(scroll, Pager!FrameEnd(s))
                                 ELSE Pager!Resolved(Pager!FrameEnd(s)), ScrollMax)

PagerTyped ==
  /\ pass \in {"measure", "draw", "select"} /\ mode \in {"Shell", "Error"}
  /\ size \in Sizes \cap Terminals /\ viewport \in Terminals /\ frame.size \in Terminals
  /\ length \in 1 .. MaxLength /\ top \in Nat \cup {None} /\ scroll \in Nat

PagerInv == PagerTyped /\ (pass = "select" => frame.first = FirstRow(frame.size))

(* The smallest and the largest of two offsets, and differences, are       *)
(* offsets again.                                                          *)
LEMMA Offsets ==
  ASSUME NEW a \in Nat, NEW b \in Nat
  PROVE  /\ Pager!Lesser(a, b) \in Nat /\ Pager!Lesser(a, b) <= a /\ Pager!Lesser(a, b) <= b
         /\ Pager!Less(a, b) \in Nat /\ Pager!Less(a, b) <= a
         /\ Pager!Greater(a, b) \in Nat /\ a <= Pager!Greater(a, b) /\ b <= Pager!Greater(a, b)
BY DEF Pager!Lesser, Pager!Less, Pager!Greater

(* Every size leaves some pane, and a text some rows. *)
LEMMA Panes ==
  ASSUME PagerTyped, NEW s \in Terminals
  PROVE  /\ Pager!Viewport(s) \in Terminals
         /\ Pager!MaxTop(s) \in Nat /\ Pager!FrameEnd(s) \in Nat
         /\ Pager!ErrorMaxScroll(s) \in Nat
<1>1. s.height \in Nat /\ s.narrow \in BOOLEAN BY DEF Terminals
<1>2. length \in Nat /\ ReportLines \in Nat
  BY PartsAssumption DEF PagerTyped
<1>3. \A n \in Nat : Pager!Rows(n, s.narrow) \in Nat BY <1>1 DEF Pager!Rows
<1>4. Pager!PaneHeight(s) \in Nat BY <1>1, Offsets DEF Pager!PaneHeight
<1>5. Pager!Viewport(s) \in Terminals BY <1>1, <1>4 DEF Pager!Viewport, Terminals
<1>6. Pager!MaxTop(s) \in Nat BY <1>1, <1>2, <1>3, Offsets DEF Pager!MaxTop
<1>7. Pager!Room(s) \in Nat BY <1>1, <1>4, Offsets DEF Pager!Room
<1>8. Pager!Content(s) \in Nat BY <1>2, <1>3 DEF Pager!Content
<1>9. Pager!FrameEnd(s) \in Nat BY <1>7, <1>8, Offsets DEF Pager!FrameEnd
<1>10. s.height + 9 \in Nat BY <1>1
<1>11. Pager!Less(Pager!Rows(ReportLines, s.narrow), s.height + 9) \in Nat
  BY <1>1, <1>2, <1>3, <1>10, Offsets
<1>12. Pager!ErrorMaxScroll(s) \in Nat
  BY <1>11, PartsAssumption, Offsets DEF Pager!ErrorMaxScroll
<1>13. QED BY <1>5, <1>6, <1>9, <1>12

LEMMA PagerInit == Pager!Init => PagerInv
<1> SUFFICES ASSUME Pager!Init PROVE PagerInv OBVIOUS
<1>1. size \in Sizes \cap Terminals BY PartsAssumption DEF Pager!Init, Terminals
<1>2. QED BY <1>1, PartsAssumption DEF Pager!Init, PagerInv, PagerTyped, Terminals

(* A page leads to an offset within the text. *)
LEMMA PageTyped ==
  ASSUME PagerTyped, NEW up \in BOOLEAN, Pager!Page(up)
  PROVE  top' \in Nat \cup {None}
<1> DEFINE end == Pager!MaxTop(viewport)
<1> DEFINE from == Pager!Resolved(end)
<1> DEFINE distance == Pager!Greater(viewport.height, 1)
<1>1. end \in Nat BY Panes DEF PagerTyped
<1>2. viewport.height \in Nat BY DEF PagerTyped, Terminals
<1>3. distance \in Nat BY <1>2, Offsets
<1>4. from \in Nat BY <1>1, Offsets DEF Pager!Resolved, PagerTyped
<1>5. from + distance \in Nat BY <1>3, <1>4
<1>6. Pager!Less(from, distance) \in Nat /\ Pager!Lesser(from + distance, end) \in Nat
  BY <1>1, <1>3, <1>4, <1>5, Offsets
<1>7. QED BY <1>6 DEF Pager!Page

LEMMA PagerStep == PagerInv /\ [Pager!Next]_pagerVars => PagerInv'
<1> SUFFICES ASSUME PagerInv, [Pager!Next]_pagerVars PROVE PagerInv' OBVIOUS
<1> USE DEF PagerInv
<1>1. CASE Pager!Measure
  BY <1>1, Panes DEF Pager!Measure, PagerTyped
<1>2. CASE Pager!Draw
  <2>1. PagerTyped' BY <1>2 DEF Pager!Draw, PagerTyped
  <2>2. frame'.size = size /\ frame'.first = FirstRow(size) BY <1>2 DEF Pager!Draw, FirstRow
  <2>3. ASSUME NEW s PROVE FirstRow(s)' = FirstRow(s)
    BY <1>2 DEF Pager!Draw, FirstRow, Pager!FrameEnd, Pager!Content, Pager!Room, Pager!Resolved
  <2>4. QED BY <2>1, <2>2, <2>3, <1>2 DEF Pager!Draw
<1>3. CASE Pager!Resize
  <2>1. PagerTyped'
    BY <1>3, PartsAssumption DEF Pager!Resize, PagerTyped, Terminals
  <2>2. ASSUME NEW s PROVE FirstRow(s)' = FirstRow(s)
    BY <1>3 DEF Pager!Resize, FirstRow, Pager!FrameEnd, Pager!Content, Pager!Room,
       Pager!Resolved
  <2>3. QED BY <1>3, <2>1, <2>2 DEF Pager!Resize
<1>4. CASE Pager!ResizeEvent
  BY <1>4, Panes DEF Pager!ResizeEvent, PagerTyped
<1>5. CASE Pager!PageUp \/ Pager!PageDown
  <2>1. PICK up \in BOOLEAN : Pager!Page(up) BY <1>5 DEF Pager!PageUp, Pager!PageDown
  <2>2. top' \in Nat \cup {None} BY <2>1, PageTyped
  <2>3. QED BY <1>5, <2>2 DEF Pager!PageUp, Pager!PageDown, Pager!Key, PagerTyped
<1>6. CASE Pager!Home \/ Pager!End \/ Pager!Output \/ Pager!Submit \/ Pager!Hop
  BY <1>6, PartsAssumption
  DEF Pager!Home, Pager!End, Pager!Output, Pager!Submit, Pager!Hop, Pager!Key, PagerTyped
<1>7. CASE Pager!Raise \/ Pager!ErrorClose
  BY <1>7 DEF Pager!Raise, Pager!ErrorClose, Pager!Key, PagerTyped
<1>8. CASE Pager!ErrorScroll
  <2>1. viewport.height \in Nat BY DEF PagerTyped, Terminals
  <2>2. Pager!Greater(viewport.height, 1) \in Nat BY <2>1, Offsets
  <2>3. ASSUME NEW n \in Nat PROVE Pager!Lesser(n, Pager!ErrorMaxScroll(viewport)) \in Nat
    BY Panes, Offsets DEF PagerTyped
  <2>4. \A n \in Nat : Pager!Less(scroll, n) \in Nat BY Offsets DEF PagerTyped
  <2>5. scroll' \in Nat
    BY <1>8, <2>2, <2>3, <2>4 DEF Pager!ErrorScroll, PagerTyped
  <2>6. QED BY <1>8, <2>5 DEF Pager!ErrorScroll, Pager!Key, PagerTyped
<1>9. CASE UNCHANGED pagerVars
  <2>1. ASSUME NEW s PROVE FirstRow(s)' = FirstRow(s)
    BY <1>9 DEF pagerVars, FirstRow, Pager!FrameEnd, Pager!Content, Pager!Room,
       Pager!Resolved
  <2>2. QED BY <1>9, <2>1 DEF pagerVars, PagerTyped
<1>10. QED BY <1>1, <1>2, <1>3, <1>4, <1>5, <1>6, <1>7, <1>8, <1>9 DEF Pager!Next

LEMMA PagerInvariant == Spec => []PagerInv
BY PagerRuns, PagerInit, PagerStep, PTL

(* Where the transcript is on screen, its first row is the offset that the  *)
(* keys compute with, or the last one that a frame can scroll to.          *)
LEMMA ScreenAgrees ==
  ASSUME PagerInv, Pager!Settled, mode = "Shell"
  PROVE  /\ Pager!MaxTop(viewport) = Pager!FrameEnd(size) /\ Pager!FrameEnd(size) \in Nat
         /\ Pager!Resolved(Pager!FrameEnd(size)) \in Nat
         /\ Pager!Resolved(Pager!FrameEnd(size)) <= Pager!FrameEnd(size)
         /\ frame.first = Pager!Lesser(Pager!Resolved(Pager!FrameEnd(size)), ScrollMax)
<1>1. size \in Terminals BY DEF PagerInv, PagerTyped
<1>2. viewport = Pager!Viewport(size) BY DEF Pager!Settled
<1>3. viewport.narrow = size.narrow /\ viewport.height = Pager!PaneHeight(size)
  BY <1>2 DEF Pager!Viewport
<1>4. Pager!MaxTop(viewport) = Pager!FrameEnd(size)
  BY <1>3 DEF Pager!MaxTop, Pager!FrameEnd, Pager!Content, Pager!Room
<1>5. Pager!FrameEnd(size) \in Nat BY <1>1, Panes DEF PagerInv
<1>6. frame.first = FirstRow(size) BY DEF PagerInv, Pager!Settled
<1>7. Pager!Resolved(Pager!FrameEnd(size)) \in Nat
      /\ Pager!Resolved(Pager!FrameEnd(size)) <= Pager!FrameEnd(size)
  <2>1. CASE top = None BY <1>5, <2>1 DEF Pager!Resolved
  <2>2. CASE top \in Nat
    <3>1. Pager!Resolved(Pager!FrameEnd(size)) = Pager!Lesser(top, Pager!FrameEnd(size))
      BY <2>2, PartsAssumption DEF Pager!Resolved
    <3>2. QED BY <1>5, <2>2, <3>1, Offsets
  <2>3. QED BY <2>1, <2>2 DEF PagerInv, PagerTyped
<1>8. QED BY <1>4, <1>5, <1>6, <1>7 DEF FirstRow

(* For every terminal, window and length of either text: a transcript that *)
(* is followed shows its prompt in every pane with a row, and a report can *)
(* be scrolled to its last row and no further on every terminal with the   *)
(* layout's eleven rows, both just as long as a frame can scroll there;    *)
(* beyond, and on lower terminals, they cannot, but for a report that fits *)
(* (app.rs shell_top, chrome.rs error_max_scroll).                         *)
THEOREM EndsAreShown == Spec => []EndIsShown
<1>1. ASSUME PagerInv, Pager!Settled, mode = "Shell", top = None
      PROVE  Pager!PromptOnScreen <=> (Pager!PaneHeight(size) > 0 /\ Pager!WithinScroll)
  <2> DEFINE rows == Pager!Rows(length, size.narrow)
             pane == Pager!PaneHeight(size)
             end == Pager!FrameEnd(size)
  <2>1. size.height \in Nat /\ size.narrow \in BOOLEAN /\ length \in 1 .. MaxLength
    BY <1>1 DEF PagerInv, PagerTyped, Terminals
  <2>2. frame.first = Pager!Lesser(end, ScrollMax) BY <1>1, ScreenAgrees DEF Pager!Resolved
  <2>3. pane \in Nat BY <2>1, Offsets DEF Pager!PaneHeight
  <2>4. rows \in Nat /\ rows >= 1 BY <2>1, PartsAssumption DEF Pager!Rows
  <2>5. end = Pager!Less(rows, pane)
    BY <1>1 DEF Pager!FrameEnd, Pager!Content, Pager!Room
  <2>6. Pager!PromptOnScreen <=> frame.first < rows /\ rows <= frame.first + pane
    BY DEF Pager!PromptOnScreen
  <2>7. Pager!WithinScroll <=> end <= ScrollMax BY DEF Pager!WithinScroll
  <2> HIDE DEF rows, pane, end
  <2>8. (frame.first < rows /\ rows <= frame.first + pane) <=> (pane > 0 /\ end <= ScrollMax)
    BY <2>2, <2>3, <2>4, <2>5, PartsAssumption DEF Pager!Less, Pager!Lesser
  <2>9. QED BY <2>6, <2>7, <2>8 DEF pane
<1>2. ASSUME PagerInv, Pager!Settled, mode = "Error"
      PROVE  Pager!ReportInReach <=>
               (Pager!FrameEnd(size) = 0 \/ (size.height >= 11 /\ Pager!WithinScroll))
  <2> DEFINE rows == Pager!Rows(ReportLines, size.narrow)
             height == size.height
             end == Pager!FrameEnd(size)
             most == Pager!ErrorMaxScroll(viewport)
  <2>1. height \in Nat /\ size.narrow \in BOOLEAN
    BY <1>2 DEF PagerInv, PagerTyped, Terminals
  <2>2. viewport.narrow = size.narrow /\ viewport.height = Pager!Less(height, 11)
    BY <1>2 DEF Pager!Settled, Pager!Viewport, Pager!PaneHeight
  <2>3. rows \in Nat BY <2>1, PartsAssumption DEF Pager!Rows
  <2>4. end = Pager!Less(rows, Pager!Less(height, 2))
    BY <1>2 DEF Pager!FrameEnd, Pager!Content, Pager!Room
  <2>5. most = Pager!Lesser(Pager!Less(rows, Pager!Less(height, 11) + 9), ScrollMax)
    BY <2>2 DEF Pager!ErrorMaxScroll
  <2>6. Pager!ReportInReach <=> most = end BY DEF Pager!ReportInReach
  <2>7. Pager!WithinScroll <=> end <= ScrollMax BY DEF Pager!WithinScroll
  <2> HIDE DEF rows, height, end, most
  <2>8. most = end <=> (end = 0 \/ (height >= 11 /\ end <= ScrollMax))
    BY <2>1, <2>3, <2>4, <2>5, PartsAssumption DEF Pager!Less, Pager!Lesser
  <2>9. QED BY <2>6, <2>7, <2>8 DEF height, end
<1>3. PagerInv => EndIsShown BY <1>1, <1>2 DEF EndIsShown, Pager!EndIsShown
<1>4. QED BY <1>3, PagerInvariant, PTL

(* A page goes on by at most the pane from what it was pressed on, and,    *)
(* where a frame can scroll to the end, by at least a row unless nothing   *)
(* is further.                                                             *)
LEMMA PagesRead ==
  ASSUME PagerInv, Pager!Next
  PROVE  Pager!PagesReadOn
<1> DEFINE end == Pager!FrameEnd(size)
           from == frame.first
           pane == Pager!PaneHeight(size)
           here == Pager!Resolved(end)
           there == Pager!Upcoming(top', end)
           next == Pager!Lesser(there, ScrollMax)
<1> SUFFICES ASSUME Pager!Settled, mode = "Shell", pane > 0
             PROVE  /\ Pager!PageDown => next - from <= pane
                    /\ Pager!PageUp => from - next <= pane
                    /\ end <= ScrollMax =>
                         /\ Pager!PageDown => next > from \/ from = end
                         /\ Pager!PageUp => next < from \/ from = 0
  BY DEF Pager!PagesReadOn
<1>1. size \in Terminals /\ viewport \in Terminals BY DEF PagerInv, PagerTyped
<1>2. size.height \in Nat BY <1>1 DEF Terminals
<1>3. pane \in Nat /\ pane = viewport.height
  BY <1>2, Offsets DEF Pager!PaneHeight, Pager!Settled, Pager!Viewport
<1>4. end \in Nat /\ Pager!MaxTop(viewport) = end BY ScreenAgrees
<1>5. here \in Nat /\ here <= end BY ScreenAgrees
<1>6. from = Pager!Lesser(here, ScrollMax) BY ScreenAgrees
<1>7. Pager!Greater(viewport.height, 1) = pane BY <1>3 DEF Pager!Greater
<1> HIDE DEF from, pane
<1>8. ASSUME NEW up \in BOOLEAN, Pager!Page(up)
      PROVE  there = IF up THEN Pager!Less(here, pane) ELSE Pager!Lesser(here + pane, end)
  <2> DEFINE to == IF up THEN Pager!Less(here, pane) ELSE Pager!Lesser(here + pane, end)
  <2>1. here + pane \in Nat BY <1>3, <1>5
  <2>2. to \in Nat /\ to <= end
    <3>1. Pager!Less(here, pane) \in Nat /\ Pager!Less(here, pane) <= here
      BY <1>3, <1>5, Offsets
    <3>2. Pager!Lesser(here + pane, end) \in Nat /\ Pager!Lesser(here + pane, end) <= end
      BY <1>4, <2>1, Offsets
    <3>3. QED BY <1>4, <1>5, <3>1, <3>2
  <2>3. top' = IF to = end THEN None ELSE to
    BY <1>4, <1>7, <1>8 DEF Pager!Page
  <2> HIDE DEF to, end, here
  <2>4. CASE to = end BY <2>3, <2>4 DEF Pager!Upcoming, to
  <2>5. CASE to # end
    <3>1. top' = to /\ to # None BY <2>2, <2>3, <2>5, PartsAssumption
    <3>2. there = Pager!Lesser(to, end) BY <3>1 DEF Pager!Upcoming
    <3>3. QED BY <1>4, <2>2, <2>5, <3>2 DEF Pager!Lesser, to
  <2>6. QED BY <2>4, <2>5
<1> HIDE DEF end, here, there
<1>9. Pager!PageDown => /\ next - from <= pane
                        /\ end <= ScrollMax => next > from \/ from = end
  <2>1. SUFFICES ASSUME Pager!PageDown
                 PROVE  /\ next - from <= pane
                        /\ end <= ScrollMax => next > from \/ from = end
    OBVIOUS
  <2>2. there = Pager!Lesser(here + pane, end) BY <1>8, <2>1 DEF Pager!PageDown
  <2>3. QED BY <1>3, <1>4, <1>5, <1>6, <2>2, PartsAssumption DEF Pager!Lesser
<1>10. Pager!PageUp => /\ from - next <= pane
                       /\ end <= ScrollMax => next < from \/ from = 0
  <2>1. SUFFICES ASSUME Pager!PageUp
                 PROVE  /\ from - next <= pane
                        /\ end <= ScrollMax => next < from \/ from = 0
    OBVIOUS
  <2>2. there = Pager!Less(here, pane) BY <1>8, <2>1 DEF Pager!PageUp
  <2>3. QED BY <1>3, <1>4, <1>5, <1>6, <2>2, PartsAssumption DEF Pager!Lesser, Pager!Less
<1>11. QED BY <1>9, <1>10

(* An offset that a page leaves behind is short of the end. *)
LEMMA BottomIsFollowed == ASSUME PagerInv PROVE Pager!BottomFollows
<1> SUFFICES ASSUME Pager!PageDown \/ Pager!PageUp, top' # None
             PROVE  top' < Pager!MaxTop(viewport)
  BY DEF Pager!BottomFollows
<1> DEFINE end == Pager!MaxTop(viewport)
           from == Pager!Resolved(end)
           distance == Pager!Greater(viewport.height, 1)
<1>1. PICK up \in BOOLEAN : Pager!Page(up) BY DEF Pager!PageUp, Pager!PageDown
<1>2. end \in Nat BY Panes DEF PagerInv, PagerTyped
<1>3. viewport.height \in Nat BY DEF PagerInv, PagerTyped, Terminals
<1>4. distance \in Nat BY <1>3, Offsets
<1>5. from \in Nat /\ from <= end
  <2>1. CASE top = None BY <1>2, <2>1 DEF Pager!Resolved
  <2>2. CASE top \in Nat BY <1>2, <2>2, PartsAssumption, Offsets DEF Pager!Resolved
  <2>3. QED BY <2>1, <2>2 DEF PagerInv, PagerTyped
<1> DEFINE to == IF up THEN Pager!Less(from, distance) ELSE Pager!Lesser(from + distance, end)
<1>6. top' = IF to = end THEN None ELSE to BY <1>1 DEF Pager!Page
<1> HIDE DEF from, distance, end
<1>7. to \in Nat /\ to <= end
  <2>1. from + distance \in Nat BY <1>4, <1>5
  <2>2. QED BY <1>2, <1>4, <1>5, <2>1, Offsets DEF Pager!Less
<1>8. top' = to /\ to # end BY <1>6
<1>9. QED BY <1>2, <1>7, <1>8 DEF end

(* For every terminal, window and length of the transcript: pages skip no  *)
(* row, and get somewhere up to what a frame can scroll; nothing else      *)
(* moves the reader, and the bottom is followed again (ui::shell::page and *)
(* draw, App::shell_top).                                                  *)
THEOREM ReaderStays == Spec => ReaderKeepsPlace
<1>1. Pager!Next => Pager!ReaderIsLeftAlone
  BY DEF Pager!Next, Pager!ReaderIsLeftAlone, Pager!Measure, Pager!Draw, Pager!Resize,
     Pager!ResizeEvent, Pager!Output, Pager!Raise, Pager!ErrorScroll, Pager!ErrorClose
<1> DEFINE Kept == Pager!PagesReadOn /\ Pager!ReaderIsLeftAlone /\ Pager!BottomFollows
<1>2. PagerInv /\ [Pager!Next]_pagerVars => [Kept]_(Pager!vars)
  <2>1. SUFFICES ASSUME PagerInv, [Pager!Next]_pagerVars PROVE [Kept]_(Pager!vars) OBVIOUS
  <2>2. CASE Pager!Next BY <1>1, <2>1, <2>2, PagesRead, BottomIsFollowed
  <2>3. CASE UNCHANGED pagerVars BY <2>3 DEF pagerVars, Pager!vars
  <2>4. QED BY <2>1, <2>2, <2>3
<1>3. (Spec => [][Kept]_(Pager!vars)) => (Spec => ReaderKeepsPlace)
  BY DEF ReaderKeepsPlace, Pager!ReaderKeepsPlace
<1> HIDE DEF Kept
<1>4. QED BY <1>2, <1>3, PagerInvariant, PagerRuns, PTL

-------------------------------------------------------------------------------
(* Reports.  A report is filled in from the state it finds, so that the    *)
(* state has to name the attempt for as long as the attempt can fail: the  *)
(* highlight while a hop has no session yet, the session from then on, and *)
(* the profile and the trace all along.                                    *)

(* What this report would be filled in with now. *)
Fact ==
  [agent |-> IF session = NoAgent THEN highlighted ELSE session,
   profile |-> profile, trace |-> trace]

(* What a fact must say of an attempt. *)
Tells(fact, of) ==
  /\ fact.agent = of.agent /\ fact.profile = of.profile
  /\ \A leg \in Told!ToSet(fact.trace) : leg > of.since

Truthful(report) == \A i \in DOMAIN report.facts : Tells(report.facts[i], report.of)

LegsInv ==
  /\ legs \in Nat /\ attempt.since \in Nat /\ attempt.since <= legs
  /\ \A leg \in Told!ToSet(trace) : leg > attempt.since
AttemptInv ==
  /\ attempt.profile = profile
  /\ session # NoAgent => attempt.agent = session
  /\ loop = "hop" => session = NoAgent /\ attempt.agent = highlighted
  /\ loop \in {"turn", "shell"} \/ running # "none" => session # NoAgent
ReportsInv ==
  /\ LegsInv /\ AttemptInv
  /\ \A report \in Told!Written : Truthful(report)

(* A report of one fact, and of two. *)
LEMMA FilledOnce ==
  ASSUME NEW error
  PROVE  Told!Filled(Told!FromError(error)) =
           [error |-> Told!Chain(error), refusal |-> Told!BrokerRefusal(error),
            facts |-> <<Fact>>, of |-> attempt, cause |-> error]
BY DEF Told!Filled, Told!FromError, Fact

LEMMA Doubled == ASSUME NEW x PROVE Append(<<x>>, x) = <<x, x>>
<1>1. <<x>> \in Seq({x}) /\ <<x, x>> \in Seq({x}) OBVIOUS
<1>2. Append(<<x>>, x) \in Seq({x}) /\ Len(Append(<<x>>, x)) = 2 BY <1>1
<1>3. \A i \in 1 .. 2 : Append(<<x>>, x)[i] = <<x, x>>[i] BY <1>1
<1>4. QED BY <1>1, <1>2, <1>3, SeqEqual

LEMMA FilledTwice ==
  ASSUME NEW error
  PROVE  Told!Filled(Told!Filled(Told!FromError(error))) =
           [error |-> Told!Chain(error), refusal |-> Told!BrokerRefusal(error),
            facts |-> <<Fact, Fact>>, of |-> attempt, cause |-> error]
<1> DEFINE once == [error |-> Told!Chain(error), refusal |-> Told!BrokerRefusal(error),
                    facts |-> <<Fact>>, of |-> attempt, cause |-> error]
<1>1. Told!Filled(Told!FromError(error)) = once BY FilledOnce
<1>2. Told!Filled(once) = [once EXCEPT !.facts = Append(@, Fact)] BY DEF Told!Filled, Fact
<1>3. Append(<<Fact>>, Fact) = <<Fact, Fact>> BY Doubled
<1> HIDE DEF Fact
<1>4. [once EXCEPT !.facts = Append(@, Fact)]
        = [error |-> Told!Chain(error), refusal |-> Told!BrokerRefusal(error),
           facts |-> <<Fact, Fact>>, of |-> attempt, cause |-> error]
  BY <1>3
<1>5. QED BY <1>1, <1>2, <1>4

(* Whoever is on screen when an attempt fails is who attempted it. *)
LEMMA FactTells ==
  ASSUME ReportsInv, loop = "hop" \/ session # NoAgent
  PROVE  Tells(Fact, attempt)
BY DEF ReportsInv, LegsInv, AttemptInv, Fact, Tells

LEMMA FilledTruthful ==
  ASSUME ReportsInv, loop = "hop" \/ session # NoAgent, NEW error
  PROVE  /\ Truthful(Told!Filled(Told!FromError(error)))
         /\ Truthful(Told!Filled(Told!Filled(Told!FromError(error))))
<1>1. Tells(Fact, attempt) BY FactTells
<1> HIDE DEF Fact
<1>2. Truthful(Told!Filled(Told!FromError(error)))
  BY <1>1, FilledOnce DEF Truthful
<1>3. Truthful(Told!Filled(Told!Filled(Told!FromError(error))))
  BY <1>1, FilledTwice DEF Truthful
<1>4. QED BY <1>2, <1>3

LEMMA ReportsInit == Told!Init => ReportsInv
BY DEF Told!Init, ReportsInv, LegsInv, AttemptInv, Told!Written, Told!ToSet

(* Only what is written anew has to be looked at. *)
LEMMA WrittenAnew ==
  ASSUME ReportsInv, NEW report, Truthful(report),
         last' = <<report>> \/ UNCHANGED last,
         entry' = <<report>> \/ entry' = <<>> \/ UNCHANGED entry
  PROVE  \A r \in Told!Written' : Truthful(r)
<1>1. \A r : r \in Told!ToSet(<<report>>) => r = report BY DEF Told!ToSet
<1>2. Told!ToSet(<<>>) = {} BY DEF Told!ToSet
<1>3. Told!Written' = Told!ToSet(last') \cup Told!ToSet(entry') BY DEF Told!Written
<1>4. Told!Written' \subseteq Told!Written \cup {report}
  BY <1>1, <1>2, <1>3 DEF Told!Written
<1>5. QED BY <1>4 DEF ReportsInv

LEMMA ReportsStep == ReportsInv /\ [Told!Next]_toldVars => ReportsInv'
<1> SUFFICES ASSUME ReportsInv, [Told!Next]_toldVars PROVE ReportsInv' OBVIOUS
<1>1. LegsInv /\ AttemptInv /\ \A report \in Told!Written : Truthful(report)
  BY DEF ReportsInv
<1>2. ASSUME last' = last, entry' = entry \/ entry' = <<>>
      PROVE  \A report \in Told!Written' : Truthful(report)
  <2>1. Told!ToSet(<<>>) = {} BY DEF Told!ToSet
  <2>2. Told!Written' \subseteq Told!Written BY <1>2, <2>1 DEF Told!Written
  <2>3. QED BY <1>1, <2>2
<1>3. \A n : Told!ToSet(<<n>>) = {n} BY DEF Told!ToSet
<1>4. Told!ToSet(<<>>) = {} BY DEF Told!ToSet
<1>5. ASSUME NEW agent \in Catalog, Told!MoveSelection(agent) PROVE ReportsInv'
  BY <1>1, <1>2, <1>5 DEF Told!MoveSelection, ReportsInv, LegsInv, AttemptInv
<1>6. CASE Told!Hop
  BY <1>1, <1>2, <1>4, <1>6 DEF Told!Hop, Told!Busy, ReportsInv, LegsInv, AttemptInv
<1>7. CASE Told!HopGranted
  BY <1>1, <1>2, <1>3, <1>7 DEF Told!HopGranted, ReportsInv, LegsInv, AttemptInv
<1>8. ASSUME NEW kind \in {"turn", "shell"}, Told!Submit(kind) PROVE ReportsInv'
  BY <1>1, <1>2, <1>8 DEF Told!Submit, ReportsInv, LegsInv, AttemptInv
<1>9. CASE Told!Spawned
  BY <1>1, <1>2, <1>3, <1>9 DEF Told!Spawned, ReportsInv, LegsInv, AttemptInv
<1>10. CASE Told!OutcomeReceived
  BY <1>1, <1>2, <1>10 DEF Told!OutcomeReceived, ReportsInv, LegsInv, AttemptInv
<1>11. CASE Told!TurnEnds
  BY <1>1, <1>2, <1>11 DEF Told!TurnEnds, ReportsInv, LegsInv, AttemptInv
<1>12. ASSUME NEW error \in Errors, Told!HopDenied(error) PROVE ReportsInv'
  <2>1. Truthful(Told!Filled(Told!FromError(error))) BY <1>12, FilledTruthful DEF Told!HopDenied
  <2>2. \A r \in Told!Written' : Truthful(r) BY <1>12, <2>1, WrittenAnew DEF Told!HopDenied
  <2>3. QED BY <1>1, <1>12, <2>2 DEF Told!HopDenied, ReportsInv, LegsInv, AttemptInv
<1>13. ASSUME NEW error \in Errors, Told!ModelRefused(error) PROVE ReportsInv'
  <2> DEFINE fact == [Fact EXCEPT !.trace = <<legs + 1>>]
             report == [Told!Filled(Told!FromError(error)) EXCEPT !.facts[1].trace = <<legs + 1>>]
  <2>1. report = [error |-> Told!Chain(error), refusal |-> Told!BrokerRefusal(error),
                  facts |-> <<fact>>, of |-> attempt, cause |-> error]
    BY FilledOnce
  <2>2. session # NoAgent BY <1>1, <1>13 DEF Told!ModelRefused, AttemptInv
  <2>3. Tells(fact, attempt)
    <3>1. Tells(Fact, attempt) BY <2>2, FactTells
    <3>2. fact.agent = Fact.agent /\ fact.profile = Fact.profile /\ fact.trace = <<legs + 1>>
      BY DEF Fact
    <3>3. legs + 1 > attempt.since BY <1>1 DEF LegsInv
    <3>4. QED BY <1>3, <3>1, <3>2, <3>3 DEF Tells
  <2> HIDE DEF fact
  <2>4. Truthful(report) BY <2>1, <2>3 DEF Truthful
  <2>5. \A r \in Told!Written' : Truthful(r)
    BY <1>13, <2>4, WrittenAnew DEF Told!ModelRefused
  <2>6. QED BY <1>1, <1>3, <1>13, <2>5 DEF Told!ModelRefused, ReportsInv, LegsInv, AttemptInv
<1>14. ASSUME NEW error \in Errors, Told!TurnDenied(error) PROVE ReportsInv'
  <2>1. session # NoAgent BY <1>1, <1>14 DEF Told!TurnDenied, AttemptInv
  <2>2. Truthful(Told!Filled(Told!FromError(error))) BY <2>1, FilledTruthful
  <2>3. \A r \in Told!Written' : Truthful(r) BY <1>14, <2>2, WrittenAnew DEF Told!TurnDenied
  <2>4. QED BY <1>1, <1>14, <2>3 DEF Told!TurnDenied, ReportsInv, LegsInv, AttemptInv
<1>15. ASSUME NEW error \in Errors, Told!ShellDenied(error) PROVE ReportsInv'
  <2> DEFINE report == Told!Filled(Told!Filled(Told!FromError(error)))
  <2>1. session # NoAgent BY <1>1, <1>15 DEF Told!ShellDenied, AttemptInv
  <2>2. Truthful(report) BY <2>1, FilledTruthful
  <2>3. last' = <<report>> /\ (entry' = <<report>> \/ entry' = entry)
    BY <1>15 DEF Told!ShellDenied, Told!FailShell
  <2> HIDE DEF report
  <2>4. \A r \in Told!Written' : Truthful(r) BY <2>2, <2>3, WrittenAnew
  <2>5. QED
    BY <1>1, <1>15, <2>4 DEF Told!ShellDenied, Told!FailShell, ReportsInv, LegsInv, AttemptInv
<1>16. ASSUME NEW error \in Errors, Told!TurnDies(error) PROVE ReportsInv'
  <2> DEFINE report == Told!Filled(Told!FromError(error))
  <2>1. session # NoAgent BY <1>1, <1>16 DEF Told!TurnDies, Told!Busy, AttemptInv
  <2>2. Truthful(report) BY <2>1, FilledTruthful
  <2>3. last' = <<report>> /\ (entry' = <<report>> \/ entry' = entry)
    BY <1>16 DEF Told!TurnDies, Told!FailShell
  <2> HIDE DEF report
  <2>4. \A r \in Told!Written' : Truthful(r) BY <2>2, <2>3, WrittenAnew
  <2>5. QED
    BY <1>1, <1>16, <2>1, <2>4 DEF Told!TurnDies, Told!FailShell, ReportsInv, LegsInv, AttemptInv
<1>17. CASE UNCHANGED toldVars
  BY <1>1, <1>2, <1>17 DEF toldVars, ReportsInv, LegsInv, AttemptInv
<1>18. QED
  BY <1>5, <1>6, <1>7, <1>8, <1>9, <1>10, <1>11, <1>12, <1>13, <1>14, <1>15, <1>16, <1>17
  DEF Told!Next

(* For every catalog, every error and any number of legs: a report names   *)
(* who attempted what it is about and no leg of anything before it          *)
(* (App::report, clear_agent_context).                                     *)
THEOREM ReportsAreTruthful == Spec => []ReportNamesTheAttempt
<1>1. ReportsInv => ReportNamesTheAttempt
  BY DEF ReportsInv, Truthful, Tells, ReportNamesTheAttempt, Told!ReportNamesTheAttempt
<1>2. QED BY <1>1, ReportsRun, ReportsInit, ReportsStep, PTL

-------------------------------------------------------------------------------
(* What a report tells.  A chain is told link by link: a link that the text *)
(* already ends with is not told twice, and every other one is appended, so *)
(* that each text so far can be read in the text told in the end.          *)

(* What a link of an error tells, and what a broker refused there. *)
Links == [text : Seq(STRING), refusal : Seq(STRING)]

LEMMA ErrorTypes ==
  ASSUME NEW error \in Errors
  PROVE  /\ error \in Seq(Links) /\ Len(error) \in Nat \ {0}
         /\ \A i \in 1 .. Len(error) :
              error[i].text \in Seq(STRING) /\ error[i].refusal \in Seq(STRING)
<1>1. error \in Seq(Links) /\ error # <<>> BY PartsAssumption DEF Links
<1>2. Len(error) \in Nat /\ Len(error) # 0 BY <1>1
<1>3. \A i \in 1 .. Len(error) : error[i] \in Links BY <1>1
<1>4. QED BY <1>1, <1>2, <1>3 DEF Links

(* A text that ends with a part, or was told it, tells it. *)
LEMMA SuffixIsTold ==
  ASSUME NEW t \in Seq(STRING), NEW p \in Seq(STRING), Told!IsSuffix(p, t)
  PROVE  Told!ReadsIn(t, p)
<1> DEFINE back(s) == [i \in 1 .. Len(s) |-> s[(Len(s) - i) + 1]]
           i == Len(t) - Len(p)
<1>1. /\ back(p) \in Seq(STRING) /\ Len(back(p)) = Len(p)
      /\ back(t) \in Seq(STRING) /\ Len(back(t)) = Len(t)
  OBVIOUS
<1>2. Len(p) <= Len(t)
      /\ SubSeq(back(p), 1, Len(p)) = SubSeq(back(t), 1, Len(p))
  BY <1>1 DEF Told!IsSuffix, Told!IsPrefix, Told!Reverse
<1>3. \A k \in 1 .. Len(p) : SubSeq(back(p), 1, Len(p))[k] = back(p)[k]
                          /\ SubSeq(back(t), 1, Len(p))[k] = back(t)[k]
  BY <1>1, <1>2
<1>4. \A k \in 1 .. Len(p) : p[(Len(p) - k) + 1] = t[(Len(t) - k) + 1]
  <2>1. \A k \in 1 .. Len(p) : k \in 1 .. Len(t) BY <1>2
  <2>2. ASSUME NEW k \in 1 .. Len(p) PROVE back(p)[k] = back(t)[k]
    <3>1. back(p)[k] = SubSeq(back(p), 1, Len(p))[k] BY <1>3
    <3>2. back(t)[k] = SubSeq(back(t), 1, Len(p))[k] BY <1>3
    <3> HIDE DEF back
    <3>3. QED BY <3>1, <3>2, <1>2
  <2>3. QED BY <2>1, <2>2
<1>5. i \in 0 .. Len(t) - Len(p) BY <1>2
<1>6. ASSUME NEW m \in 1 .. Len(p) PROVE t[i + m] = p[m]
  <2> DEFINE k == Len(p) - m + 1
  <2>1. k \in 1 .. Len(p) OBVIOUS
  <2>2. p[(Len(p) - k) + 1] = t[(Len(t) - k) + 1] BY <1>4, <2>1
  <2>3. (Len(p) - k) + 1 = m /\ (Len(t) - k) + 1 = i + m OBVIOUS
  <2>4. QED BY <2>2, <2>3
<1>7. SubSeq(t, i + 1, i + Len(p)) = p
  <2>1. /\ SubSeq(t, i + 1, i + Len(p)) \in Seq(STRING)
        /\ Len(SubSeq(t, i + 1, i + Len(p))) = Len(p)
        /\ \A m \in 1 .. Len(p) : SubSeq(t, i + 1, i + Len(p))[m] = t[i + m]
    BY <1>2
  <2>2. QED BY <1>6, <2>1, SeqEqual
<1>8. QED BY <1>5, <1>7 DEF Told!ReadsIn

LEMMA AppendedIsTold ==
  ASSUME NEW t \in Seq(STRING), NEW p \in Seq(STRING)
  PROVE  /\ t \o p \in Seq(STRING) /\ Told!ReadsIn(t \o p, p)
         /\ \A q \in Seq(STRING) : Told!ReadsIn(t, q) => Told!ReadsIn(t \o p, q)
<1> DEFINE u == t \o p
<1>1. /\ u \in Seq(STRING) /\ Len(u) = Len(t) + Len(p)
      /\ \A i \in 1 .. Len(t) : u[i] = t[i]
      /\ \A i \in 1 .. Len(p) : u[Len(t) + i] = p[i]
  OBVIOUS
<1> HIDE DEF u
<1>2. Told!ReadsIn(u, p)
  <2> DEFINE i == Len(t)
  <2>1. /\ SubSeq(u, i + 1, i + Len(p)) \in Seq(STRING)
        /\ Len(SubSeq(u, i + 1, i + Len(p))) = Len(p)
        /\ \A m \in 1 .. Len(p) : SubSeq(u, i + 1, i + Len(p))[m] = u[i + m]
    BY <1>1
  <2>2. SubSeq(u, i + 1, i + Len(p)) = p BY <1>1, <2>1, SeqEqual
  <2>3. i \in 0 .. Len(u) - Len(p) BY <1>1
  <2>4. QED BY <2>2, <2>3 DEF Told!ReadsIn
<1>3. ASSUME NEW q \in Seq(STRING), Told!ReadsIn(t, q) PROVE Told!ReadsIn(u, q)
  <2>1. PICK i \in 0 .. Len(t) - Len(q) : SubSeq(t, i + 1, i + Len(q)) = q
    BY <1>3 DEF Told!ReadsIn
  <2>2. /\ SubSeq(u, i + 1, i + Len(q)) \in Seq(STRING)
        /\ Len(SubSeq(u, i + 1, i + Len(q))) = Len(q)
        /\ \A m \in 1 .. Len(q) : SubSeq(u, i + 1, i + Len(q))[m] = u[i + m]
    BY <1>1, <2>1
  <2>3. \A m \in 1 .. Len(q) : SubSeq(t, i + 1, i + Len(q))[m] = t[i + m] BY <2>1
  <2>4. \A m \in 1 .. Len(q) : i + m \in 1 .. Len(t) BY <2>1
  <2>5. \A m \in 1 .. Len(q) : SubSeq(u, i + 1, i + Len(q))[m] = q[m]
    BY <1>1, <2>1, <2>2, <2>3, <2>4
  <2>6. SubSeq(u, i + 1, i + Len(q)) = q BY <2>2, <2>5, SeqEqual
  <2>7. i \in 0 .. Len(u) - Len(q) BY <1>1, <2>1
  <2>8. QED BY <2>6, <2>7 DEF Told!ReadsIn
<1>4. QED BY <1>1, <1>2, <1>3 DEF u

(* How the chain is told, link by link. *)
Tale(texts, error, n) ==
  texts = [i \in 1 .. n |->
            IF i = 1 THEN error[1].text
            ELSE IF Told!IsSuffix(error[i].text, texts[i - 1]) THEN texts[i - 1]
            ELSE texts[i - 1] \o error[i].text]

LEMMA TaleExists == ASSUME NEW error, NEW n \in Nat PROVE \E texts : Tale(texts, error, n)
<1> DEFINE S == {m \in Nat : \E texts : Tale(texts, error, m)}
<1>1. 0 \in S
  <2>1. Tale(<<>>, error, 0) BY DEF Tale
  <2>2. QED BY <2>1
<1>2. ASSUME NEW m \in Nat, m \in S PROVE m + 1 \in S
  <2>1. PICK f : Tale(f, error, m) BY <1>2
  <2> DEFINE next == IF m = 0 THEN error[1].text
                     ELSE IF Told!IsSuffix(error[m + 1].text, f[m]) THEN f[m]
                     ELSE f[m] \o error[m + 1].text
             g == [i \in 1 .. m + 1 |-> IF i = m + 1 THEN next ELSE f[i]]
  <2>2. ASSUME NEW i \in 1 .. m + 1
        PROVE  g[i] = IF i = 1 THEN error[1].text
                      ELSE IF Told!IsSuffix(error[i].text, g[i - 1]) THEN g[i - 1]
                      ELSE g[i - 1] \o error[i].text
    <3>1. CASE i = m + 1
      <4>1. i # 1 => i - 1 \in 1 .. m /\ i - 1 = m /\ g[i - 1] = f[m] /\ m # 0 BY <3>1
      <4>2. g[i] = next /\ (i = 1 <=> m = 0) BY <3>1
      <4>3. QED BY <3>1, <4>1, <4>2
    <3>2. CASE i # m + 1
      <4>1. i \in 1 .. m /\ g[i] = f[i] BY <3>2
      <4>2. f[i] = IF i = 1 THEN error[1].text
                   ELSE IF Told!IsSuffix(error[i].text, f[i - 1]) THEN f[i - 1]
                   ELSE f[i - 1] \o error[i].text
        BY <2>1, <4>1 DEF Tale
      <4>3. i # 1 => i - 1 \in 1 .. m + 1 /\ g[i - 1] = f[i - 1] BY <4>1
      <4>4. QED BY <4>1, <4>2, <4>3
    <3>3. QED BY <3>1, <3>2
  <2>3. g = [i \in 1 .. m + 1 |-> g[i]] OBVIOUS
  <2> HIDE DEF g
  <2>4. Tale(g, error, m + 1) BY <2>2, <2>3 DEF Tale
  <2>5. QED BY <2>4
<1> HIDE DEF S
<1>3. \A m \in Nat : m \in S BY <1>1, <1>2, NumberInduction
<1>4. QED BY <1>3 DEF S

LEMMA ChainIsTale ==
  ASSUME NEW error, Len(error) \in Nat
  PROVE  \E texts : Tale(texts, error, Len(error)) /\ Told!Chain(error) = texts[Len(error)]
<1> DEFINE texts[i \in 1 .. Len(error)] ==
             IF i = 1 THEN error[1].text
             ELSE IF Told!IsSuffix(error[i].text, texts[i - 1]) THEN texts[i - 1]
             ELSE texts[i - 1] \o error[i].text
<1>1. \E f : Tale(f, error, Len(error)) BY TaleExists
<1>2. Tale(texts, error, Len(error)) BY <1>1 DEF Tale
<1>3. Told!Chain(error) = texts[Len(error)] BY DEF Told!Chain
<1>4. QED BY <1>2, <1>3

LEMMA EveryCauseIsTold ==
  ASSUME NEW error \in Errors, NEW k \in 1 .. Len(error)
  PROVE  Told!ReadsIn(Told!Chain(error), error[k].text)
<1> DEFINE n == Len(error)
<1>1. n \in Nat \ {0} /\ \A i \in 1 .. n : error[i].text \in Seq(STRING) BY ErrorTypes
<1>2. PICK f : Tale(f, error, n) /\ Told!Chain(error) = f[n] BY <1>1, ChainIsTale
<1> HIDE DEF n
<1> DEFINE S == {m \in Nat : 1 <= m /\ m <= n =>
                   /\ f[m] \in Seq(STRING)
                   /\ \A i \in 1 .. m : Told!ReadsIn(f[m], error[i].text)}
<1>3. 0 \in S OBVIOUS
<1>4. ASSUME NEW m \in Nat, m \in S, m + 1 <= n
      PROVE  /\ f[m + 1] \in Seq(STRING)
             /\ \A i \in 1 .. m + 1 : Told!ReadsIn(f[m + 1], error[i].text)
  <2> DEFINE text == error[m + 1].text
  <2>1. m + 1 \in 1 .. n BY <1>1, <1>4
  <2>2. text \in Seq(STRING) BY <1>1, <2>1
  <2>3. f[m + 1] = IF m + 1 = 1 THEN error[1].text
                   ELSE IF Told!IsSuffix(error[m + 1].text, f[(m + 1) - 1]) THEN f[(m + 1) - 1]
                   ELSE f[(m + 1) - 1] \o error[m + 1].text
    BY <1>2, <2>1 DEF Tale
  <2>4. CASE m = 0
    <3>1. f[m + 1] = text BY <2>3, <2>4
    <3>2. Told!IsSuffix(text, text) BY DEF Told!IsSuffix, Told!IsPrefix, Told!Reverse
    <3>3. Told!ReadsIn(text, text) BY <2>2, <3>2, SuffixIsTold
    <3>4. \A i \in 1 .. m + 1 : i = m + 1 BY <2>4
    <3>5. QED BY <2>2, <3>1, <3>3, <3>4
  <2>5. CASE m # 0
    <3>1. f[m] \in Seq(STRING) /\ \A i \in 1 .. m : Told!ReadsIn(f[m], error[i].text)
      <4>1. 1 <= m /\ m <= n BY <1>1, <1>4, <2>5
      <4>2. QED BY <1>4, <4>1
    <3>2. f[m + 1] = IF Told!IsSuffix(text, f[m]) THEN f[m] ELSE f[m] \o text
      BY <2>3, <2>5
    <3>3. \A i \in 1 .. m + 1 : i \in 1 .. m \/ i = m + 1 OBVIOUS
    <3>4. \A i \in 1 .. m : error[i].text \in Seq(STRING) BY <1>1, <2>1
    <3> HIDE DEF text
    <3>5. CASE Told!IsSuffix(text, f[m])
      <4>1. f[m + 1] = f[m] BY <3>2, <3>5
      <4>2. Told!ReadsIn(f[m], text) BY <2>2, <3>1, <3>5, SuffixIsTold
      <4>3. QED BY <3>1, <3>3, <4>1, <4>2 DEF text
    <3>6. CASE ~Told!IsSuffix(text, f[m])
      <4>1. f[m + 1] = f[m] \o text BY <3>2, <3>6
      <4>2. /\ f[m] \o text \in Seq(STRING) /\ Told!ReadsIn(f[m] \o text, text)
            /\ \A i \in 1 .. m : Told!ReadsIn(f[m] \o text, error[i].text)
        BY <2>2, <3>1, <3>4, AppendedIsTold
      <4>3. QED BY <3>3, <4>1, <4>2 DEF text
    <3>7. QED BY <3>5, <3>6
  <2>6. QED BY <2>4, <2>5
<1>5. \A m \in Nat : m \in S => m + 1 \in S BY <1>4
<1> HIDE DEF S
<1>6. n \in S BY <1>1, <1>3, <1>5, NumberInduction
<1>7. \A i \in 1 .. n : Told!ReadsIn(f[n], error[i].text) BY <1>1, <1>6 DEF S
<1>8. QED BY <1>2, <1>7 DEF n

(* The first refusal, and none that is not there. *)
LEMMA RefusalIsVerbatim ==
  ASSUME NEW error \in Errors
  PROVE  IF \A i \in DOMAIN error : error[i].refusal = <<>>
         THEN Told!BrokerRefusal(error) = <<>>
         ELSE \E i \in DOMAIN error :
                Told!BrokerRefusal(error) = error[i].refusal /\ Told!BrokerRefusal(error) # <<>>
<1> DEFINE I == {i \in 1 .. Len(error) : error[i].refusal # <<>>}
<1>1. DOMAIN error = 1 .. Len(error) BY ErrorTypes
<1>2. Told!SelectInSeq(error, LAMBDA link : link.refusal # <<>>) =
        IF I # {} THEN Told!Min(I) ELSE 0
  BY DEF Told!SelectInSeq
<1>3. CASE I = {}
  <2>1. Told!BrokerRefusal(error) = <<>> BY <1>2, <1>3 DEF Told!BrokerRefusal
  <2>2. \A i \in DOMAIN error : error[i].refusal = <<>> BY <1>1, <1>3
  <2>3. QED BY <2>1, <2>2
<1>4. CASE I # {}
  <2>1. I \in SUBSET Nat BY DEF I
  <2> HIDE DEF I
  <2>2. \E x \in I : \A y \in I : x <= y BY <1>4, <2>1, LeastNumber
  <2>3. PICK i : i = Told!Min(I) OBVIOUS
  <2>4. i \in I BY <2>2, <2>3 DEF Told!Min
  <2>5. i \in DOMAIN error /\ error[i].refusal # <<>> /\ i # 0 BY <1>1, <2>4 DEF I
  <2>6. Told!BrokerRefusal(error) = error[i].refusal
    BY <1>2, <1>4, <2>3, <2>5 DEF Told!BrokerRefusal
  <2>7. QED BY <2>5, <2>6
<1>5. QED BY <1>3, <1>4

(* A report that tells all of its error. *)
Tell(report) ==
  /\ report.cause \in Errors
  /\ report.error = Told!Chain(report.cause)
  /\ report.refusal = Told!BrokerRefusal(report.cause)

TellInv == \A report \in Told!Written : Tell(report)

LEMMA TellsAll ==
  ASSUME NEW error \in Errors, NEW facts
  PROVE  Tell([error |-> Told!Chain(error), refusal |-> Told!BrokerRefusal(error),
               facts |-> facts, of |-> attempt, cause |-> error])
BY DEF Tell

LEMMA TellInit == Told!Init => TellInv
BY DEF Told!Init, TellInv, Told!Written, Told!ToSet

LEMMA TellStep == TellInv /\ [Told!Next]_toldVars => TellInv'
<1> SUFFICES ASSUME TellInv, [Told!Next]_toldVars PROVE TellInv' OBVIOUS
<1>1. ASSUME NEW report, Tell(report), last' = <<report>> \/ UNCHANGED last,
             entry' = <<report>> \/ entry' = <<>> \/ UNCHANGED entry
      PROVE  TellInv'
  <2>1. \A r : r \in Told!ToSet(<<report>>) => r = report BY DEF Told!ToSet
  <2>2. Told!ToSet(<<>>) = {} BY DEF Told!ToSet
  <2>3. Told!Written' = Told!ToSet(last') \cup Told!ToSet(entry') BY DEF Told!Written
  <2>4. Told!Written' \subseteq Told!Written \cup {report}
    BY <1>1, <2>1, <2>2, <2>3 DEF Told!Written
  <2>5. \A r \in Told!Written' : Tell(r) BY <1>1, <2>4 DEF TellInv
  <2>6. QED BY <2>5 DEF TellInv, Tell
<1>2. ASSUME last' = last, entry' = <<>> \/ entry' = entry PROVE TellInv'
  <2>1. Told!ToSet(<<>>) = {} BY DEF Told!ToSet
  <2>2. Told!Written' \subseteq Told!Written BY <1>2, <2>1 DEF Told!Written
  <2>3. \A r \in Told!Written' : Tell(r) BY <2>2 DEF TellInv
  <2>4. QED BY <2>3 DEF TellInv, Tell
<1>3. ASSUME NEW agent \in Catalog, Told!MoveSelection(agent) PROVE TellInv'
  BY <1>2, <1>3 DEF Told!MoveSelection
<1>4. CASE Told!Hop \/ Told!HopGranted BY <1>2, <1>4 DEF Told!Hop, Told!HopGranted
<1>5. CASE (\E kind \in {"turn", "shell"} : Told!Submit(kind)) \/ Told!Spawned
        \/ Told!OutcomeReceived \/ Told!TurnEnds
  BY <1>2, <1>5 DEF Told!Submit, Told!Spawned, Told!OutcomeReceived, Told!TurnEnds
<1>6. CASE UNCHANGED toldVars BY <1>2, <1>6 DEF toldVars
<1>7. ASSUME NEW error \in Errors,
             Told!HopDenied(error) \/ Told!ModelRefused(error) \/ Told!TurnDenied(error)
               \/ Told!ShellDenied(error) \/ Told!TurnDies(error)
      PROVE  TellInv'
  <2> DEFINE Report(facts) ==
               [error |-> Told!Chain(error), refusal |-> Told!BrokerRefusal(error),
                facts |-> facts, of |-> attempt, cause |-> error]
             once == Told!Filled(Told!FromError(error))
             twice == Told!Filled(once)
             retold == [once EXCEPT !.facts[1].trace = <<legs + 1>>]
  <2>1. once = Report(<<Fact>>) BY FilledOnce
  <2>2. twice = Report(<<Fact, Fact>>) BY FilledTwice
  <2>3. retold = Report([<<Fact>> EXCEPT ![1].trace = <<legs + 1>>]) BY <2>1
  <2>4. \A facts : Tell(Report(facts)) BY TellsAll
  <2> HIDE DEF Report
  <2>5. Tell(once) /\ Tell(twice) /\ Tell(retold) BY <2>1, <2>2, <2>3, <2>4
  <2>6. CASE Told!HopDenied(error) \/ Told!TurnDenied(error)
    <3>1. last' = <<once>> /\ entry' = entry BY <2>6 DEF Told!HopDenied, Told!TurnDenied
    <3> HIDE DEF once
    <3>2. QED BY <1>1, <2>5, <3>1
  <2>7. CASE Told!ModelRefused(error)
    <3>1. last' = <<retold>> /\ entry' = entry BY <2>7 DEF Told!ModelRefused
    <3> HIDE DEF retold
    <3>2. QED BY <1>1, <2>5, <3>1
  <2>8. CASE Told!ShellDenied(error)
    <3>1. last' = <<twice>> /\ (entry' = <<twice>> \/ entry' = entry)
      BY <2>8 DEF Told!ShellDenied, Told!FailShell
    <3> HIDE DEF twice
    <3>2. QED BY <1>1, <2>5, <3>1
  <2>9. CASE Told!TurnDies(error)
    <3>1. last' = <<once>> /\ (entry' = <<once>> \/ entry' = entry)
      BY <2>9 DEF Told!TurnDies, Told!FailShell
    <3> HIDE DEF once
    <3>2. QED BY <1>1, <2>5, <3>1
  <2>10. QED BY <1>7, <2>6, <2>7, <2>8, <2>9
<1>8. QED BY <1>3, <1>4, <1>5, <1>6, <1>7 DEF Told!Next

(* For every error and however deep: a report leaves out no cause, tells   *)
(* the broker's refusal verbatim, and makes none up (report.rs chain and   *)
(* broker_refusal, App::fail, App::fail_shell).                            *)
THEOREM CausesAreTold == Spec => []NothingUntold
<1>1. TellInv => NothingUntold
  <2> SUFFICES ASSUME TellInv, NEW report \in Told!Written
               PROVE  /\ \A i \in DOMAIN report.cause :
                           Told!ReadsIn(report.error, report.cause[i].text)
                      /\ IF \A i \in DOMAIN report.cause : report.cause[i].refusal = <<>>
                         THEN report.refusal = <<>>
                         ELSE \E i \in DOMAIN report.cause :
                                report.refusal = report.cause[i].refusal
                                  /\ report.refusal # <<>>
    BY DEF NothingUntold, Told!NothingUntold
  <2>1. PICK error \in Errors : error = report.cause BY DEF TellInv, Tell
  <2>2. report.error = Told!Chain(error) /\ report.refusal = Told!BrokerRefusal(error)
    BY <2>1 DEF TellInv, Tell
  <2>3. DOMAIN error = 1 .. Len(error) BY ErrorTypes
  <2>4. \A i \in DOMAIN error : Told!ReadsIn(Told!Chain(error), error[i].text)
    BY <2>3, EveryCauseIsTold
  <2>5. QED BY <2>1, <2>2, <2>4, RefusalIsVerbatim
<1>2. QED BY <1>1, ReportsRun, TellInit, TellStep, PTL

-------------------------------------------------------------------------------
(* Reveals.  What hides a secret is the outermost value on the way to it   *)
(* that is hidden at all: walk stops there.                                *)

(* The way to a place: its first steps. *)
LEMMA FirstSteps ==
  ASSUME NEW spot \in Seq(Nat), NEW i \in 0 .. Len(spot)
  PROVE  /\ SubSeq(spot, 1, i) \in Seq(Nat) /\ Len(SubSeq(spot, 1, i)) = i
         /\ i = Len(spot) => SubSeq(spot, 1, i) = spot
         /\ \A j \in 0 .. i : SubSeq(SubSeq(spot, 1, i), 1, j) = SubSeq(spot, 1, j)
<1> DEFINE up == SubSeq(spot, 1, i)
<1>1. up \in Seq(Nat) /\ Len(up) = i /\ \A k \in 1 .. i : up[k] = spot[k] OBVIOUS
<1> HIDE DEF up
<1>2. ASSUME i = Len(spot) PROVE up = spot BY <1>1, <1>2, SeqEqual
<1>3. ASSUME NEW j \in 0 .. i PROVE SubSeq(up, 1, j) = SubSeq(spot, 1, j)
  <2>1. /\ SubSeq(up, 1, j) \in Seq(Nat) /\ Len(SubSeq(up, 1, j)) = j
        /\ \A k \in 1 .. j : SubSeq(up, 1, j)[k] = up[k]
    BY <1>1
  <2>2. /\ SubSeq(spot, 1, j) \in Seq(Nat) /\ Len(SubSeq(spot, 1, j)) = j
        /\ \A k \in 1 .. j : SubSeq(spot, 1, j)[k] = spot[k]
    OBVIOUS
  <2>3. \A k \in 1 .. j : up[k] = spot[k] BY <1>1
  <2>4. QED BY <2>1, <2>2, <2>3, SeqEqual
<1>4. QED BY <1>1, <1>2, <1>3 DEF up

(* Every secret of a payload lies in what a redaction hides. *)
LEMMA SecretsCovered ==
  ASSUME NEW payload \in Payloads, NEW spot \in Reveals!SecretsOf(payload)
  PROVE  \E r \in Reveals!Redactions(payload) : Reveals!Covers(r, spot)
<1>1. Reveals!IsTree(payload) BY PartsAssumption
<1>2. spot \in DOMAIN payload /\ spot \in Seq(Nat)
  BY <1>1 DEF Reveals!SecretsOf, Reveals!IsTree
<1> DEFINE Way(i) == SubSeq(spot, 1, i)
           Hiding == {i \in 0 .. Len(spot) : Reveals!Hides(payload[Way(i)])}
<1>3. \A i \in 0 .. Len(spot) :
        /\ Way(i) \in DOMAIN payload
        /\ i < Len(spot) => /\ Way(i) \in Reveals!Above(spot)
                            /\ payload[Way(i)].kind \in {"object", "array"}
        /\ i = Len(spot) => Way(i) = spot
  <2>1. SUFFICES ASSUME NEW i \in 0 .. Len(spot)
                 PROVE  /\ Way(i) \in DOMAIN payload
                        /\ i < Len(spot) => /\ Way(i) \in Reveals!Above(spot)
                                          /\ payload[Way(i)].kind \in {"object", "array"}
                        /\ i = Len(spot) => Way(i) = spot
    OBVIOUS
  <2>2. CASE i = Len(spot)
    <3>1. Way(i) = spot BY <1>2, <2>2, FirstSteps
    <3>2. ~(i < Len(spot)) BY <1>2, <2>2
    <3>3. QED BY <1>2, <3>1, <3>2
  <2>3. CASE i < Len(spot)
    <3>1. i \in 0 .. Len(spot) - 1 BY <1>2, <2>3
    <3>2. Way(i) \in Reveals!Above(spot) BY <3>1 DEF Reveals!Above
    <3>3. QED BY <1>1, <1>2, <2>3, <3>2 DEF Reveals!IsTree
  <2>4. QED BY <1>2, <2>2, <2>3
<1>4. Hiding # {}
  <2>1. Len(spot) \in 0 .. Len(spot) /\ payload[spot].kind # "null"
    BY <1>2 DEF Reveals!SecretsOf
  <2>2. CASE payload[spot].looks \/ payload[spot].secret
    <3>1. payload[spot].looks => payload[spot].kind = "text" BY <1>1, <1>2 DEF Reveals!IsTree
    <3>2. Reveals!Hides(payload[spot]) BY <2>1, <2>2, <3>1 DEF Reveals!Hides
    <3>3. Way(Len(spot)) = spot BY <1>3, <2>1
    <3>4. QED BY <2>1, <3>2, <3>3
  <2>3. CASE \E up \in Reveals!Above(spot) : payload[up].secret
    <3>1. PICK i \in 0 .. Len(spot) - 1 : payload[Way(i)].secret BY <2>3 DEF Reveals!Above
    <3>2. i \in 0 .. Len(spot) /\ i < Len(spot) BY <1>2, <3>1
    <3>3. payload[Way(i)].kind \in {"object", "array"} BY <1>3, <3>2
    <3>4. Reveals!Hides(payload[Way(i)]) BY <3>1, <3>3 DEF Reveals!Hides
    <3>5. QED BY <3>2, <3>4
  <2>4. QED BY <2>2, <2>3 DEF Reveals!SecretsOf
<1>5. PICK i \in Hiding : \A j \in Hiding : i <= j
  <2>1. Hiding \in SUBSET Nat OBVIOUS
  <2> HIDE DEF Hiding
  <2>2. QED BY <1>4, <2>1, LeastNumber
<1>6. i \in 0 .. Len(spot) /\ Reveals!Hides(payload[Way(i)]) BY <1>5
<1>7. ASSUME NEW up \in Reveals!Above(Way(i)) PROVE ~Reveals!Hides(payload[up])
  <2>1. Len(Way(i)) = i BY <1>2, <1>6, FirstSteps
  <2>2. PICK j \in 0 .. i - 1 : up = SubSeq(Way(i), 1, j) BY <2>1 DEF Reveals!Above
  <2>3. j \in 0 .. i /\ j \in 0 .. Len(spot) /\ ~(i <= j) BY <1>2, <1>6, <2>2
  <2>4. up = Way(j) BY <1>2, <1>6, <2>2, <2>3, FirstSteps
  <2>5. j \notin Hiding BY <1>5, <2>3
  <2>6. QED BY <2>3, <2>4, <2>5
<1> DEFINE r == [path |-> Reveals!PathOf(payload, Way(i)), at |-> Way(i)]
<1>8. r \in Reveals!Redactions(payload) BY <1>3, <1>6, <1>7 DEF Reveals!Redactions
<1>9. Reveals!Covers(r, spot)
  <2>1. i < Len(spot) \/ i = Len(spot) BY <1>2, <1>6
  <2>2. QED BY <1>3, <1>6, <2>1 DEF Reveals!Covers
<1>10. QED BY <1>8, <1>9

(* What is revealed belongs to the calls of the conversation, so that a     *)
(* call that arrives finds nothing of itself revealed.                     *)
RevealsInv ==
  /\ calls \in Seq(Payloads)
  /\ \E S : revealed \in Seq(S)
  /\ entered => \A i \in DOMAIN revealed : revealed[i].call \in DOMAIN calls
  /\ ~entered => calls = <<>>

LEMMA RevealsInit == Reveals!Init => RevealsInv
BY DEF Reveals!Init, RevealsInv

(* One field more is revealed, of a call under the cursor. *)
LEMMA OneMore ==
  ASSUME RevealsInv, NEW field, revealed' = Append(revealed, field)
  PROVE  /\ \E S : revealed' \in Seq(S)
         /\ Len(revealed') = Len(revealed) + 1 /\ Len(revealed) \in Nat
         /\ \A i \in DOMAIN revealed' :
              \/ i \in DOMAIN revealed /\ revealed'[i] = revealed[i]
              \/ revealed'[i] = field
         /\ \A i \in DOMAIN revealed : i \in DOMAIN revealed' /\ revealed'[i] = revealed[i]
<1>1. PICK S : revealed \in Seq(S) BY DEF RevealsInv
<1>2. revealed \in Seq(S \cup {field}) BY <1>1, SeqMonotonic
<1>3. revealed' \in Seq(S \cup {field}) BY <1>2
<1>4. QED BY <1>2, <1>3

LEMMA RevealsStep == RevealsInv /\ [Reveals!Next]_revealsVars => RevealsInv'
<1> SUFFICES ASSUME RevealsInv, [Reveals!Next]_revealsVars PROVE RevealsInv' OBVIOUS
<1>1. CASE Reveals!Enter
  <2>1. revealed' = <<>> /\ calls' = <<>> /\ entered' BY <1>1 DEF Reveals!Enter
  <2>2. revealed' \in Seq({}) BY <2>1
  <2>3. QED BY <2>1, <2>2 DEF RevealsInv
<1>2. CASE Reveals!EntryDenied BY <1>2 DEF Reveals!EntryDenied, RevealsInv
<1>3. ASSUME NEW payload \in Payloads, Reveals!CallReturns(payload) PROVE RevealsInv'
  <2>1. calls' = Append(calls, payload) /\ revealed' = revealed /\ entered /\ entered'
    BY <1>3 DEF Reveals!CallReturns
  <2>2. calls' \in Seq(Payloads) /\ DOMAIN calls \subseteq DOMAIN calls'
    BY <2>1 DEF RevealsInv
  <2>3. QED BY <2>1, <2>2 DEF RevealsInv
<1>4. CASE (\E n \in 1 .. MaxCalls : Reveals!MoveCursor(n)) \/ Reveals!ToggleCursorCall
  BY <1>4 DEF Reveals!MoveCursor, Reveals!ToggleCursorCall, RevealsInv
<1>5. CASE Reveals!RevealNext
  <2>1. PICK call \in DOMAIN calls :
          revealed' = Append(revealed, [call |-> call,
                                        path |-> Reveals!FirstOf(Reveals!Hidden(call)).path])
    BY <1>5 DEF Reveals!RevealNext, Reveals!CursorCall
  <2>2. calls' = calls /\ entered' = entered BY <1>5 DEF Reveals!RevealNext
  <2> DEFINE field == [call |-> call, path |-> Reveals!FirstOf(Reveals!Hidden(call)).path]
  <2>3. field.call = call OBVIOUS
  <2>4. revealed' = Append(revealed, field) BY <2>1
  <2> HIDE DEF field
  <2>5. QED BY <2>2, <2>3, <2>4, OneMore DEF RevealsInv
<1>6. CASE UNCHANGED revealsVars BY <1>6 DEF revealsVars, RevealsInv
<1>7. QED BY <1>1, <1>2, <1>3, <1>4, <1>5, <1>6 DEF Reveals!Next

LEMMA RevealsInvariant == Spec => []RevealsInv
BY RevealsRun, RevealsInit, RevealsStep, PTL

(* The secrets that can be read, one by one, before a step and after it. *)
LEMMA ReadBefore ==
  ASSUME NEW s
  PROVE  s \in Reveals!Exposed <=>
           \E c \in DOMAIN calls : \E spot \in Reveals!SecretsOf(calls[c]) :
             /\ s = [call |-> c, at |-> spot]
             /\ \A r \in Reveals!Redactions(calls[c]) :
                  Reveals!Covers(r, spot) => Reveals!IsRevealed(c, r.path)
BY DEF Reveals!Exposed

LEMMA ReadAfter ==
  ASSUME NEW s
  PROVE  s \in Reveals!Exposed' <=>
           \E c \in DOMAIN calls' : \E spot \in Reveals!SecretsOf(calls'[c]) :
             /\ s = [call |-> c, at |-> spot]
             /\ \A r \in Reveals!Redactions(calls'[c]) :
                  Reveals!Covers(r, spot) => Reveals!IsRevealed(c, r.path)'
BY DEF Reveals!Exposed

(* What a step reveals nothing of and keeps the calls of, it uncovers       *)
(* nothing of.                                                             *)
LEMMA NothingUncovered ==
  ASSUME UNCHANGED <<calls, revealed>>
  PROVE  Reveals!Exposed' = Reveals!Exposed
BY DEF Reveals!Exposed, Reveals!IsRevealed

(* A call arrives with all its secrets covered: nothing is revealed of a    *)
(* call that was not there.                                                *)
LEMMA ArrivesCovered ==
  ASSUME RevealsInv, NEW payload \in Payloads, Reveals!CallReturns(payload)
  PROVE  Reveals!Exposed' \subseteq Reveals!Exposed
<1> SUFFICES ASSUME NEW s \in Reveals!Exposed' PROVE s \in Reveals!Exposed OBVIOUS
<1>1. calls' = Append(calls, payload) /\ revealed' = revealed /\ entered
  BY DEF Reveals!CallReturns
<1>2. calls \in Seq(Payloads) /\ \A i \in DOMAIN revealed : revealed[i].call \in DOMAIN calls
  BY <1>1 DEF RevealsInv
<1>3. PICK c \in DOMAIN calls' : \E spot \in Reveals!SecretsOf(calls'[c]) :
        /\ s = [call |-> c, at |-> spot]
        /\ \A r \in Reveals!Redactions(calls'[c]) :
             Reveals!Covers(r, spot) => Reveals!IsRevealed(c, r.path)'
  BY ReadAfter
<1>4. \A p : Reveals!IsRevealed(c, p)' <=> Reveals!IsRevealed(c, p)
  BY <1>1 DEF Reveals!IsRevealed
<1>5. PICK spot \in Reveals!SecretsOf(calls'[c]) :
        /\ s = [call |-> c, at |-> spot]
        /\ \A r \in Reveals!Redactions(calls'[c]) :
             Reveals!Covers(r, spot) => Reveals!IsRevealed(c, r.path)
  BY <1>3, <1>4
<1>6. \/ c \in DOMAIN calls /\ calls'[c] = calls[c]
      \/ c = Len(calls) + 1 /\ calls'[c] = payload
  <2>1. DOMAIN calls = 1 .. Len(calls) /\ DOMAIN calls' = 1 .. Len(calls) + 1 BY <1>1, <1>2
  <2>2. \A k \in 1 .. Len(calls) : calls'[k] = calls[k] BY <1>1, <1>2
  <2>3. calls'[Len(calls) + 1] = payload BY <1>1, <1>2
  <2>4. Len(calls) \in Nat BY <1>2
  <2>5. c \in 1 .. Len(calls) \/ c = Len(calls) + 1 BY <2>1, <2>4
  <2>6. QED BY <2>1, <2>2, <2>3, <2>5
<1>7. CASE c \in DOMAIN calls /\ calls'[c] = calls[c] BY <1>5, <1>7, ReadBefore
<1>8. CASE c = Len(calls) + 1 /\ calls'[c] = payload
  <2>1. PICK r \in Reveals!Redactions(payload) : Reveals!Covers(r, spot)
    BY <1>5, <1>8, SecretsCovered
  <2>2. Reveals!IsRevealed(c, r.path) BY <1>5, <1>8, <2>1
  <2>3. PICK i \in DOMAIN revealed : revealed[i].call = c BY <2>2 DEF Reveals!IsRevealed
  <2>4. c \notin DOMAIN calls BY <1>2, <1>8
  <2>5. QED BY <1>2, <2>3, <2>4
<1>9. QED BY <1>6, <1>7, <1>8

(* What a keystroke uncovers is in the call under the cursor. *)
LEMMA UncoversUnderCursor ==
  ASSUME RevealsInv, Reveals!RevealNext, NEW s \in Reveals!Exposed' \ Reveals!Exposed
  PROVE  s.call \in Reveals!CursorCall /\ revealed' # revealed
<1>1. PICK call \in Reveals!CursorCall :
        revealed' = Append(revealed, [call |-> call,
                                      path |-> Reveals!FirstOf(Reveals!Hidden(call)).path])
  BY DEF Reveals!RevealNext
<1> DEFINE field == [call |-> call, path |-> Reveals!FirstOf(Reveals!Hidden(call)).path]
<1>2. revealed' = Append(revealed, field) /\ field.call = call BY <1>1
<1> HIDE DEF field
<1>3. /\ Len(revealed') = Len(revealed) + 1 /\ Len(revealed) \in Nat
      /\ \A i \in DOMAIN revealed' :
           (i \in DOMAIN revealed /\ revealed'[i] = revealed[i]) \/ revealed'[i] = field
  BY <1>2, OneMore
<1>4. calls' = calls BY DEF Reveals!RevealNext
<1>5. PICK c \in DOMAIN calls : \E spot \in Reveals!SecretsOf(calls[c]) :
        /\ s = [call |-> c, at |-> spot]
        /\ \A r \in Reveals!Redactions(calls[c]) :
             Reveals!Covers(r, spot) => Reveals!IsRevealed(c, r.path)'
  BY <1>4, ReadAfter
<1>6. ASSUME c # call PROVE FALSE
  <2>1. ASSUME NEW p, Reveals!IsRevealed(c, p)' PROVE Reveals!IsRevealed(c, p)
    <3>1. PICK i \in DOMAIN revealed' : revealed'[i] = [call |-> c, path |-> p]
      BY <2>1 DEF Reveals!IsRevealed
    <3>2. revealed'[i] # field BY <1>2, <1>6, <3>1
    <3>3. i \in DOMAIN revealed /\ revealed[i] = [call |-> c, path |-> p] BY <1>3, <3>1, <3>2
    <3>4. QED BY <3>3 DEF Reveals!IsRevealed
  <2>2. s \in Reveals!Exposed BY <1>5, <2>1, ReadBefore
  <2>3. QED BY <2>2
<1>7. s.call = call BY <1>5, <1>6
<1>8. QED BY <1>1, <1>3, <1>7

(* For every payload and any number of calls: a secret becomes readable    *)
(* only by a keystroke against the call it is in (redact.rs walk,          *)
(* App::reveal_next, App::enter).                                          *)
THEOREM SecretsCoveredUntilRevealed == Spec => SecretsStayCovered
<1> DEFINE Stays ==
      \A s \in Reveals!Exposed' \ Reveals!Exposed :
        s.call \in Reveals!CursorCall /\ calls' = calls /\ revealed' # revealed
<1>1. RevealsInv /\ [Reveals!Next]_revealsVars => [Stays]_(Reveals!vars)
  <2> SUFFICES ASSUME RevealsInv, [Reveals!Next]_revealsVars
               PROVE  UNCHANGED Reveals!vars \/ Stays
    OBVIOUS
  <2>1. CASE Reveals!Enter \/ Reveals!EntryDenied
    <3>1. calls' = <<>> BY <2>1 DEF Reveals!Enter, Reveals!EntryDenied
    <3>2. DOMAIN calls' = {} BY <3>1
    <3>3. Reveals!Exposed' = {} BY <3>2, ReadAfter
    <3>4. QED BY <3>3
  <2>2. ASSUME NEW payload \in Payloads, Reveals!CallReturns(payload) PROVE Stays
    BY <2>2, ArrivesCovered
  <2>3. CASE (\E n \in 1 .. MaxCalls : Reveals!MoveCursor(n)) \/ Reveals!ToggleCursorCall
    BY <2>3, NothingUncovered DEF Reveals!MoveCursor, Reveals!ToggleCursorCall
  <2>4. CASE Reveals!RevealNext
    BY <2>4, UncoversUnderCursor DEF Reveals!RevealNext
  <2>5. CASE UNCHANGED revealsVars BY <2>5 DEF revealsVars, Reveals!vars
  <2>6. QED BY <2>1, <2>2, <2>3, <2>4, <2>5 DEF Reveals!Next
<1>2. (Spec => [][Stays]_(Reveals!vars)) => (Spec => SecretsStayCovered)
  BY DEF SecretsStayCovered, Reveals!SecretsStayCovered
<1> HIDE DEF Stays
<1>3. QED BY <1>1, <1>2, RevealsInvariant, RevealsRun, PTL

-------------------------------------------------------------------------------
(* The field a keystroke is against is the first in document order, which   *)
(* there is: a payload is finite, of two redactions neither lies in the     *)
(* other, and of two such places one comes before the other.               *)

(* As many first steps of two places as given are the same. *)
Agree(a, b, n) == \A k \in 1 .. n : a[k] = b[k]

LEMMA AgreeTransitive ==
  ASSUME NEW a, NEW b, NEW c, NEW m \in Int, NEW n \in Int, NEW k \in Int,
         k <= m, k <= n, Agree(a, b, m), Agree(b, c, n)
  PROVE  Agree(a, c, k)
<1>1. \A i \in 1 .. k : i \in 1 .. m /\ i \in 1 .. n OBVIOUS
<1>2. QED BY <1>1 DEF Agree

LEMMA Beginning ==
  ASSUME NEW s \in Seq(Nat), NEW n \in Nat, n <= Len(s)
  PROVE  /\ SubSeq(s, 1, n) \in Seq(Nat) /\ Len(SubSeq(s, 1, n)) = n
         /\ \A k \in 1 .. n : SubSeq(s, 1, n)[k] = s[k]
<1>1. \A k \in 1 .. n : s[k] \in Nat OBVIOUS
<1>2. /\ SubSeq(s, 1, n) \in Seq(Nat)
      /\ Len(SubSeq(s, 1, n)) = IF 1 <= n THEN n - 1 + 1 ELSE 0
      /\ \A k \in 1 .. n - 1 + 1 : SubSeq(s, 1, n)[k] = s[1 + k - 1]
  BY <1>1, SubSeqProperties
<1>3. \A k \in 1 .. n : k \in 1 .. n - 1 + 1 /\ 1 + k - 1 = k OBVIOUS
<1>4. QED BY <1>2, <1>3

(* Document order, step by step. *)
LEMMA BeforeInSteps ==
  ASSUME NEW a \in Seq(Nat), NEW b \in Seq(Nat)
  PROVE  Reveals!Before(a, b) <=>
           \E i \in 1 .. Len(a) : i <= Len(b) /\ a[i] < b[i] /\ Agree(a, b, i - 1)
<1>1. ASSUME NEW i \in 1 .. Len(a), i <= Len(b)
      PROVE  SubSeq(a, 1, i - 1) = SubSeq(b, 1, i - 1) <=> Agree(a, b, i - 1)
  <2> i - 1 \in Nat /\ i - 1 <= Len(a) /\ i - 1 <= Len(b) BY <1>1
  <2>1. /\ SubSeq(a, 1, i - 1) \in Seq(Nat) /\ Len(SubSeq(a, 1, i - 1)) = i - 1
        /\ \A k \in 1 .. i - 1 : SubSeq(a, 1, i - 1)[k] = a[k]
    BY Beginning
  <2>2. /\ SubSeq(b, 1, i - 1) \in Seq(Nat) /\ Len(SubSeq(b, 1, i - 1)) = i - 1
        /\ \A k \in 1 .. i - 1 : SubSeq(b, 1, i - 1)[k] = b[k]
    BY Beginning
  <2>3. Agree(a, b, i - 1) => SubSeq(a, 1, i - 1) = SubSeq(b, 1, i - 1)
    BY <2>1, <2>2, SeqEqual DEF Agree
  <2>4. QED BY <2>1, <2>2, <2>3 DEF Agree
<1>2. \A i : i \in DOMAIN a \cap DOMAIN b <=> i \in 1 .. Len(a) /\ i <= Len(b) OBVIOUS
<1>3. QED BY <1>1, <1>2 DEF Reveals!Before

LEMMA BeforeTransitive ==
  ASSUME NEW a \in Seq(Nat), NEW b \in Seq(Nat), NEW c \in Seq(Nat),
         Reveals!Before(a, b), Reveals!Before(b, c)
  PROVE  Reveals!Before(a, c)
<1>1. PICK i \in 1 .. Len(a) : i <= Len(b) /\ a[i] < b[i] /\ Agree(a, b, i - 1)
  BY BeforeInSteps
<1>2. PICK j \in 1 .. Len(b) : j <= Len(c) /\ b[j] < c[j] /\ Agree(b, c, j - 1)
  BY BeforeInSteps
<1>3. CASE i < j
  <2>1. i \in 1 .. j - 1 BY <1>1, <1>2, <1>3
  <2>2. b[i] = c[i] BY <1>2, <2>1 DEF Agree
  <2>3. Agree(a, c, i - 1) BY <1>1, <1>2, <1>3, AgreeTransitive
  <2>4. i <= Len(c) /\ a[i] < c[i] BY <1>1, <1>2, <2>1, <2>2
  <2>5. QED BY <1>1, <2>3, <2>4, BeforeInSteps
<1>4. CASE j < i
  <2>1. j \in 1 .. i - 1 /\ j \in 1 .. Len(a) BY <1>1, <1>2, <1>4
  <2>2. a[j] = b[j] BY <1>1, <2>1 DEF Agree
  <2>3. Agree(a, c, j - 1) BY <1>1, <1>2, <1>4, AgreeTransitive
  <2>4. j <= Len(c) /\ a[j] < c[j] BY <1>2, <2>2
  <2>5. QED BY <2>1, <2>3, <2>4, BeforeInSteps
<1>5. CASE i = j
  <2>1. Agree(a, c, i - 1) BY <1>1, <1>2, <1>5, AgreeTransitive
  <2>2. i <= Len(c) /\ a[i] < c[i]
    <3>1. a[i] \in Nat /\ b[i] \in Nat BY <1>1
    <3>2. c[i] \in Nat BY <1>1, <1>2, <1>5
    <3>3. a[i] < b[i] /\ b[i] < c[i] BY <1>1, <1>2, <1>5
    <3>4. i <= Len(c) BY <1>2, <1>5
    <3>5. a[i] < c[i] BY <3>1, <3>2, <3>3
    <3>6. QED BY <3>4, <3>5
  <2>3. QED BY <1>1, <2>1, <2>2, BeforeInSteps
<1>6. i \in Int /\ j \in Int BY <1>1, <1>2
<1>7. QED BY <1>3, <1>4, <1>5, <1>6

LEMMA BeforeIrreflexive ==
  ASSUME NEW a \in Seq(Nat), Reveals!Before(a, a)
  PROVE  FALSE
<1>1. PICK i \in 1 .. Len(a) : a[i] < a[i] BY BeforeInSteps
<1>2. a[i] \in Nat BY <1>1
<1>3. QED BY <1>1, <1>2

(* Of two places of which neither lies in the other, one comes first. *)
LEMMA BeforeTotal ==
  ASSUME NEW a \in Seq(Nat), NEW b \in Seq(Nat), a # b,
         a \notin Reveals!Above(b), b \notin Reveals!Above(a)
  PROVE  Reveals!Before(a, b) \/ Reveals!Before(b, a)
<1> DEFINE D == {i \in 1 .. Len(a) : i <= Len(b) /\ a[i] # b[i]}
<1>1. ASSUME NEW x \in Seq(Nat), NEW y \in Seq(Nat), Len(x) <= Len(y), Agree(x, y, Len(x))
      PROVE  x = y \/ x \in Reveals!Above(y)
  <2>1. SubSeq(y, 1, Len(x)) \in Seq(Nat) /\ Len(SubSeq(y, 1, Len(x))) = Len(x)
        /\ \A k \in 1 .. Len(x) : SubSeq(y, 1, Len(x))[k] = y[k]
    BY <1>1, Beginning
  <2>2. SubSeq(y, 1, Len(x)) = x BY <1>1, <2>1, SeqEqual DEF Agree
  <2>3. CASE Len(x) = Len(y)
    <3>1. x = y BY <1>1, <2>3, SeqEqual DEF Agree
    <3>2. QED BY <3>1
  <2>4. CASE Len(x) < Len(y)
    <3>1. Len(x) \in 0 .. Len(y) - 1 BY <2>4
    <3>2. QED BY <2>2, <3>1 DEF Reveals!Above
  <2>5. QED BY <1>1, <2>3, <2>4
<1>2. D # {}
  <2> SUFFICES ASSUME D = {} PROVE FALSE OBVIOUS
  <2>1. \A i \in 1 .. Len(a) : i <= Len(b) => a[i] = b[i] OBVIOUS
  <2>2. CASE Len(a) <= Len(b)
    <3>1. Agree(a, b, Len(a)) BY <2>1, <2>2 DEF Agree
    <3>2. QED BY <1>1, <2>2, <3>1
  <2>3. CASE Len(b) <= Len(a)
    <3>1. Agree(b, a, Len(b)) BY <2>1, <2>3 DEF Agree
    <3>2. QED BY <1>1, <2>3, <3>1
  <2>4. QED BY <2>2, <2>3
<1>3. D \in SUBSET Nat OBVIOUS
<1>4. PICK i \in D : \A j \in D : i <= j
  <2> HIDE DEF D
  <2>1. QED BY <1>2, <1>3, LeastNumber
<1>5. i \in 1 .. Len(a) /\ i <= Len(b) /\ a[i] # b[i] BY <1>4
<1>6. ASSUME NEW k \in 1 .. i - 1 PROVE a[k] = b[k]
  <2>1. k \in 1 .. Len(a) /\ k <= Len(b) /\ ~(i <= k) BY <1>5
  <2>2. k \notin D BY <1>4, <2>1
  <2>3. QED BY <2>1, <2>2
<1> HIDE DEF D
<1>7. Agree(a, b, i - 1) /\ Agree(b, a, i - 1) BY <1>6 DEF Agree
<1>8. a[i] \in Nat /\ b[i] \in Nat BY <1>5
<1>9. a[i] < b[i] \/ b[i] < a[i] BY <1>5, <1>8
<1>10. i \in 1 .. Len(b) /\ i <= Len(a) BY <1>5
<1>11. QED BY <1>5, <1>7, <1>9, <1>10, BeforeInSteps

(* Of those that the fewest fields come before, none comes before. *)
LEMMA FirstExists ==
  ASSUME NEW payload \in Payloads, NEW fields \in SUBSET Reveals!Redactions(payload),
         fields # {}
  PROVE  \E r \in fields : \A s \in fields \ {r} : Reveals!Before(r.at, s.at)
<1> DEFINE R == Reveals!Redactions(payload)
           Under(r) == {s \in fields : Reveals!Before(s.at, r.at)}
<1>1. Reveals!IsTree(payload) /\ IsFiniteSet(DOMAIN payload) BY PartsAssumption
<1>2. \A r \in R : /\ r = [path |-> Reveals!PathOf(payload, r.at), at |-> r.at]
                   /\ r.at \in DOMAIN payload /\ r.at \in Seq(Nat)
                   /\ Reveals!Hides(payload[r.at])
                   /\ \A up \in Reveals!Above(r.at) : ~Reveals!Hides(payload[up])
  BY <1>1 DEF Reveals!Redactions, Reveals!IsTree
<1>3. \A r, s \in R : r # s => \/ Reveals!Before(r.at, s.at)
                               \/ Reveals!Before(s.at, r.at)
  <2> SUFFICES ASSUME NEW r \in R, NEW s \in R, r # s
               PROVE  Reveals!Before(r.at, s.at) \/ Reveals!Before(s.at, r.at)
    OBVIOUS
  <2>1. r.at # s.at BY <1>2
  <2>2. r.at \notin Reveals!Above(s.at) /\ s.at \notin Reveals!Above(r.at) BY <1>2
  <2>3. r.at \in Seq(Nat) /\ s.at \in Seq(Nat) BY <1>2
  <2>4. QED BY <2>1, <2>2, <2>3, BeforeTotal
<1>4. IsFiniteSet(fields)
  <2>1. \A r, s \in fields : r.at = s.at => r = s BY <1>2
  <2>2. \A r \in fields : r.at \in DOMAIN payload BY <1>2
  <2> DEFINE f == [r \in fields |-> r.at]
  <2>3. f \in Injection(fields, DOMAIN payload)
    BY <2>1, <2>2 DEF Injection, IsInjective
  <2>4. QED BY <1>1, <2>3, FS_Injection
<1>5. \A r \in fields : /\ Under(r) \in SUBSET fields
                        /\ IsFiniteSet(Under(r)) /\ Cardinality(Under(r)) \in Nat
  <2>1. \A r \in fields : Under(r) \in SUBSET fields OBVIOUS
  <2> HIDE DEF Under
  <2>2. \A r \in fields : IsFiniteSet(Under(r)) BY <1>4, <2>1, FS_Subset
  <2>3. QED BY <2>1, <2>2, FS_CardinalityType
<1> DEFINE N == {Cardinality(Under(r)) : r \in fields}
<1>6. N \in SUBSET Nat /\ N # {} BY <1>5
<1>7. PICK n \in N : \A m \in N : n <= m
  <2> HIDE DEF N
  <2>1. QED BY <1>6, LeastNumber
<1>8. PICK r \in fields : n = Cardinality(Under(r)) BY <1>7
<1>9. ASSUME NEW s \in fields, Reveals!Before(s.at, r.at) PROVE FALSE
  <2>1. r.at \in Seq(Nat) /\ s.at \in Seq(Nat) BY <1>2
  <2>2. \A x \in fields : x.at \in Seq(Nat) BY <1>2
  <2>3. Under(s) \subseteq Under(r) BY <1>9, <2>1, <2>2, BeforeTransitive
  <2>4. s \in Under(r) /\ s \notin Under(s) BY <1>9, <2>1, BeforeIrreflexive
  <2>5. n <= Cardinality(Under(s)) BY <1>7
  <2> HIDE DEF Under
  <2>6. Cardinality(Under(s)) <= Cardinality(Under(r)) BY <1>5, <2>3, FS_Subset
  <2>7. Cardinality(Under(r)) # Cardinality(Under(s)) BY <1>5, <2>3, <2>4, FS_Subset
  <2>8. QED BY <1>5, <1>8, <2>5, <2>6, <2>7
<1>10. \A s \in fields \ {r} : Reveals!Before(r.at, s.at) BY <1>3, <1>8, <1>9
<1>11. QED BY <1>8, <1>10

(* FirstOf is defined where some field is hidden. *)
LEMMA FirstIsOne ==
  ASSUME NEW payload \in Payloads, NEW fields \in SUBSET Reveals!Redactions(payload),
         fields # {}
  PROVE  Reveals!FirstOf(fields) \in fields
<1>1. \E r \in fields : \A s \in fields \ {r} : Reveals!Before(r.at, s.at) BY FirstExists
<1>2. QED BY <1>1 DEF Reveals!FirstOf

(* What is still hidden in a call is what is not uncovered. *)
LEMMA HiddenIsCovered ==
  ASSUME RevealsInv, NEW call \in DOMAIN calls
  PROVE  Reveals!Hidden(call) = Reveals!StillCovered(call)
<1> SUFFICES ASSUME NEW r \in Reveals!Redactions(calls[call])
             PROVE  Reveals!IsRevealed(call, r.path) <=>
                      [call |-> call, at |-> r.at] \in Reveals!Uncovered
  BY DEF Reveals!Hidden, Reveals!StillCovered
<1>1. ASSUME Reveals!IsRevealed(call, r.path)
      PROVE  [call |-> call, at |-> r.at] \in Reveals!Uncovered
  BY <1>1 DEF Reveals!Uncovered
<1>2. ASSUME [call |-> call, at |-> r.at] \in Reveals!Uncovered
      PROVE  Reveals!IsRevealed(call, r.path)
  <2>1. PICK c \in DOMAIN calls : \E x \in Reveals!Redactions(calls[c]) :
          /\ Reveals!IsRevealed(c, x.path)
          /\ [call |-> call, at |-> r.at] = [call |-> c, at |-> x.at]
    BY <1>2 DEF Reveals!Uncovered
  <2>2. PICK x \in Reveals!Redactions(calls[c]) :
          /\ Reveals!IsRevealed(c, x.path)
          /\ [call |-> call, at |-> r.at] = [call |-> c, at |-> x.at]
    BY <2>1
  <2>3. c = call /\ x.at = r.at BY <2>2
  <2>4. x.path = r.path BY <2>2, <2>3 DEF Reveals!Redactions
  <2>5. QED BY <2>2, <2>3, <2>4
<1>3. QED BY <1>1, <1>2

(* One path more, and the fields at it. *)
LEMMA OneMoreUncovered ==
  ASSUME RevealsInv, Reveals!RevealNext, NEW call \in Reveals!CursorCall,
         NEW first \in Reveals!Hidden(call),
         revealed' = Append(revealed, [call |-> call, path |-> first.path])
  PROVE  Reveals!Uncovered' = Reveals!Uncovered \cup Reveals!AtThePathOf(call, first)
<1> DEFINE field == [call |-> call, path |-> first.path]
<1>1. /\ \A i \in DOMAIN revealed' :
           (i \in DOMAIN revealed /\ revealed'[i] = revealed[i]) \/ revealed'[i] = field
      /\ \A i \in DOMAIN revealed : i \in DOMAIN revealed' /\ revealed'[i] = revealed[i]
      /\ Len(revealed') = Len(revealed) + 1 /\ Len(revealed) \in Nat
  <2> HIDE DEF field
  <2>1. revealed' = Append(revealed, field) BY DEF field
  <2>2. QED BY <2>1, OneMore
<1>2. Len(revealed') \in DOMAIN revealed' /\ revealed'[Len(revealed')] = field
  <2>1. PICK S : revealed \in Seq(S) BY DEF RevealsInv
  <2>2. revealed \in Seq(S \cup {field}) BY <2>1, SeqMonotonic
  <2> HIDE DEF field
  <2>3. revealed' = Append(revealed, field) BY DEF field
  <2>4. QED BY <2>2, <2>3
<1>3. ASSUME NEW c, NEW p
      PROVE  Reveals!IsRevealed(c, p)' <=>
               Reveals!IsRevealed(c, p) \/ [call |-> c, path |-> p] = field
  <2> DEFINE asked == [call |-> c, path |-> p]
  <2>1. Reveals!IsRevealed(c, p)' <=> \E i \in DOMAIN revealed' : revealed'[i] = asked
    BY DEF Reveals!IsRevealed
  <2>2. Reveals!IsRevealed(c, p) <=> \E i \in DOMAIN revealed : revealed[i] = asked
    BY DEF Reveals!IsRevealed
  <2> HIDE DEF asked, field
  <2>3. QED BY <1>1, <1>2, <2>1, <2>2 DEF asked
<1>4. calls' = calls /\ call \in DOMAIN calls /\ calls[call] \in Payloads
  BY DEF Reveals!RevealNext, Reveals!CursorCall, RevealsInv
<1>5. first \in Reveals!Redactions(calls[call]) BY DEF Reveals!Hidden
<1>6. \A u : u \in Reveals!Uncovered <=>
        \E c \in DOMAIN calls : \E x \in Reveals!Redactions(calls[c]) :
          Reveals!IsRevealed(c, x.path) /\ u = [call |-> c, at |-> x.at]
  BY DEF Reveals!Uncovered
<1>7. \A u : u \in Reveals!Uncovered' <=>
        \E c \in DOMAIN calls : \E x \in Reveals!Redactions(calls[c]) :
          Reveals!IsRevealed(c, x.path)' /\ u = [call |-> c, at |-> x.at]
  BY <1>4 DEF Reveals!Uncovered
<1>8. \A c, p : [call |-> c, path |-> p] = field <=> c = call /\ p = first.path
  OBVIOUS
<1>9. \A u : u \in Reveals!AtThePathOf(call, first) <=>
        \E x \in Reveals!Redactions(calls[call]) :
          x.path = first.path /\ u = [call |-> call, at |-> x.at]
  BY DEF Reveals!AtThePathOf
<1> HIDE DEF field
<1>10. ASSUME NEW u
       PROVE  u \in Reveals!Uncovered' <=>
                u \in Reveals!Uncovered \/ u \in Reveals!AtThePathOf(call, first)
  BY <1>3, <1>4, <1>6, <1>7, <1>8, <1>9
<1>11. QED BY <1>10

(* For every conversation and every payload: a keystroke uncovers the      *)
(* first field that the call under the cursor still hides, with it the     *)
(* fields of that call whose dotted path is the same, and no other         *)
(* (App::reveal_next, RevealedField).                                      *)
THEOREM OnePathAtATime == Spec => OnePathPerKeystroke
<1> DEFINE Reached ==
      UNION {Reveals!AtThePathOf(c, Reveals!FirstCovered(c)) : c \in Reveals!CursorCall}
<1> DEFINE One == Len(revealed') > Len(revealed) =>
                    Reveals!Uncovered' = Reveals!Uncovered \cup Reached
<1>1. RevealsInv /\ [Reveals!Next]_revealsVars => [One]_(Reveals!vars)
  <2> SUFFICES ASSUME RevealsInv, [Reveals!Next]_revealsVars, Len(revealed') > Len(revealed)
               PROVE  Reveals!Uncovered' = Reveals!Uncovered \cup Reached
    OBVIOUS
  <2>1. Len(revealed) \in Nat BY DEF RevealsInv
  <2>2. revealed' # revealed /\ revealed' # <<>>
    <3>1. Len(<<>>) = 0 OBVIOUS
    <3>2. QED BY <2>1, <3>1
  <2>3. Reveals!RevealNext
    BY <2>2 DEF Reveals!Next, Reveals!Enter, Reveals!EntryDenied, Reveals!CallReturns,
      Reveals!MoveCursor, Reveals!ToggleCursorCall, revealsVars
  <2>4. PICK call \in Reveals!CursorCall :
          /\ Reveals!Hidden(call) # {}
          /\ revealed' = Append(revealed, [call |-> call,
                                           path |-> Reveals!FirstOf(Reveals!Hidden(call)).path])
    BY <2>3 DEF Reveals!RevealNext
  <2>5. call \in DOMAIN calls /\ calls[call] \in Payloads BY DEF Reveals!CursorCall, RevealsInv
  <2>6. Reveals!CursorCall = {call} BY DEF Reveals!CursorCall
  <2>7. Reveals!FirstOf(Reveals!Hidden(call)) \in Reveals!Hidden(call)
    <3>1. Reveals!Hidden(call) \in SUBSET Reveals!Redactions(calls[call]) BY DEF Reveals!Hidden
    <3>2. QED BY <2>4, <2>5, <3>1, FirstIsOne
  <2>8. Reveals!FirstCovered(call) = Reveals!FirstOf(Reveals!Hidden(call))
    BY <2>5, HiddenIsCovered DEF Reveals!FirstCovered
  <2>9. Reveals!Uncovered' = Reveals!Uncovered
          \cup Reveals!AtThePathOf(call, Reveals!FirstCovered(call))
    BY <2>3, <2>4, <2>7, <2>8, OneMoreUncovered
  <2>10. Reached = Reveals!AtThePathOf(call, Reveals!FirstCovered(call)) BY <2>6
  <2>11. QED BY <2>9, <2>10
<1>2. (Spec => [][One]_(Reveals!vars)) => (Spec => OnePathPerKeystroke)
  BY DEF OnePathPerKeystroke, Reveals!OnePathPerKeystroke
<1> HIDE DEF One
<1>3. QED BY <1>1, <1>2, RevealsInvariant, RevealsRun, PTL

-------------------------------------------------------------------------------
(* Transcripts. *)

FoldFacts == INSTANCE TranscriptFoldProofs

(* Both describe the same transcript: events are folded into it alike. *)
LEMMA SameFold == \A turn, e : Folded!Fold(turn, e) = FoldFacts!Fold(turn, e)
<1>1. \A n, c, d : Folded!Node(n, c, d) = FoldFacts!Node(n, c, d)
  BY DEF Folded!Node, FoldFacts!Node
<1>2. \A scripts, n : Folded!FileCall(scripts, n) = FoldFacts!FileCall(scripts, n)
  BY DEF Folded!FileCall, FoldFacts!FileCall, Folded!Node, FoldFacts!Node,
     Folded!SelectLastInSeq, FoldFacts!SelectLastInSeq, Folded!Max, FoldFacts!Max
<1>3. \A scripts, n : Folded!CloseScript(scripts, n) = FoldFacts!CloseScript(scripts, n)
  BY DEF Folded!CloseScript, FoldFacts!CloseScript, Folded!Node, FoldFacts!Node,
     Folded!SelectInSeq, FoldFacts!SelectInSeq, Folded!Min, FoldFacts!Min
<1>4. \A tokens, usage : Folded!Account(tokens, usage) = FoldFacts!Account(tokens, usage)
  BY DEF Folded!Account, FoldFacts!Account, Folded!AddReported, FoldFacts!AddReported
<1>5. QED BY <1>1, <1>2, <1>3, <1>4 DEF Folded!Fold, FoldFacts!Fold

LEMMA SameAbsorb == \A e : Folded!Absorb(transcript, e) = FoldFacts!Absorb(transcript, e)
<1>1. Folded!RunningTurn(transcript) = FoldFacts!RunningTurn(transcript)
  BY DEF Folded!RunningTurn, FoldFacts!RunningTurn, Folded!SelectLastInSeq,
     FoldFacts!SelectLastInSeq, Folded!Max, FoldFacts!Max
<1>2. QED BY <1>1, SameFold DEF Folded!Absorb, FoldFacts!Absorb

LEMMA SameTotal == \A s : Folded!Total(s) = FoldFacts!Total(s)
BY DEF Folded!Total, FoldFacts!Total, Folded!FoldSeq, FoldFacts!FoldSeq,
  Folded!FoldFunction, FoldFacts!FoldFunction,
  Folded!FoldFunctionOnSet, FoldFacts!FoldFunctionOnSet,
  Folded!MapThenFoldSet, FoldFacts!MapThenFoldSet

LEMMA FoldRuns == Spec => FoldFacts!Spec
<1>1. Init => FoldFacts!Init BY DEF Init, Folded!Init, FoldFacts!Init
<1>2. Folded!Ask => FoldFacts!Ask
  BY DEF Folded!Ask, FoldFacts!Ask, Folded!OpenTurn, FoldFacts!OpenTurn, Folded!Opened,
     FoldFacts!Opened
<1>3. ASSUME NEW e, Folded!Feed(e) PROVE FoldFacts!Feed(e)
  <2>1. Folded!Last(unclosed) = FoldFacts!Last(unclosed) BY DEF Folded!Last, FoldFacts!Last
  <2>2. Folded!Front(unclosed) = FoldFacts!Front(unclosed) BY DEF Folded!Front, FoldFacts!Front
  <2>3. QED BY <1>3, <2>1, <2>2, SameAbsorb, SameTotal DEF Folded!Feed, FoldFacts!Feed
<1>4. [Next]_vars => [FoldFacts!Next]_(FoldFacts!vars)
  BY <1>2, <1>3
  DEF Next, vars, OnlyPart, foldedVars, Folded!vars, FoldFacts!vars, Folded!Next, FoldFacts!Next,
      Folded!Quiet, FoldFacts!Quiet
<1>5. QED BY <1>1, <1>4, PTL DEF Spec, FoldFacts!Spec

(* However events come, each turn shows every call fed to it, once and in  *)
(* the order fed within its script, and the token counts reported          *)
(* (Turn::absorb, TurnTokens::absorb).                                     *)
THEOREM EverythingReportedIsShown == Spec => []NothingReportedIsLost
<1>1. FoldFacts!Spec => []FoldFacts!NothingReportedIsLost
  <2>1. Events \subseteq FoldFacts!Event
    BY PartsAssumption DEF Folded!Event, FoldFacts!Event, Folded!Option, FoldFacts!Option
  <2>2. QED BY <2>1, FoldFacts!EverythingReportedIsShown
<1>2. FoldFacts!NothingReportedIsLost => NothingReportedIsLost
  <2>1. \A turn, events : FoldFacts!ShowsCalls(turn, events) <=> Folded!ShowsCalls(turn, events)
    BY DEF FoldFacts!ShowsCalls, Folded!ShowsCalls, FoldFacts!CallsFed, Folded!CallsFed,
       FoldFacts!CallsShown, Folded!CallsShown
  <2>2. \A events, count : FoldFacts!Reporting(events, count) = Folded!Reporting(events, count)
    BY DEF FoldFacts!Reporting, Folded!Reporting
  <2>3. \A events, count : FoldFacts!Amounts(events, count) = Folded!Amounts(events, count)
    BY <2>2 DEF FoldFacts!Amounts, Folded!Amounts
  <2>4. \A amounts : FoldFacts!SumOf(amounts) = Folded!SumOf(amounts)
    BY DEF FoldFacts!SumOf, Folded!SumOf
  <2>5. \A events : FoldFacts!Silent(events) = Folded!Silent(events)
    BY <2>2 DEF FoldFacts!Silent, Folded!Silent
  <2>6. \A S : FoldFacts!Cardinality(S) = Folded!Cardinality(S)
    BY DEF FoldFacts!Cardinality, Folded!Cardinality
  <2>7. \A turn, events : FoldFacts!ShowsUsage(turn, events) <=> Folded!ShowsUsage(turn, events)
    BY <2>2, <2>3, <2>4, <2>5, <2>6 DEF FoldFacts!ShowsUsage, Folded!ShowsUsage
  <2>8. QED BY <2>1, <2>7
    DEF NothingReportedIsLost, Folded!NothingReportedIsLost, FoldFacts!NothingReportedIsLost
<1>3. QED BY <1>1, <1>2, FoldRuns, PTL

-------------------------------------------------------------------------------
(* The inventory and the start, proved about in modules of their own: the  *)
(* same definitions stand for the same there as here.                      *)

InventoryFacts == INSTANCE AssetsProofs WITH bytes <- bytes_held
StartupFacts == INSTANCE SelectionProofs

(* What is proved above of Spec holds of the whole as well. *)
LEMMA PartsOfTheWhole == AllSpec => Spec
<1>1. AllInit => Init BY DEF AllInit
<1>2. [AllNext]_allVars => [Next]_vars BY DEF AllNext, allVars
<1>3. QED BY <1>1, <1>2, PTL DEF AllSpec, Spec

LEMMA InventoryRuns == AllSpec => InventoryFacts!Spec
<1>1. AllInit => InventoryFacts!Init
  BY DEF AllInit, Inventory!Init, InventoryFacts!Init, Inventory!NoBlob, InventoryFacts!NoBlob
<1>2. ASSUME NEW c \in Callers PROVE /\ Inventory!Attach(c) <=> InventoryFacts!Attach(c)
                                     /\ Inventory!Register(c) <=> InventoryFacts!Register(c)
  BY DEF Inventory!Attach, InventoryFacts!Attach, Inventory!Register, InventoryFacts!Register,
         Inventory!MakeBlob, InventoryFacts!MakeBlob, Inventory!NoBlob, InventoryFacts!NoBlob
<1>3. ASSUME NEW c \in Callers PROVE /\ Inventory!Insert(c) <=> InventoryFacts!Insert(c)
                                     /\ Inventory!InsertRefused(c) <=> InventoryFacts!InsertRefused(c)
  <2>1. \A len : Inventory!Full(len) <=> InventoryFacts!Full(len)
    BY DEF Inventory!Full, InventoryFacts!Full, Inventory!Cardinality, InventoryFacts!Cardinality
  <2>2. QED BY <2>1
    DEF Inventory!Insert, InventoryFacts!Insert, Inventory!InsertRefused,
        InventoryFacts!InsertRefused, Inventory!NewId, InventoryFacts!NewId, Inventory!NoBlob,
        InventoryFacts!NoBlob
<1>4. ASSUME NEW c \in Callers PROVE /\ Inventory!Fetch(c) <=> InventoryFacts!Fetch(c)
                                     /\ Inventory!CallOver(c) <=> InventoryFacts!CallOver(c)
  BY DEF Inventory!Fetch, InventoryFacts!Fetch, Inventory!CallOver, InventoryFacts!CallOver
<1>5. Inventory!Remove <=> InventoryFacts!Remove
  BY DEF Inventory!Remove, InventoryFacts!Remove, Inventory!RemoveRow, InventoryFacts!RemoveRow,
         Inventory!Pinned, InventoryFacts!Pinned, Inventory!Restrict, InventoryFacts!Restrict
<1>6. Inventory!Next => [InventoryFacts!Next]_(InventoryFacts!vars)
  BY <1>2, <1>3, <1>4, <1>5
  DEF Inventory!Next, InventoryFacts!Next, Inventory!Rejected, InventoryFacts!Rejected,
      Inventory!vars, InventoryFacts!vars
<1>7. [AllNext]_allVars => [InventoryFacts!Next]_(InventoryFacts!vars)
  BY <1>6 DEF AllNext, allVars, inventoryVars, InventoryFacts!vars
<1>8. QED BY <1>1, <1>7, PTL DEF AllSpec, InventoryFacts!Spec

LEMMA SameStart ==
  ASSUME NEW d, NEW line
  PROVE  /\ Startup!StartRefused(d, line) <=> StartupFacts!StartRefused(d, line)
         /\ Startup!StartOptions(d, line) = StartupFacts!StartOptions(d, line)
         /\ Startup!InitialAgent(d, line) = StartupFacts!InitialAgent(d, line)
<1>1. Startup!Initial(d, line) = StartupFacts!Initial(d, line)
  BY DEF Startup!Initial, StartupFacts!Initial, Startup!ChosenName, StartupFacts!ChosenName,
         Startup!Matching, StartupFacts!Matching
<1>2. Startup!StartRefused(d, line) <=> StartupFacts!StartRefused(d, line)
  BY <1>1
  DEF Startup!StartRefused, StartupFacts!StartRefused, Startup!UnknownProfile,
      StartupFacts!UnknownProfile, Startup!AmbiguousAgent, StartupFacts!AmbiguousAgent,
      Startup!Matching, StartupFacts!Matching, Startup!SubjectWithProfiles,
      StartupFacts!SubjectWithProfiles, Startup!BoundElsewhere, StartupFacts!BoundElsewhere,
      Startup!NoSubject, StartupFacts!NoSubject, Startup!UnknownAgent, StartupFacts!UnknownAgent,
      Startup!StructuredAgent, StartupFacts!StructuredAgent, Startup!Agents, StartupFacts!Agents
<1>3. \A p : Startup!FromProfile(line, p) = StartupFacts!FromProfile(line, p)
  BY DEF Startup!FromProfile, StartupFacts!FromProfile, Startup!Resolve, StartupFacts!Resolve,
         Startup!ModelSource, StartupFacts!ModelSource
<1>4. Startup!FromCommandLine(line) = StartupFacts!FromCommandLine(line)
  BY DEF Startup!FromCommandLine, StartupFacts!FromCommandLine, Startup!Resolve,
         StartupFacts!Resolve, Startup!ModelSource, StartupFacts!ModelSource
<1>5. QED BY <1>1, <1>2, <1>3, <1>4
  DEF Startup!StartOptions, StartupFacts!StartOptions, Startup!InitialAgent,
      StartupFacts!InitialAgent

LEMMA SameHop == \A agent : Startup!Hop(agent) <=> StartupFacts!Hop(agent)
<1> TAKE agent
<1>1. Startup!Config(doc, cli) = StartupFacts!Config(doc, cli)
  BY DEF Startup!Config, StartupFacts!Config
<1>2. \A config : /\ Startup!Matches(config, agent) = StartupFacts!Matches(config, agent)
                  /\ Startup!Chosen(config, agent) = StartupFacts!Chosen(config, agent)
  BY DEF Startup!Matches, StartupFacts!Matches, Startup!Chosen, StartupFacts!Chosen
<1>3. \A config : Startup!HopRefused(config, agent) <=> StartupFacts!HopRefused(config, agent)
  BY <1>2
  DEF Startup!HopRefused, StartupFacts!HopRefused, Startup!FixedElsewhere,
      StartupFacts!FixedElsewhere, Startup!Ambiguous, StartupFacts!Ambiguous, Startup!Unauthored,
      StartupFacts!Unauthored
<1>4. \A p : Startup!FromProfile(cli, p) = StartupFacts!FromProfile(cli, p)
  BY DEF Startup!FromProfile, StartupFacts!FromProfile, Startup!Resolve, StartupFacts!Resolve,
         Startup!ModelSource, StartupFacts!ModelSource
<1>5. Startup!HopOptions(agent) = StartupFacts!HopOptions(agent)
  BY <1>1, <1>2, <1>4 DEF Startup!HopOptions, StartupFacts!HopOptions
<1>6. QED BY <1>1, <1>3, <1>5 DEF Startup!Hop, StartupFacts!Hop

LEMMA StartupRuns == AllSpec => StartupFacts!Spec
<1>1. AllInit => StartupFacts!Init
  BY DEF AllInit, Startup!Init, StartupFacts!Init, Startup!NoOptions, StartupFacts!NoOptions,
         Startup!NoHop,
         StartupFacts!NoHop
<1>2. Startup!Start <=> StartupFacts!Start
  BY SameStart DEF Startup!Start, StartupFacts!Start
<1>3. Startup!EnterInitial <=> StartupFacts!EnterInitial
  BY SameStart, SameHop DEF Startup!EnterInitial, StartupFacts!EnterInitial
<1>4. Startup!Next => [StartupFacts!Next]_(StartupFacts!vars)
  BY <1>2, <1>3, SameHop
  DEF Startup!Next, StartupFacts!Next, Startup!Pick, StartupFacts!Pick, Startup!Agents,
      StartupFacts!Agents, Startup!Ended, StartupFacts!Ended, Startup!vars, StartupFacts!vars
<1>5. [AllNext]_allVars => [StartupFacts!Next]_(StartupFacts!vars)
  BY <1>4 DEF AllNext, allVars, startupVars, StartupFacts!vars
<1>6. QED BY <1>1, <1>5, PTL DEF AllSpec, StartupFacts!Spec

(* A row whose blob a call is sending stays (Inventory::remove refuses a   *)
(* pinned blob): what the run checks, for every number of callers.         *)
THEOREM PinnedRowsStay == AllSpec => []PinnedRowStays
<1>1. InventoryFacts!PinnedRowStays => PinnedRowStays
  BY DEF PinnedRowStays, Inventory!PinnedRowStays, InventoryFacts!PinnedRowStays
<1>2. InventoryFacts!Spec => []InventoryFacts!PinnedRowStays
  BY AssetsAssumption, InventoryFacts!PinnedRowsStay
<1>3. QED BY <1>1, <1>2, InventoryRuns, PTL

(* Rows and bytes stay within MAX_ITEMS and MAX_BYTES, and are counted     *)
(* right (Inventory::insert and remove).                                   *)
THEOREM CapacityKept == AllSpec => []WithinCapacity
<1>1. InventoryFacts!WithinCapacity => WithinCapacity
  BY DEF WithinCapacity, Inventory!WithinCapacity, InventoryFacts!WithinCapacity,
         Inventory!HeldUpto,
         InventoryFacts!HeldUpto, Inventory!Weight, InventoryFacts!Weight, Inventory!Cardinality,
         InventoryFacts!Cardinality
<1>2. InventoryFacts!Spec => []InventoryFacts!WithinCapacity
  BY AssetsAssumption, InventoryFacts!CapacityKept
<1>3. QED BY <1>1, <1>2, InventoryRuns, PTL

(* An id once told names that asset or none (Inventory::insert counts ids  *)
(* up and stops at the last one).                                          *)
THEOREM IdsKeepTheirMeaning == AllSpec => IdKeepsItsMeaning
<1> DEFINE Keeps == \A id \in DOMAIN told : id \in DOMAIN items' => items'[id].number = told[id]
<1>1. InventoryFacts!Spec => InventoryFacts!IdKeepsItsMeaning
  BY AssetsAssumption, InventoryFacts!IdsKeepTheirMeaning
<1>2. (InventoryFacts!Spec => InventoryFacts!IdKeepsItsMeaning)
        => (InventoryFacts!Spec => [][Keeps]_(InventoryFacts!vars))
  BY DEF InventoryFacts!IdKeepsItsMeaning
<1>3. [Keeps]_(InventoryFacts!vars) => [Keeps]_(Inventory!vars)
  BY DEF Inventory!vars, InventoryFacts!vars
<1>4. (AllSpec => [][Keeps]_(Inventory!vars)) => (AllSpec => IdKeepsItsMeaning)
  BY DEF IdKeepsItsMeaning, Inventory!IdKeepsItsMeaning
<1> HIDE DEF Keeps
<1>5. QED BY <1>1, <1>2, <1>3, <1>4, InventoryRuns, PTL

(* A hop decides what a restart with --agent would, for every document,    *)
(* command line and sequence of hops (dispatch of Enter, `execute`).       *)
THEOREM HopsAreRestarts == AllSpec => []HopIsRestart
<1>1. StartupFacts!HopIsRestart => HopIsRestart
  <2>1. Startup!Restart = StartupFacts!Restart BY DEF Startup!Restart, StartupFacts!Restart
  <2>2. QED BY <2>1, SameStart
    DEF HopIsRestart, Startup!HopIsRestart, StartupFacts!HopIsRestart, Startup!NoHop,
        StartupFacts!NoHop
<1>2. StartupFacts!Spec => []StartupFacts!HopIsRestart
  BY CatalogAssumption, SelectionAssumption, StartupFacts!HopsAreRestarts
  DEF StartupFacts!ValidDocument, ValidDocument, StartupFacts!Cli, Cli
<1>3. QED BY <1>1, <1>2, StartupRuns, PTL

(* The hop startup asks for is let in, as whom startup displayed.          *)
THEOREM StartupAgrees == AllSpec => InitialHopAgrees
<1> DEFINE Agrees == hop'.accepted /\ options' = options
<1>1. StartupFacts!Spec => StartupFacts!InitialHopAgrees
  BY CatalogAssumption, SelectionAssumption, StartupFacts!StartupAgrees
  DEF StartupFacts!ValidDocument, ValidDocument, StartupFacts!Cli, Cli
<1>2. (StartupFacts!Spec => StartupFacts!InitialHopAgrees)
        => (StartupFacts!Spec => [][StartupFacts!EnterInitial => Agrees]_(StartupFacts!vars))
  BY DEF StartupFacts!InitialHopAgrees
<1>3. [StartupFacts!EnterInitial => Agrees]_(StartupFacts!vars)
        => [Startup!EnterInitial => Agrees]_(Startup!vars)
  BY SameStart, SameHop
  DEF Startup!EnterInitial, StartupFacts!EnterInitial, Startup!vars, StartupFacts!vars
<1>4. (AllSpec => [][Startup!EnterInitial => Agrees]_(Startup!vars))
        => (AllSpec => InitialHopAgrees)
  BY DEF InitialHopAgrees, Startup!InitialHopAgrees
<1> HIDE DEF Agrees
<1>5. QED BY <1>1, <1>2, <1>3, <1>4, StartupRuns, PTL
================================================================================
