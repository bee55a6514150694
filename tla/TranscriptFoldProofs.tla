--------------------------- MODULE TranscriptFoldProofs -------------------------
(***************************************************************************)
(* What a transcript shows of the events fed to it, whatever those are and *)
(* whoever sends them: unlike the sessions of ModelTurn, these may start   *)
(* scripts within scripts, end what was never begun, and come too late.    *)
(* The turns still running are a stack, so that the turn that accepts      *)
(* events is its last; an event adds one call at the end of one script, or *)
(* a count, or nothing.                                                    *)
(***************************************************************************)
EXTENDS TranscriptFold, Counting, Sequences, SequenceTheorems, FiniteSetTheorems, TLAPS

Counts == Option(Nat)
Statuses == {"running"} \cup STRING
Scripts == [seq : Nat, calls : Seq(Nat), done : BOOLEAN]
Turns ==
  [prompt : Nat, scripts : Seq(Scripts), status : Statuses,
   tokens : [input : Counts, output : Counts, unreported : Nat],
   stop : BOOLEAN, window : BOOLEAN]

LEMMA Appended ==
  ASSUME NEW S, NEW s \in Seq(S), NEW e \in S
  PROVE  /\ Append(s, e) \in Seq(S) /\ Len(s) \in Nat /\ Len(Append(s, e)) = Len(s) + 1
         /\ DOMAIN s = 1 .. Len(s) /\ DOMAIN Append(s, e) = 1 .. Len(s) + 1
         /\ Append(s, e)[Len(s) + 1] = e
         /\ \A i \in 1 .. Len(s) : Append(s, e)[i] = s[i]
OBVIOUS

(* What each kind of event carries. *)
LEMMA EventKinds ==
  ASSUME NEW e \in Event
  PROVE  /\ e.kind \in {"started", "call", "over", "finished", "usage"}
         /\ e.kind \in {"started", "call", "over"} => e.seq \in Nat
         /\ e.kind = "finished" => e.status \in STRING /\ e.status # "running"
         /\ e.kind = "usage" =>
              e.reported \in Option([input : Counts, output : Counts])
BY DEF Event, Counts

LEMMA FoldKinds ==
  ASSUME NEW turn, NEW e
  PROVE  /\ e.kind = "started" =>
              Fold(turn, e) =
                [turn EXCEPT !.scripts = Append(turn.scripts, Node(e.seq, <<>>, FALSE))]
         /\ e.kind = "call" =>
              Fold(turn, e) = [turn EXCEPT !.scripts = FileCall(turn.scripts, e.seq)]
         /\ e.kind = "over" =>
              Fold(turn, e) = [turn EXCEPT !.scripts = CloseScript(turn.scripts, e.seq)]
         /\ e.kind = "usage" =>
              Fold(turn, e) = [turn EXCEPT !.tokens = Account(turn.tokens, e.reported)]
         /\ e.kind = "finished" => Fold(turn, e) = [turn EXCEPT !.status = e.status]
<1>1. CASE e.kind = "started" BY <1>1 DEF Fold
<1>2. CASE e.kind = "call" BY <1>2 DEF Fold
<1>3. CASE e.kind = "over" BY <1>3 DEF Fold
<1>4. CASE e.kind = "usage" BY <1>4 DEF Fold
<1>5. CASE e.kind = "finished" BY <1>5 DEF Fold
<1>6. QED BY <1>1, <1>2, <1>3, <1>4, <1>5

-------------------------------------------------------------------------------
(* The calls.  Of a script that is new none were shown. *)
CallsBefore(scripts, s) == IF s \in DOMAIN scripts THEN scripts[s].calls ELSE <<>>

(* The turn whose scripts these become has the same calls ... *)
SameCalls(old, new) ==
  /\ DOMAIN old \subseteq DOMAIN new
  /\ \A s \in DOMAIN new : new[s].calls = CallsBefore(old, s)

(* ... or one more, the last of its script. *)
OneCallMore(old, new, n) ==
  /\ DOMAIN old \subseteq DOMAIN new
  /\ \E site \in DOMAIN new : \A s \in DOMAIN new :
       new[s].calls = IF s = site THEN Append(CallsBefore(old, s), n) ELSE CallsBefore(old, s)

LEMMA NewScript ==
  ASSUME NEW scripts \in Seq(Scripts), NEW node \in Scripts
  PROVE  /\ Append(scripts, node) \in Seq(Scripts)
         /\ node.calls = <<>> => SameCalls(scripts, Append(scripts, node))
         /\ \A n \in Nat : node.calls = <<n>> => OneCallMore(scripts, Append(scripts, node), n)
<1> DEFINE new == Append(scripts, node)
<1>1. /\ new \in Seq(Scripts) /\ DOMAIN scripts = 1 .. Len(scripts)
      /\ DOMAIN new = 1 .. Len(scripts) + 1 /\ Len(scripts) \in Nat
      /\ new[Len(scripts) + 1] = node /\ \A i \in 1 .. Len(scripts) : new[i] = scripts[i]
  BY Appended
<1> HIDE DEF new
<1>2. DOMAIN scripts \subseteq DOMAIN new /\ Len(scripts) + 1 \in DOMAIN new BY <1>1
<1>3. CallsBefore(scripts, Len(scripts) + 1) = <<>> BY <1>1 DEF CallsBefore
<1>4. \A s \in DOMAIN new : s # Len(scripts) + 1 => new[s].calls = CallsBefore(scripts, s)
  <2> SUFFICES ASSUME NEW s \in DOMAIN new, s # Len(scripts) + 1
               PROVE  new[s].calls = CallsBefore(scripts, s)
    OBVIOUS
  <2>1. s \in 1 .. Len(scripts) BY <1>1
  <2>2. QED BY <1>1, <2>1 DEF CallsBefore
<1>5. node.calls = <<>> => SameCalls(scripts, new)
  BY <1>1, <1>2, <1>3, <1>4 DEF SameCalls
<1>6. ASSUME NEW n \in Nat, node.calls = <<n>> PROVE OneCallMore(scripts, new, n)
  <2>1. Append(<<>>, n) = <<n>> OBVIOUS
  <2>2. \A s \in DOMAIN new : new[s].calls = IF s = Len(scripts) + 1
                                THEN Append(CallsBefore(scripts, s), n) ELSE CallsBefore(scripts, s)
    BY <1>1, <1>3, <1>4, <1>6, <2>1
  <2>3. QED BY <1>2, <2>2 DEF OneCallMore
<1>7. QED BY <1>1, <1>5, <1>6 DEF new

LEMMA ScriptEdits ==
  ASSUME NEW scripts \in Seq(Scripts), NEW i \in 1 .. Len(scripts), NEW n \in Nat
  PROVE  /\ [scripts EXCEPT ![i].done = TRUE] \in Seq(Scripts)
         /\ SameCalls(scripts, [scripts EXCEPT ![i].done = TRUE])
         /\ [scripts EXCEPT ![i].calls = Append(@, n)] \in Seq(Scripts)
         /\ OneCallMore(scripts, [scripts EXCEPT ![i].calls = Append(@, n)], n)
<1>1. scripts[i] \in Scripts /\ DOMAIN scripts = 1 .. Len(scripts) OBVIOUS
<1>2. [scripts[i] EXCEPT !.done = TRUE] \in Scripts
      /\ [scripts[i] EXCEPT !.done = TRUE].calls = scripts[i].calls
  BY <1>1 DEF Scripts
<1>3. Append(scripts[i].calls, n) \in Seq(Nat) BY <1>1, Appended DEF Scripts
<1>4. [scripts[i] EXCEPT !.calls = Append(@, n)] \in Scripts
      /\ [scripts[i] EXCEPT !.calls = Append(@, n)].calls = Append(scripts[i].calls, n)
  BY <1>1, <1>3 DEF Scripts
<1>5. ASSUME NEW node \in Scripts
      PROVE  /\ [scripts EXCEPT ![i] = node] \in Seq(Scripts)
             /\ DOMAIN [scripts EXCEPT ![i] = node] = 1 .. Len(scripts)
             /\ [scripts EXCEPT ![i] = node][i] = node
             /\ \A s \in 1 .. Len(scripts) : s # i => [scripts EXCEPT ![i] = node][s] = scripts[s]
  OBVIOUS
<1>6. \A s \in 1 .. Len(scripts) : CallsBefore(scripts, s) = scripts[s].calls BY <1>1 DEF CallsBefore
<1>7. [scripts EXCEPT ![i].done = TRUE] \in Seq(Scripts)
      /\ SameCalls(scripts, [scripts EXCEPT ![i].done = TRUE])
  <2> DEFINE new == [scripts EXCEPT ![i] = [scripts[i] EXCEPT !.done = TRUE]]
  <2>1. /\ new \in Seq(Scripts) /\ DOMAIN new = 1 .. Len(scripts)
        /\ new[i] = [scripts[i] EXCEPT !.done = TRUE]
        /\ \A s \in 1 .. Len(scripts) : s # i => new[s] = scripts[s]
    BY <1>2, <1>5
  <2>2. [scripts EXCEPT ![i].done = TRUE] = new OBVIOUS
  <2> HIDE DEF new
  <2>3. \A s \in DOMAIN new : new[s].calls = CallsBefore(scripts, s)
    BY <1>2, <1>6, <2>1
  <2>4. QED BY <1>1, <2>1, <2>2, <2>3 DEF SameCalls
<1>8. [scripts EXCEPT ![i].calls = Append(@, n)] \in Seq(Scripts)
      /\ OneCallMore(scripts, [scripts EXCEPT ![i].calls = Append(@, n)], n)
  <2> DEFINE new == [scripts EXCEPT ![i] = [scripts[i] EXCEPT !.calls = Append(@, n)]]
  <2>1. /\ new \in Seq(Scripts) /\ DOMAIN new = 1 .. Len(scripts)
        /\ new[i] = [scripts[i] EXCEPT !.calls = Append(@, n)]
        /\ \A s \in 1 .. Len(scripts) : s # i => new[s] = scripts[s]
    BY <1>4, <1>5
  <2>2. [scripts EXCEPT ![i].calls = Append(@, n)] = new OBVIOUS
  <2> HIDE DEF new
  <2>3. \A s \in DOMAIN new : new[s].calls =
          IF s = i THEN Append(CallsBefore(scripts, s), n) ELSE CallsBefore(scripts, s)
    BY <1>4, <1>6, <2>1
  <2>4. QED BY <1>1, <2>1, <2>2, <2>3 DEF OneCallMore
<1>9. QED BY <1>7, <1>8

(* Where the last and the first of some places in a sequence are. *)
LEMMA EndsOf ==
  ASSUME NEW n \in Nat, NEW I \in SUBSET (1 .. n), I # {}
  PROVE  /\ Max(I) \in I /\ \A i \in I : i <= Max(I)
         /\ Min(I) \in I
<1>1. I \in SUBSET Nat OBVIOUS
<1>2. \E x \in I : \A y \in I : x <= y BY <1>1, LeastNumber
<1>3. Min(I) \in I BY <1>2 DEF Min
<1> DEFINE below == {n - i : i \in I}
<1>4. below \in SUBSET Nat /\ below # {}
  <2>1. \A i \in I : n - i \in Nat OBVIOUS
  <2>2. QED BY <2>1
<1> HIDE DEF below
<1>5. PICK m \in below : \A k \in below : m <= k BY <1>4, LeastNumber
<1>6. PICK i \in I : m = n - i BY <1>5 DEF below
<1>7. \A j \in I : i >= j
  <2>1. \A j \in I : n - i <= n - j /\ i \in Nat /\ j \in Nat BY <1>5, <1>6 DEF below
  <2>2. QED BY <2>1
<1>8. \E x \in I : \A y \in I : x >= y BY <1>7
<1>9. Max(I) \in I /\ \A y \in I : Max(I) >= y BY <1>8 DEF Max
<1>10. QED BY <1>3, <1>9

LEMMA CallFiled ==
  ASSUME NEW scripts \in Seq(Scripts), NEW n \in Nat
  PROVE  /\ FileCall(scripts, n) \in Seq(Scripts)
         /\ OneCallMore(scripts, FileCall(scripts, n), n)
<1> DEFINE I == {i \in 1 .. Len(scripts) : ~scripts[i].done}
           site == SelectLastInSeq(scripts, LAMBDA node : ~node.done)
<1>1. site = IF I # {} THEN Max(I) ELSE 0 BY DEF SelectLastInSeq
<1>2. Len(scripts) \in Nat /\ I \in SUBSET (1 .. Len(scripts)) OBVIOUS
<1>3. FileCall(scripts, n) =
        IF site = 0 THEN Append(scripts, Node(n, <<n>>, FALSE))
        ELSE [scripts EXCEPT ![site].calls = Append(@, n)]
  BY DEF FileCall
<1> HIDE DEF I, site
<1>4. CASE I = {}
  <2>1. FileCall(scripts, n) = Append(scripts, Node(n, <<n>>, FALSE))
    BY <1>1, <1>3, <1>4
  <2>2. Node(n, <<n>>, FALSE) \in Scripts /\ Node(n, <<n>>, FALSE).calls = <<n>>
    BY DEF Node, Scripts
  <2>3. QED BY <2>1, <2>2, NewScript
<1>5. CASE I # {}
  <2>1. Max(I) \in I BY <1>2, <1>5, EndsOf
  <2>2. PICK i \in 1 .. Len(scripts) : i = Max(I) BY <1>2, <2>1
  <2>3. site = i /\ i # 0 BY <1>1, <1>2, <1>5, <2>2
  <2>4. FileCall(scripts, n) = [scripts EXCEPT ![i].calls = Append(@, n)]
    BY <1>3, <2>3
  <2> DEFINE new == [scripts EXCEPT ![i].calls = Append(@, n)]
  <2>5. new \in Seq(Scripts) /\ OneCallMore(scripts, new, n) BY ScriptEdits
  <2>6. FileCall(scripts, n) = new BY <2>4
  <2> HIDE DEF new
  <2>7. QED BY <2>5, <2>6
<1>6. QED BY <1>4, <1>5

LEMMA ScriptClosed ==
  ASSUME NEW scripts \in Seq(Scripts), NEW n \in Nat
  PROVE  /\ CloseScript(scripts, n) \in Seq(Scripts)
         /\ SameCalls(scripts, CloseScript(scripts, n))
<1> DEFINE I == {i \in 1 .. Len(scripts) : scripts[i].seq = n}
           site == SelectInSeq(scripts, LAMBDA node : node.seq = n)
<1>1. site = IF I # {} THEN Min(I) ELSE 0 BY DEF SelectInSeq
<1>2. Len(scripts) \in Nat /\ I \in SUBSET (1 .. Len(scripts)) OBVIOUS
<1>3. CloseScript(scripts, n) =
        IF site = 0 THEN Append(scripts, Node(n, <<>>, TRUE))
        ELSE [scripts EXCEPT ![site].done = TRUE]
  BY DEF CloseScript
<1> HIDE DEF I, site
<1>4. CASE I = {}
  <2>1. CloseScript(scripts, n) = Append(scripts, Node(n, <<>>, TRUE))
    BY <1>1, <1>3, <1>4
  <2>2. Node(n, <<>>, TRUE) \in Scripts /\ Node(n, <<>>, TRUE).calls = <<>>
    BY DEF Node, Scripts
  <2>3. QED BY <2>1, <2>2, NewScript
<1>5. CASE I # {}
  <2>1. Min(I) \in I BY <1>2, <1>5, EndsOf
  <2>2. PICK i \in 1 .. Len(scripts) : i = Min(I) BY <1>2, <2>1
  <2>3. site = i /\ i # 0 BY <1>1, <1>2, <1>5, <2>2
  <2>4. CloseScript(scripts, n) = [scripts EXCEPT ![i].done = TRUE]
    BY <1>3, <2>3
  <2>5. QED BY <2>4, ScriptEdits
<1>6. QED BY <1>4, <1>5

(* Where calls are shown. *)
LEMMA SpotsOf ==
  ASSUME NEW turn, NEW site
  PROVE  site \in CallsShown(turn) <=>
           \E s \in DOMAIN turn.scripts : \E c \in DOMAIN turn.scripts[s].calls :
             site = <<s, c>>
BY DEF CallsShown

LEMMA SameSpots ==
  ASSUME NEW old \in Turns, NEW new \in Turns, SameCalls(old.scripts, new.scripts)
  PROVE  /\ CallsShown(new) = CallsShown(old)
         /\ \A s \in DOMAIN old.scripts : new.scripts[s].calls = old.scripts[s].calls
<1>1. \A s \in DOMAIN old.scripts :
        s \in DOMAIN new.scripts /\ new.scripts[s].calls = old.scripts[s].calls
  BY DEF SameCalls, CallsBefore
<1>2. \A s \in DOMAIN new.scripts \ DOMAIN old.scripts : DOMAIN new.scripts[s].calls = {}
  BY DEF SameCalls, CallsBefore
<1>3. \A site : site \in CallsShown(new) <=> site \in CallsShown(old)
  BY <1>1, <1>2, SpotsOf
<1>4. QED BY <1>1, <1>3

LEMMA FedAfter ==
  ASSUME NEW events \in Seq(Event), NEW e \in Event
  PROVE  CallsFed(Append(events, e)) =
           IF e.kind = "call" THEN CallsFed(events) \cup {Len(events) + 1}
           ELSE CallsFed(events)
<1>1. /\ DOMAIN events = 1 .. Len(events) /\ DOMAIN Append(events, e) = 1 .. Len(events) + 1
      /\ Append(events, e)[Len(events) + 1] = e /\ Len(events) \in Nat
      /\ \A i \in 1 .. Len(events) : Append(events, e)[i] = events[i]
  BY Appended
<1>2. 1 .. Len(events) + 1 = (1 .. Len(events)) \cup {Len(events) + 1}
      /\ Len(events) + 1 \notin 1 .. Len(events)
  BY <1>1
<1> DEFINE more == Append(events, e)
<1>3. CallsFed(more) = {k \in 1 .. Len(events) + 1 : more[k].kind = "call"}
  BY <1>1 DEF CallsFed
<1>4. CallsFed(events) = {k \in 1 .. Len(events) : events[k].kind = "call"}
  BY <1>1 DEF CallsFed
<1> HIDE DEF more
<1>5. QED BY <1>1, <1>2, <1>3, <1>4 DEF more

(* An event that is no call shows none. *)
LEMMA NoCallMore ==
  ASSUME NEW old \in Turns, NEW new \in Turns, SameCalls(old.scripts, new.scripts),
         NEW events \in Seq(Event), NEW e \in Event, e.kind # "call",
         ShowsCalls(old, events)
  PROVE  ShowsCalls(new, Append(events, e))
<1> DEFINE Fed == CallsFed(events)
           Spots == CallsShown(old)
<1>1. CallsFed(Append(events, e)) = Fed BY FedAfter
<1>2. \A k \in Fed : k \in 1 .. Len(events) BY DEF CallsFed
<1>3. \A k \in Fed : Append(events, e)[k] = events[k] BY <1>2, Appended
<1>4. CallsShown(new) = Spots BY SameSpots
<1>5. PICK spot \in [Fed -> Spots] :
        /\ \A site \in Spots : \E k \in Fed : spot[k] = site
        /\ \A k \in Fed : old.scripts[spot[k][1]].calls[spot[k][2]] = events[k].seq
        /\ \A k, l \in Fed : k < l => spot[k][1] # spot[l][1] \/ spot[k][2] < spot[l][2]
  BY DEF ShowsCalls
<1>6. \A k \in Fed : spot[k][1] \in DOMAIN old.scripts
  BY <1>5, SpotsOf
<1>7. \A k \in Fed : new.scripts[spot[k][1]].calls[spot[k][2]] = Append(events, e)[k].seq
  BY <1>3, <1>5, <1>6, SameSpots
<1> HIDE DEF Fed, Spots
<1>8. QED BY <1>1, <1>4, <1>5, <1>7 DEF ShowsCalls

(* A call is shown at the end of its script. *)
LEMMA CallMore ==
  ASSUME NEW old \in Turns, NEW new \in Turns,
         NEW events \in Seq(Event), NEW e \in Event, e.kind = "call",
         OneCallMore(old.scripts, new.scripts, e.seq),
         ShowsCalls(old, events)
  PROVE  ShowsCalls(new, Append(events, e))
<1> DEFINE n == Len(events)
           Fed == CallsFed(events)
           Spots == CallsShown(old)
           Came(s) == CallsBefore(old.scripts, s)
<1>1. n \in Nat /\ n + 1 \notin Fed /\ \A k \in Fed : k \in 1 .. n BY DEF CallsFed
<1>2. CallsFed(Append(events, e)) = Fed \cup {n + 1} BY FedAfter
<1>3. Append(events, e)[n + 1] = e /\ \A k \in Fed : Append(events, e)[k] = events[k]
  BY <1>1, Appended
<1>4. DOMAIN old.scripts \subseteq DOMAIN new.scripts BY DEF OneCallMore
<1>5. PICK site \in DOMAIN new.scripts : \A s \in DOMAIN new.scripts :
        new.scripts[s].calls = IF s = site THEN Append(Came(s), e.seq) ELSE Came(s)
  BY DEF OneCallMore
<1>6. \A s : Came(s) \in Seq(Nat)
  <2>1. \A s \in DOMAIN old.scripts : old.scripts[s].calls \in Seq(Nat)
    <3>1. old.scripts \in Seq(Scripts) BY DEF Turns
    <3>2. \A s \in DOMAIN old.scripts : old.scripts[s] \in Scripts BY <3>1
    <3>3. QED BY <3>2 DEF Scripts
  <2>2. <<>> \in Seq(Nat) OBVIOUS
  <2>3. QED BY <2>1, <2>2 DEF CallsBefore
<1>7. e.seq \in Nat BY EventKinds
<1> DEFINE m == Len(Came(site)) + 1
<1>8. /\ Len(Came(site)) \in Nat /\ DOMAIN Came(site) = 1 .. Len(Came(site))
      /\ DOMAIN Append(Came(site), e.seq) = 1 .. m
      /\ Append(Came(site), e.seq)[m] = e.seq
      /\ \A c \in DOMAIN Came(site) : Append(Came(site), e.seq)[c] = Came(site)[c]
  BY <1>6, <1>7, Appended
<1>9. new.scripts[site].calls = Append(Came(site), e.seq) BY <1>5
<1>10. \A x : x \in Spots <=>
         \E s \in DOMAIN new.scripts : \E c \in DOMAIN Came(s) : x = <<s, c>>
  <2>1. \A s \in DOMAIN old.scripts : Came(s) = old.scripts[s].calls BY DEF CallsBefore
  <2>2. \A s \in DOMAIN new.scripts \ DOMAIN old.scripts : DOMAIN Came(s) = {} BY DEF CallsBefore
  <2>3. QED BY <1>4, <2>1, <2>2, SpotsOf
<1>11. \A s \in DOMAIN old.scripts : Came(s) = old.scripts[s].calls BY DEF CallsBefore
<1> HIDE DEF n, Fed, Spots, Came, m
<1>12. DOMAIN Came(site) \subseteq 1 .. m /\ m \in 1 .. m /\ \A c \in 1 .. m : c = m \/ c \in DOMAIN Came(site)
  BY <1>8 DEF m
<1>13. \A c \in DOMAIN Came(site) : c < m BY <1>8 DEF m
<1>14. CallsShown(new) = Spots \cup {<<site, m>>}
  <2>1. ASSUME NEW x PROVE x \in CallsShown(new) <=> x \in Spots \cup {<<site, m>>}
    <3>1. x \in CallsShown(new) <=>
            \E s \in DOMAIN new.scripts : \E c \in DOMAIN new.scripts[s].calls : x = <<s, c>>
      BY SpotsOf
    <3>2. \A s \in DOMAIN new.scripts \ {site} : DOMAIN new.scripts[s].calls = DOMAIN Came(s)
      BY <1>5
    <3>3. DOMAIN new.scripts[site].calls = 1 .. m BY <1>8, <1>9
    <3>4. ASSUME x \in CallsShown(new) PROVE x \in Spots \cup {<<site, m>>}
      <4>1. PICK s \in DOMAIN new.scripts : \E c \in DOMAIN new.scripts[s].calls : x = <<s, c>>
        BY <3>1, <3>4
      <4>2. PICK c \in DOMAIN new.scripts[s].calls : x = <<s, c>> BY <4>1
      <4>3. CASE s # site BY <1>10, <3>2, <4>2, <4>3
      <4>4. CASE s = site
        <5>1. c = m \/ c \in DOMAIN Came(site) BY <1>12, <3>3, <4>2, <4>4
        <5>2. QED BY <1>10, <4>2, <4>4, <5>1
      <4>5. QED BY <4>3, <4>4
    <3>5. ASSUME x \in Spots PROVE x \in CallsShown(new)
      <4>1. PICK s \in DOMAIN new.scripts : \E c \in DOMAIN Came(s) : x = <<s, c>> BY <1>10, <3>5
      <4>2. PICK c \in DOMAIN Came(s) : x = <<s, c>> BY <4>1
      <4>3. c \in DOMAIN new.scripts[s].calls BY <1>12, <3>2, <3>3, <4>2
      <4>4. QED BY <3>1, <4>2, <4>3
    <3>6. <<site, m>> \in CallsShown(new)
      <4>1. m \in DOMAIN new.scripts[site].calls BY <1>12, <3>3
      <4>2. QED BY <4>1, SpotsOf
    <3>7. QED BY <3>4, <3>5, <3>6
  <2>2. QED BY <2>1
<1>15. PICK spot \in [Fed -> Spots] :
         /\ \A x \in Spots : \E k \in Fed : spot[k] = x
         /\ \A k \in Fed : old.scripts[spot[k][1]].calls[spot[k][2]] = events[k].seq
         /\ \A k, l \in Fed : k < l => spot[k][1] # spot[l][1] \/ spot[k][2] < spot[l][2]
  BY DEF ShowsCalls, Fed, Spots
<1>16. \A k \in Fed : /\ spot[k][1] \in DOMAIN old.scripts
                      /\ spot[k][2] \in DOMAIN Came(spot[k][1])
  BY <1>11, <1>15, SpotsOf DEF Spots
<1> DEFINE more == [k \in Fed \cup {n + 1} |-> IF k = n + 1 THEN <<site, m>> ELSE spot[k]]
<1>17. /\ more \in [Fed \cup {n + 1} -> Spots \cup {<<site, m>>}]
       /\ more[n + 1] = <<site, m>> /\ \A k \in Fed : more[k] = spot[k]
  BY <1>1, <1>15
<1> HIDE DEF more
<1>18. \A x \in Spots \cup {<<site, m>>} : \E k \in Fed \cup {n + 1} : more[k] = x
  BY <1>15, <1>17
<1>19. \A k \in Fed \cup {n + 1} :
         new.scripts[more[k][1]].calls[more[k][2]] = Append(events, e)[k].seq
  <2>1. new.scripts[site].calls[m] = e.seq BY <1>8, <1>9
  <2>2. ASSUME NEW k \in Fed
        PROVE  new.scripts[spot[k][1]].calls[spot[k][2]] = events[k].seq
    <3>1. PICK s, c : s = spot[k][1] /\ c = spot[k][2] OBVIOUS
    <3>2. s \in DOMAIN old.scripts /\ c \in DOMAIN Came(s) BY <1>16, <3>1
    <3>3. old.scripts[s].calls[c] = events[k].seq BY <1>15, <3>1
    <3>4. Came(s)[c] = events[k].seq BY <1>11, <3>2, <3>3
    <3>5. new.scripts[s].calls[c] = Came(s)[c] BY <1>4, <1>5, <1>8, <3>2
    <3>6. QED BY <3>1, <3>4, <3>5
  <2>3. SUFFICES ASSUME NEW k \in Fed \cup {n + 1}
                 PROVE  new.scripts[more[k][1]].calls[more[k][2]] = Append(events, e)[k].seq
    OBVIOUS
  <2>4. CASE k \in Fed
    <3>1. more[k] = spot[k] /\ Append(events, e)[k] = events[k] BY <1>3, <1>17, <2>4
    <3>2. QED BY <2>2, <2>4, <3>1
  <2>5. CASE k = n + 1
    <3>1. more[k] = <<site, m>> /\ Append(events, e)[k] = e BY <1>3, <1>17, <2>5
    <3>2. more[k][1] = site /\ more[k][2] = m BY <3>1
    <3>3. QED BY <2>1, <3>1, <3>2
  <2>6. QED BY <2>4, <2>5
<1>20. \A k, l \in Fed \cup {n + 1} :
         k < l => more[k][1] # more[l][1] \/ more[k][2] < more[l][2]
  <2> SUFFICES ASSUME NEW k \in Fed \cup {n + 1}, NEW l \in Fed \cup {n + 1}, k < l,
                      more[k][1] = more[l][1]
               PROVE  more[k][2] < more[l][2]
    OBVIOUS
  <2>1. k \in Fed BY <1>1
  <2>2. CASE l \in Fed BY <1>15, <1>17, <2>1, <2>2
  <2>3. CASE l = n + 1
    <3>1. spot[k][1] = site BY <1>17, <2>1, <2>3
    <3>2. spot[k][2] \in DOMAIN Came(site) BY <1>16, <2>1, <3>1
    <3>3. QED BY <1>13, <1>17, <2>1, <2>3, <3>2
  <2>4. QED BY <2>2, <2>3
<1>21. PICK F, S : F = Fed \cup {n + 1} /\ S = Spots \cup {<<site, m>>} OBVIOUS
<1>22. /\ more \in [F -> S] /\ \A x \in S : \E k \in F : more[k] = x
       /\ \A k \in F : new.scripts[more[k][1]].calls[more[k][2]] = Append(events, e)[k].seq
       /\ \A k, l \in F : k < l => more[k][1] # more[l][1] \/ more[k][2] < more[l][2]
  BY <1>17, <1>18, <1>19, <1>20, <1>21
<1>23. CallsFed(Append(events, e)) = F /\ CallsShown(new) = S
  BY <1>2, <1>14, <1>21
<1>24. QED BY <1>22, <1>23 DEF ShowsCalls

-------------------------------------------------------------------------------
(* The tokens. *)
Gives(e, count) ==
  e.kind = "usage" /\ e.reported # <<>> /\ e.reported[1][count] # <<>>
Amount(e, count) == IF Gives(e, count) THEN e.reported[1][count][1] ELSE 0
Sides == {"input", "output"}

LEMMA Options ==
  ASSUME NEW S, NEW s \in Option(S), s # <<>>
  PROVE  s = <<s[1]>> /\ s[1] \in S
<1>1. s \in Seq(S) /\ Len(s) <= 1 BY DEF Option
<1>2. Len(s) \in Nat /\ (Len(s) = 0 => s = <<>>) BY <1>1
<1>3. Len(s) # 0 BY <1>2
<1>4. \A l \in Nat : l <= 1 /\ l # 0 => l = 1 OBVIOUS
<1>5. Len(s) = 1 BY <1>1, <1>2, <1>3, <1>4
<1>6. QED BY <1>1, <1>5

LEMMA Reported ==
  ASSUME NEW e \in Event, NEW count \in Sides, e.kind = "usage", e.reported # <<>>
  PROVE  /\ e.reported[1] \in [input : Counts, output : Counts]
         /\ e.reported[1][count] \in Counts
<1>1. e.reported \in Option([input : Counts, output : Counts]) BY EventKinds
<1>2. e.reported[1] \in [input : Counts, output : Counts] BY <1>1, Options
<1>3. QED BY <1>2 DEF Sides

LEMMA AmountIsNat ==
  ASSUME NEW e \in Event, NEW count \in Sides
  PROVE  Amount(e, count) \in Nat
<1>1. CASE Gives(e, count)
  <2>1. e.reported[1][count] \in Counts /\ e.reported[1][count] # <<>>
    BY <1>1, Reported DEF Gives
  <2>2. e.reported[1][count][1] \in Nat BY <2>1, Options DEF Counts
  <2>3. QED BY <1>1, <2>2 DEF Amount
<1>2. CASE ~Gives(e, count) BY <1>2 DEF Amount
<1>3. QED BY <1>1, <1>2

LEMMA AmountsAre ==
  ASSUME NEW events \in Seq(Event), NEW count \in Sides
  PROVE  /\ Amounts(events, count) \in Seq(Nat)
         /\ Len(Amounts(events, count)) = Len(events)
         /\ \A k \in 1 .. Len(events) :
              Amounts(events, count)[k] = Amount(events[k], count)
<1>1. DOMAIN events = 1 .. Len(events) /\ Len(events) \in Nat
      /\ \A k \in 1 .. Len(events) : events[k] \in Event
  OBVIOUS
<1>2. \A k \in 1 .. Len(events) :
        k \in Reporting(events, count) <=> Gives(events[k], count)
  BY <1>1 DEF Reporting, Gives
<1>3. \A k \in 1 .. Len(events) :
        (IF k \in Reporting(events, count) THEN events[k].reported[1][count][1] ELSE 0)
          = Amount(events[k], count)
  BY <1>2 DEF Amount
<1>4. Amounts(events, count) = [k \in 1 .. Len(events) |-> Amount(events[k], count)]
  BY <1>1, <1>3 DEF Amounts
<1>5. \A k \in 1 .. Len(events) : Amount(events[k], count) \in Nat BY <1>1, AmountIsNat
<1>6. QED BY <1>1, <1>4, <1>5

LEMMA SumOfIs ==
  ASSUME NEW amounts, Len(amounts) \in Nat
  PROVE  \E f : Sums(f, amounts, Len(amounts)) /\ SumOf(amounts) = f[Len(amounts)]
<1> DEFINE sum[k \in 0 .. Len(amounts)] == IF k = 0 THEN 0 ELSE sum[k - 1] + amounts[k]
<1>1. \E f : Sums(f, amounts, Len(amounts)) BY SumsExist
<1>2. Sums(sum, amounts, Len(amounts)) BY <1>1 DEF Sums
<1>3. SumOf(amounts) = sum[Len(amounts)] BY DEF SumOf
<1>4. QED BY <1>2, <1>3

LEMMA SumAfter ==
  ASSUME NEW events \in Seq(Event), NEW e \in Event, NEW count \in Sides
  PROVE  /\ SumOf(Amounts(events, count)) \in Nat
         /\ SumOf(Amounts(Append(events, e), count)) =
              SumOf(Amounts(events, count)) + Amount(e, count)
<1> DEFINE n == Len(events)
           a == Amounts(events, count)
           b == Amounts(Append(events, e), count)
<1>1. /\ n \in Nat /\ Append(events, e) \in Seq(Event) /\ Len(Append(events, e)) = n + 1
      /\ Append(events, e)[n + 1] = e
      /\ \A i \in 1 .. n : Append(events, e)[i] = events[i]
  BY Appended
<1>2. /\ a \in Seq(Nat) /\ Len(a) = n /\ \A k \in 1 .. n : a[k] = Amount(events[k], count)
  BY AmountsAre
<1>3. /\ b \in Seq(Nat) /\ Len(b) = n + 1
      /\ \A k \in 1 .. n + 1 : b[k] = Amount(Append(events, e)[k], count)
  BY <1>1, AmountsAre
<1> HIDE DEF n, a, b
<1>4. \A k \in 1 .. n : a[k] \in Nat BY <1>2
<1>5. \A k \in 1 .. n : a[k] = b[k]
  <2>1. \A k \in 1 .. n : k \in 1 .. n + 1 BY <1>1
  <2>2. QED BY <1>1, <1>2, <1>3, <2>1
<1>6. b[n + 1] = Amount(e, count)
  <2>1. n + 1 \in 1 .. n + 1 BY <1>1
  <2>2. QED BY <1>1, <1>3, <2>1
<1>7. PICK f : Sums(f, a, n) /\ SumOf(a) = f[n] BY <1>1, <1>2, SumOfIs
<1>8. PICK g : Sums(g, b, n + 1) /\ SumOf(b) = g[n + 1] BY <1>1, <1>3, SumOfIs
<1>9. f[n] \in Nat
  <2>1. \A i \in 0 .. n : f[i] \in Nat BY <1>1, <1>4, <1>7, SumsAreNumbers
  <2>2. QED BY <1>1, <2>1
<1>10. g[n] = f[n] BY <1>1, <1>5, <1>7, <1>8, SumsAgree
<1>11. g[n + 1] = g[n] + b[n + 1]
  <2>1. n + 1 \in Nat /\ n + 1 \in 0 .. n + 1 /\ n + 1 # 0 /\ (n + 1) - 1 = n BY <1>1
  <2>2. QED BY <1>8, <2>1, SumStep
<1>12. QED BY <1>6, <1>7, <1>8, <1>9, <1>10, <1>11 DEF a, b

LEMMA ReportingAfter ==
  ASSUME NEW events \in Seq(Event), NEW e \in Event, NEW count \in Sides
  PROVE  Reporting(Append(events, e), count) =
           IF Gives(e, count) THEN Reporting(events, count) \cup {Len(events) + 1}
           ELSE Reporting(events, count)
<1> DEFINE n == Len(events)
           more == Append(events, e)
<1>1. /\ DOMAIN events = 1 .. n /\ DOMAIN more = 1 .. n + 1 /\ n \in Nat
      /\ more[n + 1] = e /\ \A i \in 1 .. n : more[i] = events[i]
  BY Appended
<1> HIDE DEF n, more
<1>2. 1 .. n + 1 = (1 .. n) \cup {n + 1} /\ n + 1 \notin 1 .. n BY <1>1
<1>3. Reporting(more, count) = {k \in 1 .. n + 1 : Gives(more[k], count)}
  BY <1>1 DEF Reporting, Gives
<1>4. Reporting(events, count) = {k \in 1 .. n : Gives(events[k], count)}
  BY <1>1 DEF Reporting, Gives
<1>5. QED BY <1>1, <1>2, <1>3, <1>4 DEF n, more

(* Before anything is reported the sum is zero. *)
LEMMA NoneIsZero ==
  ASSUME NEW events \in Seq(Event), NEW count \in Sides,
         Reporting(events, count) = {}
  PROVE  SumOf(Amounts(events, count)) = 0
<1> DEFINE n == Len(events)
           a == Amounts(events, count)
<1>1. n \in Nat /\ DOMAIN events = 1 .. n OBVIOUS
<1>2. Len(a) = n /\ \A k \in 1 .. n : a[k] = Amount(events[k], count) BY AmountsAre
<1>3. \A k \in 1 .. n : ~Gives(events[k], count) BY <1>1 DEF Reporting, Gives
<1>4. \A k \in 1 .. n : a[k] = 0 BY <1>2, <1>3 DEF Amount
<1> HIDE DEF n, a
<1>5. PICK f : Sums(f, a, n) /\ SumOf(a) = f[n] BY <1>1, <1>2, SumOfIs
<1> DEFINE S == {i \in Nat : i <= n => f[i] = 0}
<1>6. 0 \in S
  <2>1. 0 \in 0 .. n BY <1>1
  <2>2. f[0] = IF 0 = 0 THEN 0 ELSE f[0 - 1] + a[0] BY <1>5, <2>1 DEF Sums
  <2>3. QED BY <2>2
<1>7. ASSUME NEW i \in Nat, i \in S, i + 1 <= n PROVE f[i + 1] = 0
  <2>1. i + 1 \in 0 .. n /\ i + 1 \in 1 .. n /\ i + 1 # 0 /\ (i + 1) - 1 = i /\ i <= n
    BY <1>1, <1>7
  <2>2. f[i + 1] = f[i] + a[i + 1] BY <1>1, <1>5, <2>1, SumStep
  <2>3. f[i] = 0 BY <1>7, <2>1
  <2>4. QED BY <1>4, <2>1, <2>2, <2>3
<1>8. \A i \in Nat : i \in S => i + 1 \in S BY <1>7
<1> HIDE DEF S
<1>9. n \in S BY <1>1, <1>6, <1>8, NumberInduction
<1>10. f[n] = 0 BY <1>1, <1>9 DEF S
<1>11. QED BY <1>5, <1>10 DEF a

LEMMA SilentAfter ==
  ASSUME NEW events \in Seq(Event), NEW e \in Event
  PROVE  /\ Cardinality(Silent(events)) \in Nat
         /\ Cardinality(Silent(Append(events, e))) =
              Cardinality(Silent(events)) +
                IF e.kind = "usage" /\ ~Gives(e, "input") /\ ~Gives(e, "output") THEN 1 ELSE 0
<1> DEFINE n == Len(events)
           more == Append(events, e)
           Unreported(event) ==
             event.kind = "usage" /\ ~Gives(event, "input") /\ ~Gives(event, "output")
<1>1. /\ DOMAIN events = 1 .. n /\ DOMAIN more = 1 .. n + 1 /\ n \in Nat
      /\ more[n + 1] = e /\ \A i \in 1 .. n : more[i] = events[i]
  BY Appended
<1>2. 1 .. n + 1 = (1 .. n) \cup {n + 1} /\ n + 1 \notin 1 .. n BY <1>1
<1> HIDE DEF n, more
<1>4. Silent(more) = {k \in 1 .. n + 1 : Unreported(more[k])}
  BY <1>1 DEF Silent, Reporting, Gives
<1>5. Silent(events) = {k \in 1 .. n : Unreported(events[k])}
  BY <1>1 DEF Silent, Reporting, Gives
<1> HIDE DEF Unreported
<1>6. Silent(more) = IF Unreported(e) THEN Silent(events) \cup {n + 1} ELSE Silent(events)
  BY <1>1, <1>2, <1>4, <1>5
<1>7. n + 1 \notin Silent(events) BY <1>2, <1>5
<1>8. IsFiniteSet(Silent(events))
  <2>1. IsFiniteSet(1 .. n) BY <1>1, FS_Interval
  <2>2. Silent(events) \in SUBSET (1 .. n) BY <1>5
  <2>3. QED BY <2>1, <2>2, FS_Subset
<1>9. Cardinality(Silent(events)) \in Nat BY <1>8, FS_CardinalityType
<1>10. Cardinality(Silent(events) \cup {n + 1}) = Cardinality(Silent(events)) + 1
  BY <1>7, <1>8, FS_AddElement
<1>11. Cardinality(Silent(more)) =
         Cardinality(Silent(events)) + IF Unreported(e) THEN 1 ELSE 0
  <2>1. CASE Unreported(e) BY <1>6, <1>10, <2>1
  <2>2. CASE ~Unreported(e) BY <1>6, <1>9, <2>2
  <2>3. QED BY <2>1, <2>2
<1>12. QED BY <1>9, <1>11 DEF more, Unreported

(* One side of a usage report. *)
LEMMA SideAfter ==
  ASSUME NEW events \in Seq(Event), NEW e \in Event, NEW count \in Sides,
         NEW total,
         total = IF Reporting(events, count) = {} THEN <<>>
                 ELSE <<SumOf(Amounts(events, count))>>
  PROVE  LET more == Append(events, e)
             after == IF Gives(e, count)
                      THEN AddReported(total, e.reported[1][count]) ELSE total
         IN  after = IF Reporting(more, count) = {} THEN <<>>
                     ELSE <<SumOf(Amounts(more, count))>>
<1> DEFINE more == Append(events, e)
           was == SumOf(Amounts(events, count))
           is == SumOf(Amounts(more, count))
<1>1. was \in Nat /\ is = was + Amount(e, count) BY SumAfter
<1>2. Reporting(more, count) =
        IF Gives(e, count) THEN Reporting(events, count) \cup {Len(events) + 1}
        ELSE Reporting(events, count)
  BY ReportingAfter
<1>3. Reporting(events, count) = {} => was = 0 BY NoneIsZero
<1>4. total = IF Reporting(events, count) = {} THEN <<>> ELSE <<was>> OBVIOUS
<1> HIDE DEF more, was, is
<1>5. CASE Gives(e, count)
  <2>1. AddReported(total, e.reported[1][count]) =
          <<(IF total = <<>> THEN 0 ELSE total[1]) + e.reported[1][count][1]>>
    BY <1>5 DEF AddReported, Gives
  <2>2. Amount(e, count) = e.reported[1][count][1] BY <1>5 DEF Amount
  <2>3. (IF total = <<>> THEN 0 ELSE total[1]) = was
    <3>1. CASE Reporting(events, count) = {} BY <1>3, <1>4, <3>1
    <3>2. CASE Reporting(events, count) # {}
      <4>1. total = <<was>> BY <1>4, <3>2
      <4>2. <<was>> # <<>> /\ <<was>>[1] = was OBVIOUS
      <4>3. QED BY <4>1, <4>2
    <3>3. QED BY <3>1, <3>2
  <2>4. AddReported(total, e.reported[1][count]) = <<is>> BY <1>1, <2>1, <2>2, <2>3
  <2>5. Reporting(more, count) # {} BY <1>2, <1>5
  <2>6. QED BY <1>5, <2>4, <2>5 DEF more, is
<1>6. CASE ~Gives(e, count)
  <2>1. is = was BY <1>1, <1>6 DEF Amount
  <2>2. QED BY <1>2, <1>4, <1>6, <2>1 DEF more, is
<1>7. QED BY <1>5, <1>6

(* What accounting for an event does to the tokens. *)
LEMMA AccountIs ==
  ASSUME NEW tokens \in [input : Counts, output : Counts, unreported : Nat],
         NEW e \in Event, e.kind = "usage"
  PROVE  LET after == Account(tokens, e.reported)
         IN  /\ \A count \in Sides :
                  after[count] = IF Gives(e, count)
                                 THEN AddReported(tokens[count], e.reported[1][count])
                                 ELSE tokens[count]
             /\ after.unreported = tokens.unreported +
                  IF ~Gives(e, "input") /\ ~Gives(e, "output") THEN 1 ELSE 0
             /\ after \in [input : Counts, output : Counts, unreported : Nat]
<1> DEFINE after == Account(tokens, e.reported)
           u == e.reported[1]
<1>1. CASE e.reported = <<>>
  <2>1. after = [tokens EXCEPT !.unreported = @ + 1] BY <1>1 DEF Account
  <2>2. ~Gives(e, "input") /\ ~Gives(e, "output") BY <1>1 DEF Gives
  <2>3. after.unreported = tokens.unreported + 1 /\ after.input = tokens.input
        /\ after.output = tokens.output
    BY <2>1
  <2>4. tokens.unreported \in Nat OBVIOUS
  <2>5. after \in [input : Counts, output : Counts, unreported : Nat] BY <2>1, <2>4
  <2>6. QED BY <2>2, <2>3, <2>5 DEF Sides
<1>2. CASE e.reported # <<>>
  <2>1. after = [input |-> AddReported(tokens.input, u.input),
                 output |-> AddReported(tokens.output, u.output),
                 unreported |-> tokens.unreported +
                                  IF u.input = <<>> /\ u.output = <<>> THEN 1 ELSE 0]
    BY <1>2 DEF Account
  <2>2. u.input \in Counts /\ u.output \in Counts BY <1>2, Reported DEF Sides
  <2>3. (Gives(e, "input") <=> u.input # <<>>) /\ (Gives(e, "output") <=> u.output # <<>>)
    BY <1>2 DEF Gives
  <2>4. ASSUME NEW total \in Counts, NEW count \in Counts
        PROVE  /\ AddReported(total, count) \in Counts
               /\ count = <<>> => AddReported(total, count) = total
    <3>1. CASE count = <<>> BY <3>1 DEF AddReported
    <3>2. CASE count # <<>>
      <4>1. count[1] \in Nat BY <3>2, Options DEF Counts
      <4>2. (IF total = <<>> THEN 0 ELSE total[1]) \in Nat BY Options DEF Counts
      <4>3. PICK sum \in Nat : sum = (IF total = <<>> THEN 0 ELSE total[1]) + count[1]
        BY <4>1, <4>2
      <4>4. AddReported(total, count) = <<sum>> BY <3>2, <4>3 DEF AddReported
      <4>5. <<sum>> \in Seq(Nat) /\ Len(<<sum>>) <= 1 BY <4>3
      <4>6. QED BY <3>2, <4>4, <4>5 DEF Counts, Option
    <3>3. QED BY <3>1, <3>2
  <2>5. tokens.input \in Counts /\ tokens.output \in Counts /\ tokens.unreported \in Nat OBVIOUS
  <2>6. after.input = IF Gives(e, "input")
                      THEN AddReported(tokens.input, u.input) ELSE tokens.input
    BY <2>1, <2>2, <2>3, <2>4, <2>5
  <2>7. after.output = IF Gives(e, "output")
                       THEN AddReported(tokens.output, u.output) ELSE tokens.output
    BY <2>1, <2>2, <2>3, <2>4, <2>5
  <2>8. after.unreported = tokens.unreported +
          IF ~Gives(e, "input") /\ ~Gives(e, "output") THEN 1 ELSE 0
    BY <2>1, <2>3
  <2>9. (tokens.unreported + IF u.input = <<>> /\ u.output = <<>> THEN 1 ELSE 0) \in Nat
    BY <2>5
  <2>10. after \in [input : Counts, output : Counts, unreported : Nat]
    BY <2>1, <2>2, <2>4, <2>5, <2>9
  <2>11. QED BY <2>6, <2>7, <2>8, <2>10 DEF Sides
<1>3. QED BY <1>1, <1>2

LEMMA UsageMore ==
  ASSUME NEW old \in Turns, NEW new,
         NEW events \in Seq(Event), NEW e \in Event,
         new.tokens = IF e.kind = "usage" THEN Account(old.tokens, e.reported)
                      ELSE old.tokens,
         ShowsUsage(old, events)
  PROVE  ShowsUsage(new, Append(events, e))
<1>1. old.tokens \in [input : Counts, output : Counts, unreported : Nat] BY DEF Turns
<1>2. \A count \in Sides :
        new.tokens[count] = IF Gives(e, count)
                            THEN AddReported(old.tokens[count], e.reported[1][count])
                            ELSE old.tokens[count]
  <2>1. CASE e.kind = "usage" BY <1>1, <2>1, AccountIs
  <2>2. CASE e.kind # "usage" BY <2>2 DEF Gives
  <2>3. QED BY <2>1, <2>2
<1>3. \A count \in Sides :
        old.tokens[count] = IF Reporting(events, count) = {} THEN <<>>
                            ELSE <<SumOf(Amounts(events, count))>>
  BY DEF ShowsUsage, Sides
<1>4. \A count \in Sides :
        new.tokens[count] = IF Reporting(Append(events, e), count) = {} THEN <<>>
                            ELSE <<SumOf(Amounts(Append(events, e), count))>>
  BY <1>2, <1>3, SideAfter
<1>5. new.tokens.unreported = old.tokens.unreported +
        IF e.kind = "usage" /\ ~Gives(e, "input") /\ ~Gives(e, "output") THEN 1 ELSE 0
  <2>1. CASE e.kind = "usage" BY <1>1, <2>1, AccountIs
  <2>2. CASE e.kind # "usage"
    <3>1. old.tokens.unreported \in Nat BY <1>1
    <3>2. QED BY <2>2, <3>1
  <2>3. QED BY <2>1, <2>2
<1>6. old.tokens.unreported = Cardinality(Silent(events))
  BY DEF ShowsUsage
<1>7. new.tokens.unreported = Cardinality(Silent(Append(events, e)))
  BY <1>5, <1>6, SilentAfter
<1>8. QED BY <1>4, <1>7 DEF ShowsUsage, Sides

-------------------------------------------------------------------------------
(* One event more, folded into the turn it is fed to. *)
Shows(turn, events) == ShowsCalls(turn, events) /\ ShowsUsage(turn, events)

LEMMA TurnsEdited ==
  ASSUME NEW turn \in Turns
  PROVE  /\ \A scripts \in Seq(Scripts) :
              /\ [turn EXCEPT !.scripts = scripts] \in Turns
              /\ [turn EXCEPT !.scripts = scripts].scripts = scripts
              /\ [turn EXCEPT !.scripts = scripts].tokens = turn.tokens
              /\ [turn EXCEPT !.scripts = scripts].status = turn.status
         /\ \A tokens \in [input : Counts, output : Counts, unreported : Nat] :
              /\ [turn EXCEPT !.tokens = tokens] \in Turns
              /\ [turn EXCEPT !.tokens = tokens].scripts = turn.scripts
              /\ [turn EXCEPT !.tokens = tokens].tokens = tokens
              /\ [turn EXCEPT !.tokens = tokens].status = turn.status
         /\ \A status \in Statuses :
              /\ [turn EXCEPT !.status = status] \in Turns
              /\ [turn EXCEPT !.status = status].scripts = turn.scripts
              /\ [turn EXCEPT !.status = status].tokens = turn.tokens
              /\ [turn EXCEPT !.status = status].status = status
BY DEF Turns

LEMMA CallsStay == ASSUME NEW turn \in Turns PROVE SameCalls(turn.scripts, turn.scripts)
BY DEF SameCalls, CallsBefore

LEMMA FoldShows ==
  ASSUME NEW turn \in Turns, NEW events \in Seq(Event), NEW e \in Event,
         Shows(turn, events)
  PROVE  /\ Fold(turn, e) \in Turns
         /\ Shows(Fold(turn, e), Append(events, e))
         /\ Fold(turn, e).status = IF e.kind = "finished" THEN e.status ELSE turn.status
<1> DEFINE new == Fold(turn, e)
<1>1. ShowsCalls(turn, events) /\ ShowsUsage(turn, events) BY DEF Shows
<1>2. turn.scripts \in Seq(Scripts)
      /\ turn.tokens \in [input : Counts, output : Counts, unreported : Nat]
  BY DEF Turns
<1>3. ASSUME NEW scripts \in Seq(Scripts), new = [turn EXCEPT !.scripts = scripts],
             e.kind \notin {"usage", "finished"},
             \/ e.kind # "call" /\ SameCalls(turn.scripts, scripts)
             \/ e.kind = "call" /\ OneCallMore(turn.scripts, scripts, e.seq)
      PROVE  new \in Turns /\ Shows(new, Append(events, e))
             /\ new.status = IF e.kind = "finished" THEN e.status ELSE turn.status
  <2>1. new \in Turns /\ new.scripts = scripts /\ new.tokens = turn.tokens
        /\ new.status = turn.status
    BY <1>3, TurnsEdited
  <2> HIDE DEF new
  <2>2. new.tokens = IF e.kind = "usage" THEN Account(turn.tokens, e.reported)
                     ELSE turn.tokens
    BY <1>3, <2>1
  <2>3. ShowsUsage(new, Append(events, e)) BY <1>1, <2>1, <2>2, UsageMore
  <2>4. CASE e.kind # "call"
    <3>1. SameCalls(turn.scripts, new.scripts) BY <1>3, <2>1, <2>4
    <3>2. ShowsCalls(new, Append(events, e)) BY <1>1, <2>1, <2>4, <3>1, NoCallMore
    <3>3. QED BY <1>3, <2>1, <2>3, <3>2 DEF Shows
  <2>5. CASE e.kind = "call"
    <3>1. OneCallMore(turn.scripts, new.scripts, e.seq) BY <1>3, <2>1, <2>5
    <3>2. ShowsCalls(new, Append(events, e)) BY <1>1, <2>1, <2>5, <3>1, CallMore
    <3>3. QED BY <1>3, <2>1, <2>3, <3>2 DEF Shows
  <2>6. QED BY <2>4, <2>5
<1>4. CASE e.kind = "started"
  <2>1. e.seq \in Nat BY <1>4, EventKinds
  <2>2. PICK node : node = Node(e.seq, <<>>, FALSE) OBVIOUS
  <2>3. node \in Scripts /\ node.calls = <<>> BY <2>1, <2>2 DEF Node, Scripts
  <2>4. new = [turn EXCEPT !.scripts = Append(turn.scripts, node)] BY <1>4, <2>2, FoldKinds
  <2>5. Append(turn.scripts, node) \in Seq(Scripts)
        /\ SameCalls(turn.scripts, Append(turn.scripts, node))
    BY <1>2, <2>3, NewScript
  <2> HIDE DEF new
  <2>6. e.kind \notin {"usage", "finished"} /\ e.kind # "call" BY <1>4
  <2>7. QED BY <1>3, <2>4, <2>5, <2>6 DEF new
<1>5. CASE e.kind = "call"
  <2>1. e.seq \in Nat BY <1>5, EventKinds
  <2>2. PICK scripts : scripts = FileCall(turn.scripts, e.seq) OBVIOUS
  <2>3. scripts \in Seq(Scripts) /\ OneCallMore(turn.scripts, scripts, e.seq)
    BY <1>2, <2>1, <2>2, CallFiled
  <2>4. new = [turn EXCEPT !.scripts = scripts] BY <1>5, <2>2, FoldKinds
  <2> HIDE DEF new
  <2>5. e.kind \notin {"usage", "finished"} BY <1>5
  <2>6. QED BY <1>3, <1>5, <2>3, <2>4, <2>5 DEF new
<1>6. CASE e.kind = "over"
  <2>1. e.seq \in Nat BY <1>6, EventKinds
  <2>2. PICK scripts : scripts = CloseScript(turn.scripts, e.seq) OBVIOUS
  <2>3. scripts \in Seq(Scripts) /\ SameCalls(turn.scripts, scripts)
    BY <1>2, <2>1, <2>2, ScriptClosed
  <2>4. new = [turn EXCEPT !.scripts = scripts] BY <1>6, <2>2, FoldKinds
  <2> HIDE DEF new
  <2>5. e.kind \notin {"usage", "finished"} /\ e.kind # "call" BY <1>6
  <2>6. QED BY <1>3, <2>3, <2>4, <2>5 DEF new
<1>7. CASE e.kind = "usage"
  <2>1. PICK tokens : tokens = Account(turn.tokens, e.reported) OBVIOUS
  <2>2. tokens \in [input : Counts, output : Counts, unreported : Nat]
    BY <1>2, <1>7, <2>1, AccountIs
  <2>3. new = [turn EXCEPT !.tokens = tokens] BY <1>7, <2>1, FoldKinds
  <2>4. new \in Turns /\ new.scripts = turn.scripts /\ new.tokens = tokens
        /\ new.status = turn.status
    BY <2>2, <2>3, TurnsEdited
  <2> HIDE DEF new
  <2>5. ShowsUsage(new, Append(events, e)) BY <1>1, <1>7, <2>1, <2>4, UsageMore
  <2>6. SameCalls(turn.scripts, new.scripts) /\ e.kind # "call" BY <1>7, <2>4, CallsStay
  <2>7. ShowsCalls(new, Append(events, e)) BY <1>1, <2>4, <2>6, NoCallMore
  <2>8. QED BY <1>7, <2>4, <2>5, <2>7 DEF Shows, new
<1>8. CASE e.kind = "finished"
  <2>1. e.status \in Statuses BY <1>8, EventKinds DEF Statuses
  <2>2. new = [turn EXCEPT !.status = e.status] BY <1>8, FoldKinds
  <2>3. new \in Turns /\ new.scripts = turn.scripts /\ new.tokens = turn.tokens
        /\ new.status = e.status
    BY <2>1, <2>2, TurnsEdited
  <2> HIDE DEF new
  <2>4. new.tokens = IF e.kind = "usage" THEN Account(turn.tokens, e.reported)
                     ELSE turn.tokens
    BY <1>8, <2>3
  <2>5. ShowsUsage(new, Append(events, e)) BY <1>1, <2>3, <2>4, UsageMore
  <2>6. SameCalls(turn.scripts, new.scripts) /\ e.kind # "call" BY <1>8, <2>3, CallsStay
  <2>7. ShowsCalls(new, Append(events, e)) BY <1>1, <2>3, <2>6, NoCallMore
  <2>8. QED BY <1>8, <2>3, <2>5, <2>7 DEF Shows, new
<1>9. QED BY <1>4, <1>5, <1>6, <1>7, <1>8, EventKinds

LEMMA NothingYet ==
  ASSUME NEW n \in Nat
  PROVE  /\ Opened(n) \in Turns /\ Opened(n).status = "running"
         /\ Shows(Opened(n), <<>>)
<1> DEFINE turn == Opened(n)
<1>1. /\ turn.scripts = <<>> /\ turn.tokens = [input |-> <<>>, output |-> <<>>, unreported |-> 0]
      /\ turn.status = "running"
  BY DEF Opened
<1>2. turn \in Turns
  <2>1. <<>> \in Counts BY DEF Counts, Option
  <2>2. <<>> \in Seq(Scripts) OBVIOUS
  <2>3. turn.tokens \in [input : Counts, output : Counts, unreported : Nat]
    BY <1>1, <2>1
  <2>4. turn = [prompt |-> n, scripts |-> <<>>, status |-> "running", tokens |-> turn.tokens,
                stop |-> FALSE, window |-> TRUE]
    BY DEF Opened
  <2>5. "running" \in Statuses BY DEF Statuses
  <2>6. PICK tokens, scripts, status :
          tokens = turn.tokens /\ scripts = turn.scripts /\ status = turn.status
    OBVIOUS
  <2>7. tokens \in [input : Counts, output : Counts, unreported : Nat]
        /\ scripts \in Seq(Scripts) /\ status \in Statuses
    BY <1>1, <2>2, <2>3, <2>5, <2>6
  <2>8. turn = [prompt |-> n, scripts |-> scripts, status |-> status, tokens |-> tokens,
                stop |-> FALSE, window |-> TRUE]
    BY <1>1, <2>4, <2>6
  <2> HIDE DEF turn
  <2>9. QED BY <2>7, <2>8 DEF Turns
<1> HIDE DEF turn
<1>3. CallsFed(<<>>) = {} /\ CallsShown(turn) = {}
  <2>1. DOMAIN <<>> = {} OBVIOUS
  <2>2. QED BY <1>1, <2>1, SpotsOf DEF CallsFed
<1>4. ShowsCalls(turn, <<>>)
  <2>1. [k \in {} |-> k] \in [{} -> {}] OBVIOUS
  <2>2. QED BY <1>3, <2>1 DEF ShowsCalls
<1>5. Silent(<<>>) = {} /\ \A count : Reporting(<<>>, count) = {}
  BY DEF Silent, Reporting
<1>6. Cardinality({}) = 0
  BY FS_EmptySet DEF Cardinality, Cardinality
<1>7. ShowsUsage(turn, <<>>)
  <2>1. turn.tokens.unreported = 0 /\ \A count \in Sides : turn.tokens[count] = <<>>
    BY <1>1 DEF Sides
  <2>2. QED BY <1>5, <1>6, <2>1 DEF ShowsUsage, Sides
<1>8. QED BY <1>1, <1>2, <1>4, <1>7 DEF Shows, turn

-------------------------------------------------------------------------------
(* The turn that accepts events is the latest of those whose end has not   *)
(* been fed, and each turn shows what was fed to it.                       *)
FoldTyped ==
  /\ transcript \in Seq(Turns) /\ fed \in Seq(Seq(Event))
  /\ Len(fed) = Len(transcript) /\ unclosed \in Seq(Nat)
IsUnclosed(i) == \E j \in 1 .. Len(unclosed) : unclosed[j] = i
Stacked ==
  /\ \A j \in 1 .. Len(unclosed) : unclosed[j] \in 1 .. Len(transcript)
  /\ \A j, k \in 1 .. Len(unclosed) : j < k => unclosed[j] < unclosed[k]
  /\ \A i \in 1 .. Len(transcript) : transcript[i].status = "running" <=> IsUnclosed(i)
FoldInv ==
  /\ FoldTyped /\ Stacked
  /\ \A i \in 1 .. Len(transcript) : Shows(transcript[i], fed[i])

LEMMA AcceptsLast ==
  ASSUME FoldInv
  PROVE  /\ unclosed = <<>> => RunningTurn(transcript) = 0
         /\ unclosed # <<>> =>
              /\ RunningTurn(transcript) = Last(unclosed)
              /\ Last(unclosed) \in 1 .. Len(transcript)
              /\ Len(unclosed) \in 1 .. Len(unclosed)
              /\ unclosed[Len(unclosed)] = Last(unclosed)
<1> DEFINE I == {i \in 1 .. Len(transcript) : transcript[i].status = "running"}
<1>1. RunningTurn(transcript) = IF I # {} THEN Max(I) ELSE 0
  BY DEF RunningTurn, SelectLastInSeq
<1>2. Len(transcript) \in Nat /\ I \in SUBSET (1 .. Len(transcript)) BY DEF FoldInv, FoldTyped
<1>3. \A i : i \in I <=> i \in 1 .. Len(transcript) /\ IsUnclosed(i) BY DEF FoldInv, Stacked
<1>4. \A i : i \in I <=> IsUnclosed(i) BY <1>3 DEF FoldInv, Stacked, IsUnclosed
<1>5. Len(unclosed) \in Nat /\ (Len(unclosed) = 0 <=> unclosed = <<>>) BY DEF FoldInv, FoldTyped
<1> HIDE DEF I
<1>6. CASE unclosed = <<>>
  <2>1. 1 .. Len(unclosed) = {} BY <1>5, <1>6
  <2>2. I = {} BY <1>4, <2>1 DEF IsUnclosed
  <2>3. QED BY <1>1, <1>6, <2>2
<1>7. CASE unclosed # <<>>
  <2>1. Len(unclosed) # 0 BY <1>5, <1>7
  <2>2. Len(unclosed) \in 1 .. Len(unclosed) BY <1>5, <2>1
  <2>3. PICK latest : latest = unclosed[Len(unclosed)] OBVIOUS
  <2>4. Last(unclosed) = latest BY <2>3 DEF Last
  <2>5. IsUnclosed(latest) BY <2>2, <2>3 DEF IsUnclosed
  <2>6. latest \in I /\ latest \in 1 .. Len(transcript) BY <1>2, <1>4, <2>5
  <2>7. \A i \in I : i <= latest
    <3> SUFFICES ASSUME NEW i \in I PROVE i <= latest OBVIOUS
    <3>1. PICK j \in 1 .. Len(unclosed) : unclosed[j] = i BY <1>4 DEF IsUnclosed
    <3>2. CASE j = Len(unclosed)
      <4>1. i = latest BY <2>3, <3>1, <3>2
      <4>2. QED BY <2>6, <4>1
    <3>3. CASE j # Len(unclosed)
      <4>1. j < Len(unclosed) BY <1>5, <3>3
      <4>2. unclosed[j] < unclosed[Len(unclosed)] BY <2>2, <4>1 DEF FoldInv, Stacked
      <4>3. i \in Nat /\ latest \in Nat BY <1>2, <2>6
      <4>4. QED BY <2>3, <3>1, <4>2, <4>3
    <3>4. QED BY <3>2, <3>3
  <2>8. Max(I) \in I /\ \A i \in I : i <= Max(I) BY <1>2, <2>6, EndsOf
  <2>9. Max(I) = latest
    <3>1. PICK m : m = Max(I) OBVIOUS
    <3>2. m \in I BY <2>8, <3>1
    <3>3. m <= latest BY <2>7, <3>2
    <3>4. latest <= m BY <2>6, <2>8, <3>1
    <3>5. m \in Nat /\ latest \in Nat BY <1>2, <2>6, <3>2
    <3>6. m = latest BY <3>3, <3>4, <3>5
    <3>7. QED BY <3>1, <3>6
  <2>10. RunningTurn(transcript) = latest BY <1>1, <2>6, <2>9
  <2>11. QED BY <1>7, <2>2, <2>3, <2>4, <2>6, <2>10
<1>8. QED BY <1>6, <1>7

LEMMA FoldInit == Init => FoldInv
<1> SUFFICES ASSUME Init PROVE FoldInv OBVIOUS
<1>1. transcript = <<>> /\ unclosed = <<>> /\ fed = <<>> BY DEF Init
<1>2. FoldTyped BY <1>1 DEF FoldTyped
<1>3. 1 .. Len(transcript) = {} /\ 1 .. Len(unclosed) = {} BY <1>1
<1>4. QED BY <1>2, <1>3 DEF FoldInv, Stacked

LEMMA AskShows == ASSUME FoldInv, Ask PROVE FoldInv'
<1> DEFINE n == Len(transcript)
           turn == Opened(n + 1)
<1>1. n \in Nat /\ n + 1 \in Nat BY DEF FoldInv, FoldTyped
<1>2. turn \in Turns /\ turn.status = "running" /\ Shows(turn, <<>>) BY <1>1, NothingYet
<1>3. /\ transcript' = Append(transcript, turn) /\ unclosed' = Append(unclosed, n + 1)
      /\ fed' = Append(fed, <<>>)
  BY DEF Ask, OpenTurn
<1>4. /\ transcript' \in Seq(Turns) /\ Len(transcript') = n + 1 /\ transcript'[n + 1] = turn
      /\ \A i \in 1 .. n : transcript'[i] = transcript[i]
  <2>1. transcript \in Seq(Turns) BY DEF FoldInv, FoldTyped
  <2> HIDE DEF turn
  <2>2. QED BY <1>2, <1>3, <2>1, Appended
<1>5. /\ fed' \in Seq(Seq(Event)) /\ Len(fed') = n + 1 /\ fed'[n + 1] = <<>>
      /\ \A i \in 1 .. n : fed'[i] = fed[i]
  <2>1. fed \in Seq(Seq(Event)) /\ Len(fed) = n BY DEF FoldInv, FoldTyped
  <2>2. <<>> \in Seq(Event) OBVIOUS
  <2>3. QED BY <1>3, <2>1, <2>2, Appended
<1> DEFINE m == Len(unclosed)
<1>6. /\ m \in Nat /\ unclosed' \in Seq(Nat) /\ Len(unclosed') = m + 1
      /\ unclosed'[m + 1] = n + 1 /\ \A j \in 1 .. m : unclosed'[j] = unclosed[j]
  <2>1. unclosed \in Seq(Nat) BY DEF FoldInv, FoldTyped
  <2>2. QED BY <1>1, <1>3, <2>1, Appended
<1>7. \A j \in 1 .. m : unclosed[j] \in 1 .. n BY DEF FoldInv, Stacked
<1>8. \A j, k \in 1 .. m : j < k => unclosed[j] < unclosed[k] BY DEF FoldInv, Stacked
<1>9. \A i \in 1 .. n : transcript[i].status = "running" <=> IsUnclosed(i)
  BY DEF FoldInv, Stacked
<1>10. \A i \in 1 .. n : Shows(transcript[i], fed[i]) BY DEF FoldInv
<1> HIDE DEF n, m, turn
<1>11. \A j \in 1 .. m + 1 : j \in 1 .. m \/ j = m + 1 BY <1>6
<1>12. \A i \in 1 .. n + 1 : i \in 1 .. n \/ i = n + 1 BY <1>1
<1>13. FoldTyped' BY <1>4, <1>5, <1>6 DEF FoldTyped
<1>14. \A j \in 1 .. m + 1 : unclosed'[j] \in 1 .. n + 1 BY <1>1, <1>6, <1>7, <1>11
<1>15. \A j, k \in 1 .. m + 1 : j < k => unclosed'[j] < unclosed'[k]
  <2> SUFFICES ASSUME NEW j \in 1 .. m + 1, NEW k \in 1 .. m + 1, j < k
               PROVE  unclosed'[j] < unclosed'[k]
    OBVIOUS
  <2>1. j \in 1 .. m BY <1>6
  <2>2. CASE k \in 1 .. m BY <1>6, <1>8, <2>1, <2>2
  <2>3. CASE k = m + 1
    <3>1. unclosed'[j] \in 1 .. n BY <1>6, <1>7, <2>1
    <3>2. unclosed'[k] = n + 1 BY <1>6, <2>3
    <3>3. QED BY <1>1, <3>1, <3>2
  <2>4. QED BY <1>11, <2>2, <2>3
<1>16. \A i \in 1 .. n + 1 : transcript'[i].status = "running" <=> IsUnclosed(i)'
  <2>1. \A i : IsUnclosed(i)' <=> IsUnclosed(i) \/ i = n + 1
    <3>1. \A i : IsUnclosed(i)' <=> \E j \in 1 .. m + 1 : unclosed'[j] = i
      BY <1>6 DEF IsUnclosed
    <3>2. \A i : IsUnclosed(i) <=> \E j \in 1 .. m : unclosed[j] = i BY DEF IsUnclosed, m
    <3>3. \A j \in 1 .. m : j \in 1 .. m + 1 BY <1>6
    <3>4. m + 1 \in 1 .. m + 1 BY <1>6
    <3>5. QED BY <1>6, <1>11, <3>1, <3>2, <3>3, <3>4
  <2> SUFFICES ASSUME NEW i \in 1 .. n + 1
               PROVE  transcript'[i].status = "running" <=> IsUnclosed(i)'
    OBVIOUS
  <2>2. CASE i \in 1 .. n
    <3>1. i # n + 1 BY <1>1, <2>2
    <3>2. QED BY <1>4, <1>9, <2>1, <2>2, <3>1
  <2>3. CASE i = n + 1 BY <1>2, <1>4, <2>1, <2>3
  <2>4. QED BY <1>12, <2>2, <2>3
<1>17. Stacked' BY <1>4, <1>6, <1>14, <1>15, <1>16 DEF Stacked
<1>18. \A i \in 1 .. n + 1 : Shows(transcript'[i], fed'[i])
  BY <1>2, <1>4, <1>5, <1>10, <1>12
<1>19. QED BY <1>4, <1>13, <1>17, <1>18 DEF FoldInv

LEMMA FrontIs ==
  ASSUME NEW s \in Seq(Nat), s # <<>>
  PROVE  /\ Len(s) \in Nat \ {0} /\ Front(s) \in Seq(Nat)
         /\ Len(Front(s)) = Len(s) - 1
         /\ \A j \in 1 .. Len(s) - 1 : Front(s)[j] = s[j]
<1>1. Len(s) \in Nat /\ (Len(s) = 0 => s = <<>>) OBVIOUS
<1>2. Len(s) # 0 BY <1>1
<1>3. Len(s) \in Nat \ {0} BY <1>1, <1>2
<1>4. Front(s) = SubSeq(s, 1, Len(s) - 1) BY DEF Front
<1>5. PICK l \in Nat : l = Len(s) - 1 BY <1>3
<1>6. l <= Len(s) BY <1>3, <1>5
<1>7. /\ SubSeq(s, 1, l) \in Seq(Nat) /\ Len(SubSeq(s, 1, l)) = l
      /\ \A j \in 1 .. l : SubSeq(s, 1, l)[j] = s[j]
  BY <1>1, <1>6
<1>8. QED BY <1>3, <1>4, <1>5, <1>7

LEMMA FeedShows == ASSUME Events \subseteq Event, FoldInv, NEW e \in Events, Feed(e) PROVE FoldInv'
<1>1. e \in Event OBVIOUS
<1>2. transcript' = Absorb(transcript, e) BY DEF Feed
<1>3. CASE unclosed = <<>>
  <2>1. UNCHANGED <<unclosed, fed>> BY <1>3 DEF Feed
  <2>2. RunningTurn(transcript) = 0 BY <1>3, AcceptsLast
  <2>3. transcript' = transcript BY <1>2, <2>2 DEF Absorb
  <2>4. QED BY <2>1, <2>3 DEF FoldInv, FoldTyped, Stacked, IsUnclosed
<1>4. CASE unclosed # <<>>
  <2> DEFINE n == Len(transcript)
             m == Len(unclosed)
  <2>1. PICK site : site = Last(unclosed) OBVIOUS
  <2>2. /\ RunningTurn(transcript) = site /\ site \in 1 .. n
        /\ m \in 1 .. m /\ unclosed[m] = site
    BY <1>4, <2>1, AcceptsLast
  <2>3. n \in Nat /\ Len(fed) = n /\ transcript \in Seq(Turns) /\ fed \in Seq(Seq(Event))
        /\ unclosed \in Seq(Nat) /\ m \in Nat
    BY DEF FoldInv, FoldTyped
  <2>4. site # 0 BY <2>2, <2>3
  <2>5. transcript' = [transcript EXCEPT ![site] = Fold(@, e)]
    BY <1>2, <2>2, <2>4 DEF Absorb
  <2>6. fed' = [fed EXCEPT ![site] = Append(@, e)]
        /\ unclosed' = IF e.kind = "finished" THEN Front(unclosed) ELSE unclosed
    BY <1>4, <2>1 DEF Feed
  <2>7. transcript[site] \in Turns /\ fed[site] \in Seq(Event) BY <2>2, <2>3
  <2>8. Shows(transcript[site], fed[site]) BY <2>2 DEF FoldInv
  <2>9. PICK turn : turn = Fold(transcript[site], e) OBVIOUS
  <2>10. PICK more : more = Append(fed[site], e) OBVIOUS
  <2>11. /\ turn \in Turns /\ Shows(turn, more)
         /\ turn.status = IF e.kind = "finished" THEN e.status ELSE transcript[site].status
    BY <1>1, <2>7, <2>8, <2>9, <2>10, FoldShows
  <2>12. more \in Seq(Event) BY <1>1, <2>7, <2>10, Appended
  <2>13. /\ transcript' \in Seq(Turns) /\ Len(transcript') = n /\ transcript'[site] = turn
         /\ \A i \in 1 .. n : i # site => transcript'[i] = transcript[i]
    BY <2>2, <2>3, <2>5, <2>9, <2>11
  <2>14. /\ fed' \in Seq(Seq(Event)) /\ Len(fed') = n /\ fed'[site] = more
         /\ \A i \in 1 .. n : i # site => fed'[i] = fed[i]
    BY <2>2, <2>3, <2>6, <2>10, <2>12
  <2>15. \A i \in 1 .. n : Shows(transcript[i], fed[i]) BY DEF FoldInv
  <2>16. \A j \in 1 .. m : unclosed[j] \in 1 .. n BY DEF FoldInv, Stacked
  <2>17. \A j, k \in 1 .. m : j < k => unclosed[j] < unclosed[k] BY DEF FoldInv, Stacked
  <2>18. \A i \in 1 .. n : transcript[i].status = "running" <=> IsUnclosed(i)
    BY DEF FoldInv, Stacked
  <2>19. \A i : IsUnclosed(i) <=> \E j \in 1 .. m : unclosed[j] = i BY DEF IsUnclosed
  <2> HIDE DEF n, m
  <2>20. IsUnclosed(site) BY <2>2, <2>19
  <2>21. \A i \in 1 .. n : Shows(transcript'[i], fed'[i])
    BY <2>11, <2>13, <2>14, <2>15
  <2>22. Stacked'
    <3>1. CASE e.kind = "finished"
      <4>1. unclosed' = Front(unclosed) BY <2>6, <3>1
      <4>2. Len(unclosed') = m - 1 /\ \A j \in 1 .. m - 1 : unclosed'[j] = unclosed[j]
        BY <1>4, <2>3, <4>1, FrontIs DEF m
      <4>3. \A j \in 1 .. m - 1 : j \in 1 .. m /\ j < m BY <2>3
      <4>4. \A j \in 1 .. m : j \in 1 .. m - 1 \/ j = m BY <2>3
      <4>5. \A i : IsUnclosed(i)' <=> \E j \in 1 .. m - 1 : unclosed'[j] = i
        BY <4>2 DEF IsUnclosed
      <4>6. \A i \in 1 .. n : IsUnclosed(i)' <=> IsUnclosed(i) /\ i # site
        <5> SUFFICES ASSUME NEW i \in 1 .. n PROVE IsUnclosed(i)' <=> IsUnclosed(i) /\ i # site
          OBVIOUS
        <5>1. ASSUME IsUnclosed(i)' PROVE IsUnclosed(i) /\ i # site
          <6>1. PICK j \in 1 .. m - 1 : unclosed'[j] = i BY <4>5, <5>1
          <6>2. unclosed[j] = i /\ j \in 1 .. m /\ j < m BY <4>2, <4>3, <6>1
          <6>3. unclosed[j] < unclosed[m] BY <2>2, <2>17, <6>2
          <6>4. i \in Nat /\ i < site BY <2>2, <6>2, <6>3
          <6>5. site \in Nat BY <2>2
          <6>6. i # site BY <6>4, <6>5
          <6>7. QED BY <2>19, <6>2, <6>6
        <5>2. ASSUME IsUnclosed(i), i # site PROVE IsUnclosed(i)'
          <6>1. PICK j \in 1 .. m : unclosed[j] = i BY <2>19, <5>2
          <6>2. j # m BY <2>2, <5>2, <6>1
          <6>3. j \in 1 .. m - 1 BY <4>4, <6>2
          <6>4. QED BY <4>2, <4>5, <6>1, <6>3
        <5>3. QED BY <5>1, <5>2
      <4>7. turn.status # "running" BY <1>1, <2>11, <3>1, EventKinds
      <4>8. \A i \in 1 .. n : transcript'[i].status = "running" <=> IsUnclosed(i)'
        BY <2>13, <2>18, <4>6, <4>7
      <4>9. \A j \in 1 .. m - 1 : unclosed'[j] \in 1 .. n BY <2>16, <4>2, <4>3
      <4>10. \A j, k \in 1 .. m - 1 : j < k => unclosed'[j] < unclosed'[k]
        BY <2>17, <4>2, <4>3
      <4>11. QED BY <2>13, <4>2, <4>8, <4>9, <4>10 DEF Stacked
    <3>2. CASE e.kind # "finished"
      <4>1. unclosed' = unclosed BY <2>6, <3>2
      <4>2. \A i : IsUnclosed(i)' <=> IsUnclosed(i) BY <4>1 DEF IsUnclosed
      <4>3. turn.status = transcript[site].status BY <2>11, <3>2
      <4>4. \A i \in 1 .. n : transcript'[i].status = "running" <=> IsUnclosed(i)'
        BY <2>13, <2>18, <4>2, <4>3
      <4>5. Len(unclosed') = m BY <4>1 DEF m
      <4>6. \A j \in 1 .. m : unclosed'[j] \in 1 .. n BY <2>16, <4>1
      <4>7. \A j, k \in 1 .. m : j < k => unclosed'[j] < unclosed'[k] BY <2>17, <4>1
      <4>8. QED BY <2>13, <4>4, <4>5, <4>6, <4>7 DEF Stacked
    <3>3. QED BY <3>1, <3>2
  <2>23. unclosed' \in Seq(Nat)
    <3>1. Front(unclosed) \in Seq(Nat) BY <1>4, <2>3, FrontIs
    <3>2. QED BY <2>3, <2>6, <3>1
  <2>24. FoldTyped' BY <2>13, <2>14, <2>23 DEF FoldTyped
  <2>25. QED BY <2>13, <2>21, <2>22, <2>24 DEF FoldInv
<1>5. QED BY <1>3, <1>4

LEMMA FoldNext ==
  ASSUME Events \subseteq Event PROVE FoldInv /\ [Next]_vars => FoldInv'
<1> SUFFICES ASSUME FoldInv, [Next]_vars PROVE FoldInv' OBVIOUS
<1>1. CASE Ask BY <1>1, AskShows
<1>2. ASSUME NEW e \in Events, Feed(e) PROVE FoldInv' BY <1>2, FeedShows
<1>3. CASE UNCHANGED vars
  BY <1>3 DEF vars, FoldInv, FoldTyped, Stacked, IsUnclosed
<1>4. CASE Quiet BY <1>3, <1>4 DEF Quiet
<1>5. QED BY <1>1, <1>2, <1>3, <1>4 DEF Next

(* However events come, each turn shows every call fed to it, once and in  *)
(* the order fed within its script, and the token counts reported          *)
(* (Turn::absorb, TurnTokens::absorb).                                     *)
THEOREM EverythingReportedIsShown ==
  ASSUME Events \subseteq Event PROVE Spec => []NothingReportedIsLost
<1>1. FoldInv => NothingReportedIsLost
  <2> SUFFICES ASSUME FoldInv, NEW i \in DOMAIN transcript
               PROVE  /\ ShowsCalls(transcript[i], fed[i])
                      /\ ShowsUsage(transcript[i], fed[i])
    BY DEF NothingReportedIsLost
  <2>1. i \in 1 .. Len(transcript) BY DEF FoldInv, FoldTyped
  <2>2. QED BY <2>1 DEF FoldInv, Shows
<1>2. QED BY <1>1, FoldInit, FoldNext, PTL DEF Spec
================================================================================
