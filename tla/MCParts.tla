------------------------------- MODULE MCParts ---------------------------------
(***************************************************************************)
(* Small payloads, errors, events, documents and command lines for the      *)
(* parts of AllParts.                                                       *)
(***************************************************************************)
EXTENDS AllParts, Transcript, TLC

CONSTANTS c1, c2, (* callers of the inventory *) s1, s2 (* subjects *)

(* Terminals around the eleven rows that the layout needs: one too low for *)
(* it, one that it leaves no pane, and panes of one and three rows.        *)
AroundTheLayout ==
  [narrow : BOOLEAN, height : {12, 14}]
    \cup {[narrow |-> FALSE, height |-> 8], [narrow |-> TRUE, height |-> 11]}

-------------------------------------------------------------------------------
(* Payloads. *)
Value(kind, looks, name, secret) ==
  [kind |-> kind, looks |-> looks, name |-> name, secret |-> secret]
Root(kind, looks) == Value(kind, looks, <<>>, FALSE)

(* {headers: {authorization: text, accept: text}, rows: [{token: number}, text]} *)
Request ==
  (<<>>        :> Root("object", FALSE)) @@
  (<<1>>       :> Value("object", FALSE, <<"headers">>, FALSE)) @@
  (<<1, 1>>    :> Value("text", FALSE, <<"authorization">>, TRUE)) @@
  (<<1, 2>>    :> Value("text", FALSE, <<"accept">>, FALSE)) @@
  (<<2>>       :> Value("array", FALSE, <<"rows">>, FALSE)) @@
  (<<2, 1>>    :> Value("object", FALSE, <<"0">>, FALSE)) @@
  (<<2, 1, 1>> :> Value("number", FALSE, <<"token">>, TRUE)) @@
  (<<2, 2>>    :> Value("text", TRUE, <<"1">>, FALSE))

(* {token: null, secret: {password: [text, null]}, note: text} *)
Nested ==
  (<<>>           :> Root("object", FALSE)) @@
  (<<1>>          :> Value("null", FALSE, <<"token">>, TRUE)) @@
  (<<2>>          :> Value("object", FALSE, <<"secret">>, TRUE)) @@
  (<<2, 1>>       :> Value("array", FALSE, <<"password">>, TRUE)) @@
  (<<2, 1, 1>>    :> Value("text", FALSE, <<"0">>, FALSE)) @@
  (<<2, 1, 2>>    :> Value("null", FALSE, <<"1">>, FALSE)) @@
  (<<3>>          :> Value("text", TRUE, <<"note">>, FALSE))

(* a text of its own: the empty path *)
Scalar == (<<>> :> Root("text", TRUE))

(* {"a": {"b": text}, "a.b": text}: two places that read as one path. *)
DottedKey ==
  (<<>>           :> Root("object", FALSE)) @@
  (<<1>>          :> Value("object", FALSE, <<"a">>, FALSE)) @@
  (<<1, 1>>       :> Value("text", TRUE, <<"b">>, FALSE)) @@
  (<<2>>          :> Value("text", TRUE, <<"a", "b">>, FALSE))

(* {"": {"": text, "token": text}, "note": text, "token": number}: below an *)
(* empty key a path starts anew.                                           *)
EmptyKey ==
  (<<>>           :> Root("object", FALSE)) @@
  (<<1>>          :> Value("object", FALSE, <<"">>, FALSE)) @@
  (<<1, 1>>       :> Value("text", FALSE, <<"">>, FALSE)) @@
  (<<1, 2>>       :> Value("text", FALSE, <<"token">>, TRUE)) @@
  (<<2>>          :> Value("text", TRUE, <<"note">>, FALSE)) @@
  (<<3>>          :> Value("number", FALSE, <<"token">>, TRUE))

SomePayloads == {Request, Nested, Scalar, DottedKey, EmptyKey}

-------------------------------------------------------------------------------
(* Errors and agents. *)
Link(text, refusal) == [text |-> text, refusal |-> refusal]

(* A refusal behind an error that repeats it, a plain error, and one whose *)
(* cause says what it says before the cause that tells more.               *)
SomeErrors == {
  << Link(<<"leg", "refused">>, <<>>), Link(<<"refused">>, <<"unauthenticated">>) >>,
  << Link(<<"died">>, <<>>) >>,
  << Link(<<"framing", "json">>, <<>>), Link(<<"json">>, <<>>), Link(<<"line">>, <<>>) >> }

SomeAgents == {"a", "b"}

(* One agent is authored, the other is hopped into without a profile. *)
SomeProfiles == ("a" :> "pa") @@ ("b" :> NoProfile)

(* Two scripts and two calls, which may share ordinals with them, and the  *)
(* four shapes of a usage report.                                          *)
SomeEvents ==
  {Started(n) : n \in {0, 1}} \cup {Called(n) : n \in {1, 2}}
    \cup {ScriptOver(n) : n \in {0, 1}} \cup {Finished("suppressed")}
    \cup {Usage(u) : u \in {<<>>, <<[input |-> <<>>, output |-> <<>>]>>,
                            <<[input |-> <<0>>, output |-> <<>>]>>,
                            <<[input |-> <<2>>, output |-> <<1>>]>>}}

-------------------------------------------------------------------------------
(* Documents and command lines. *)

(* Up to three profiles, so that an agent can have none, one or two, with  *)
(* and without a model and bounds of their own.                            *)
Named(name) == [name : {name}, agent : {1, 2}, subject : {s1, s2},
                model : {NoName, "m1"}, steps : {0, 3}, calls : {0}]
Third == [name |-> "p3", agent |-> 3, subject |-> s2, model |-> "m2",
          steps |-> 0, calls |-> 5]

ProfileSets ==
  {{}} \cup {{p} : p \in Named("p1")}
       \cup {{p, q} : p \in Named("p1"), q \in Named("p2")}
       \cup {{p, Third} : p \in Named("p1")}

SmallDocuments ==
  {[default |-> d, profiles |-> ps] : d \in {NoName, "p1"}, ps \in ProfileSets}

ValidDocuments == {d \in SmallDocuments : ValidDocument(d)}

SmallCommandLines ==
  [agent : 0 .. 4, profile : {NoName, "p1", "p2"}, subject : {NoName, s1},
   model : {NoName, "m3"}, steps : {0, 7}, calls : {0},
   structured : BOOLEAN]
===============================================================================
