---------------------------- MODULE SelectionProofs ----------------------------
(***************************************************************************)
(* Proofs about Selection: a hop decides what a restart would.             *)
(***************************************************************************)
EXTENDS Selection, TLAPS

RestartOf(line, agent) == [line EXCEPT !.agent = agent]

(* A restart differs from the command line it restarts in the agent only. *)
LEMMA RestartFields ==
  ASSUME NEW line \in Cli, NEW agent \in Agents
  PROVE  /\ RestartOf(line, agent).agent = agent
         /\ RestartOf(line, agent).profile = line.profile
         /\ RestartOf(line, agent).subject = line.subject
         /\ RestartOf(line, agent).model = line.model
         /\ RestartOf(line, agent).steps = line.steps
         /\ RestartOf(line, agent).calls = line.calls
         /\ agent # 0
  BY CatalogAssumption DEF RestartOf, Cli, Agents

(* The initial profile of a restart is what the hop chooses from. *)
LEMMA RestartInitial ==
  ASSUME NEW d, ValidDocument(d), NEW line \in Cli, NEW agent \in Agents
  PROVE  Initial(d, RestartOf(line, agent)) =
           IF line.profile # NoName
           THEN {p \in d.profiles : p.name = line.profile}
           ELSE Matches(Config(d, line), agent)
  <1> DEFINE r == RestartOf(line, agent)
  <1>1. r.agent = agent /\ r.profile = line.profile /\ agent # 0
    BY RestartFields
  <1> HIDE DEF r
  <1>2. CASE line.profile # NoName
    BY <1>1, <1>2 DEF Initial, ChosenName, r
  <1>3. CASE line.profile = NoName
    <2>1. ChosenName(d, r) = NoName
      BY <1>1, <1>3 DEF ChosenName
    <2>2. {p \in d.profiles : p.name = ChosenName(d, r)} = {}
      BY <2>1 DEF ValidDocument
    <2>3. Initial(d, r) = Matching(d, r)
      BY <1>1, <1>3, <2>2 DEF Initial
    <2>4. Matching(d, r) = Matches(Config(d, line), agent)
      BY <1>1 DEF Matching, Matches, Config
    <2> QED BY <1>3, <2>3, <2>4 DEF r
  <1> QED BY <1>2, <1>3

(* From a console that started, an agent is let in by a hop exactly if it  *)
(* is let in by a restart.                                                 *)
LEMMA SameDoor ==
  ASSUME NEW d, ValidDocument(d), NEW line \in Cli, NEW agent \in Agents,
         ~StartRefused(d, line)
  PROVE  HopRefused(Config(d, line), agent) <=> StartRefused(d, RestartOf(line, agent))
  <1> DEFINE r == RestartOf(line, agent)
             init == Initial(d, r)
             cfg == Config(d, line)
  <1>1. /\ r.agent = agent /\ r.profile = line.profile /\ r.subject = line.subject
        /\ agent # 0
    BY RestartFields
  <1>2. init = IF line.profile # NoName
               THEN {p \in d.profiles : p.name = line.profile}
               ELSE Matches(cfg, agent)
    BY RestartInitial
  <1>3. /\ ~UnknownProfile(d, line) /\ ~SubjectWithProfiles(d, line)
        /\ ~NoSubject(d, line) /\ ~UnknownAgent(d, line)
    BY DEF StartRefused
  <1>4. Matching(d, r) = Matches(cfg, agent)
    BY <1>1 DEF Matching, Matches, Config
  <1>5. cfg.profiles = d.profiles /\ cfg.fixed = line.profile
    BY DEF Config
  <1> HIDE DEF r, init, cfg
  <1>6. ~UnknownProfile(d, r) /\ ~SubjectWithProfiles(d, r) /\ ~StructuredAgent(r)
    BY <1>1, <1>3 DEF UnknownProfile, SubjectWithProfiles, StructuredAgent
  <1>7. ~UnknownAgent(d, r)
    BY <1>1, <1>3 DEF UnknownAgent
  <1>8. AmbiguousAgent(d, r) <=> Ambiguous(cfg, agent)
    BY <1>1, <1>4, <1>5 DEF AmbiguousAgent, Ambiguous
  <1>9. BoundElsewhere(d, r) <=> \E p \in init : p.agent # agent
    BY <1>1 DEF BoundElsewhere, init
  <1>10. NoSubject(d, r) <=> init = {} /\ line.subject = NoName
    BY <1>1 DEF NoSubject, init
  <1>11. StartRefused(d, r)
           <=> \/ Ambiguous(cfg, agent)
               \/ \E p \in init : p.agent # agent
               \/ init = {} /\ line.subject = NoName
    BY <1>6, <1>7, <1>8, <1>9, <1>10 DEF StartRefused
  <1>12. CASE line.profile # NoName
    <2>1. init = {p \in d.profiles : p.name = line.profile} /\ init # {}
      BY <1>2, <1>3, <1>12 DEF UnknownProfile
    <2>2. FixedElsewhere(cfg, agent) <=> \E p \in init : p.agent # agent
      BY <1>5, <2>1 DEF FixedElsewhere
    <2>3. ~FixedElsewhere(cfg, agent) => ~Unauthored(cfg, agent)
      BY <1>5, <2>1 DEF FixedElsewhere, Unauthored, Matches
    <2> QED BY <1>11, <2>1, <2>2, <2>3 DEF HopRefused, r, cfg
  <1>13. CASE line.profile = NoName
    <2>1. init = Matches(cfg, agent)
      BY <1>2, <1>13
    <2>2. ~FixedElsewhere(cfg, agent)
      BY <1>5, <1>13 DEF FixedElsewhere, ValidDocument
    <2>3. \A p \in init : p.agent = agent
      BY <2>1 DEF Matches
    <2>4. d.profiles = {} => line.subject # NoName
      BY <1>3 DEF NoSubject, Initial, Matching
    <2>5. d.profiles # {} => line.subject = NoName
      BY <1>3 DEF SubjectWithProfiles
    <2>6. Unauthored(cfg, agent) <=> init = {} /\ line.subject = NoName
      BY <1>5, <2>1, <2>4, <2>5 DEF Unauthored
    <2> QED BY <1>11, <2>2, <2>3, <2>6 DEF HopRefused, r, cfg
  <1> QED BY <1>12, <1>13

(* ... and then the profile the hop chooses is the restart's. *)
LEMMA SameProfile ==
  ASSUME NEW d, ValidDocument(d), NEW line \in Cli, NEW agent \in Agents,
         ~StartRefused(d, line), ~HopRefused(Config(d, line), agent)
  PROVE  IF Matches(Config(d, line), agent) = {}
         THEN /\ d.profiles = {}
              /\ StartOptions(d, RestartOf(line, agent)) = FromCommandLine(line)
         ELSE StartOptions(d, RestartOf(line, agent)) =
                FromProfile(line, Chosen(Config(d, line), agent))
  <1> DEFINE r == RestartOf(line, agent)
             init == Initial(d, r)
             cfg == Config(d, line)
             matches == Matches(cfg, agent)
             one == Chosen(cfg, agent)
  <1>1. /\ r.agent = agent /\ r.profile = line.profile /\ r.subject = line.subject
        /\ r.model = line.model /\ r.steps = line.steps /\ r.calls = line.calls
    BY RestartFields
  <1>2. init = IF line.profile # NoName
               THEN {p \in d.profiles : p.name = line.profile} ELSE matches
    BY RestartInitial
  <1>3. /\ cfg.profiles = d.profiles /\ cfg.fixed = line.profile
        /\ ~FixedElsewhere(cfg, agent) /\ ~Ambiguous(cfg, agent)
        /\ ~Unauthored(cfg, agent)
    BY DEF Config, HopRefused
  <1>4. FromCommandLine(r) = FromCommandLine(line)
    BY <1>1 DEF FromCommandLine
  <1>5. \A p : FromProfile(r, p) = FromProfile(line, p)
    BY <1>1 DEF FromProfile
  <1> HIDE DEF r, init, cfg, matches, one
  <1>6. CASE matches = {}
    <2>1. d.profiles = {}
      BY <1>3, <1>6 DEF Unauthored, matches
    <2>2. init = {}
      BY <1>2, <1>6, <2>1
    <2> QED BY <1>4, <1>6, <2>1, <2>2 DEF StartOptions, init, r, matches, cfg
  <1>7. CASE matches # {}
    <2>1. \A p \in matches : p \in d.profiles /\ p.agent = agent
      BY <1>3 DEF matches, Matches
    <2>2. \E p \in matches : {q \in matches : q.name = cfg.fixed} # {}
                                => p \in {q \in matches : q.name = cfg.fixed}
      BY <1>7
    <2>3. one \in matches /\ ({q \in matches : q.name = cfg.fixed} # {}
                                => one \in {q \in matches : q.name = cfg.fixed})
      BY <2>2 DEF one, Chosen, matches
    <2>4. init = {one}
      <3>1. CASE line.profile = NoName
        <4>1. init = matches
          BY <1>2, <3>1
        <4>2. \A p, q \in matches : p = q
          BY <1>3, <3>1 DEF Ambiguous, matches
        <4> QED BY <2>3, <4>1, <4>2
      <3>2. CASE line.profile # NoName
        <4>1. init = {p \in d.profiles : p.name = line.profile}
          BY <1>2, <3>2
        <4>2. init # {}
          BY <3>2, <4>1 DEF StartRefused, UnknownProfile
        <4>3. \A p \in init : p.agent = agent
          BY <1>3, <4>1 DEF FixedElsewhere
        <4>4. \A p \in init : p \in matches /\ p.name = cfg.fixed
          BY <1>3, <4>1, <4>3 DEF matches, Matches
        <4>5. \A p, q \in d.profiles : p.name = q.name => p = q
          BY DEF ValidDocument
        <4>6. one \in init
          BY <1>3, <2>1, <2>3, <4>1, <4>2, <4>4
        <4>7. \A p \in init : p = one
          BY <4>1, <4>5, <4>6
        <4> QED BY <4>6, <4>7
      <3> QED BY <3>1, <3>2
    <2>5. StartOptions(d, r) = FromProfile(r, one)
      <3>1. (CHOOSE p \in init : TRUE) = one
        BY <2>4
      <3> QED BY <2>4, <3>1 DEF StartOptions, init
    <2> QED BY <1>5, <1>7, <2>5 DEF r, one, cfg, matches
  <1> QED BY <1>6, <1>7

-------------------------------------------------------------------------------
(* The agent startup enters is in the catalog and is let in, and the hop   *)
(* chooses the options startup displayed.                                  *)
LEMMA InitialAgrees ==
  ASSUME NEW d, ValidDocument(d), NEW line \in Cli, ~StartRefused(d, line),
         InitialAgent(d, line) # 0
  PROVE  /\ InitialAgent(d, line) \in Agents
         /\ ~HopRefused(Config(d, line), InitialAgent(d, line))
         /\ StartOptions(d, RestartOf(line, InitialAgent(d, line))) = StartOptions(d, line)
  <1>1. /\ ~UnknownProfile(d, line) /\ ~UnknownAgent(d, line)
        /\ ~BoundElsewhere(d, line)
    BY DEF StartRefused
  <1>2. CASE line.agent # 0
    <2>1. InitialAgent(d, line) = line.agent /\ line.agent \in Agents
      BY <1>1, <1>2 DEF InitialAgent, UnknownAgent
    <2>2. RestartOf(line, line.agent) = line
      BY DEF RestartOf, Cli
    <2>3. ~HopRefused(Config(d, line), line.agent)
      BY <2>1, <2>2, SameDoor
    <2> QED BY <2>1, <2>2, <2>3
  <1>3. CASE line.agent = 0
    <2> DEFINE first == CHOOSE p \in Initial(d, line) : TRUE
               agent == InitialAgent(d, line)
    <2>1. line.profile # NoName /\ agent = first.agent
      BY <1>3 DEF InitialAgent
    <2>2. Initial(d, line) = {p \in d.profiles : p.name = line.profile}
      BY <2>1 DEF Initial, ChosenName
    <2>3. Initial(d, line) # {}
      BY <1>1, <2>1, <2>2 DEF UnknownProfile
    <2>4. first \in d.profiles /\ first.name = line.profile
      BY <2>2, <2>3
    <2>5. agent \in Agents
      BY <1>1, <2>1, <2>4 DEF UnknownAgent
    <2>6. \A p \in d.profiles : p.name = line.profile => p = first
      BY <2>4 DEF ValidDocument
    <2>7. ~HopRefused(Config(d, line), agent)
      <3>1. ~FixedElsewhere(Config(d, line), agent)
        BY <2>1, <2>6 DEF FixedElsewhere, Config
      <3>2. ~Ambiguous(Config(d, line), agent)
        BY <2>1 DEF Ambiguous, Config
      <3>3. ~Unauthored(Config(d, line), agent)
        BY <2>1, <2>4 DEF Unauthored, Matches, Config
      <3> QED BY <3>1, <3>2, <3>3 DEF HopRefused
    <2>8. Initial(d, RestartOf(line, agent)) = Initial(d, line)
      BY <2>1, <2>2, <2>5, RestartInitial
    <2>9. \A p : FromProfile(RestartOf(line, agent), p) = FromProfile(line, p)
      BY <2>5, RestartFields DEF FromProfile
    <2>10. StartOptions(d, RestartOf(line, agent)) = StartOptions(d, line)
      BY <2>3, <2>8, <2>9 DEF StartOptions
    <2> QED BY <2>5, <2>7, <2>10
  <1> QED BY <1>2, <1>3

(* What a hop leaves behind, in terms of a restart. *)
LEMMA HopMakesRestart ==
  ASSUME NEW agent \in Agents, Hop(agent), doc \in Documents, cli \in Cli,
         ~StartRefused(doc, cli),
         doc.profiles = {} => options = FromCommandLine(cli)
  PROVE  /\ hop'.accepted <=> ~StartRefused(doc, RestartOf(cli, agent))
         /\ hop'.accepted => options' = StartOptions(doc, RestartOf(cli, agent))
         /\ doc.profiles = {} => options' = FromCommandLine(cli)
  <1> DEFINE cfg == Config(doc, cli)
  <1>1. ValidDocument(doc)
    BY SelectionAssumption
  <1>2. hop'.accepted <=> ~HopRefused(cfg, agent)
    BY DEF Hop
  <1>3. HopRefused(cfg, agent) <=> StartRefused(doc, RestartOf(cli, agent))
    BY <1>1, SameDoor
  <1>4. doc.profiles = {} => Matches(cfg, agent) = {}
    BY DEF Matches, Config
  <1>5. doc.profiles = {} => options' = options
    BY <1>4 DEF Hop, HopOptions
  <1>6. ASSUME ~HopRefused(cfg, agent)
        PROVE  options' = StartOptions(doc, RestartOf(cli, agent))
    <2>1. options' = HopOptions(agent)
      BY <1>6 DEF Hop
    <2>2. CASE Matches(cfg, agent) = {}
      <3>1. /\ doc.profiles = {}
            /\ StartOptions(doc, RestartOf(cli, agent)) = FromCommandLine(cli)
        BY <1>1, <1>6, <2>2, SameProfile
      <3> QED BY <1>5, <3>1
    <2>3. CASE Matches(cfg, agent) # {}
      <3>1. StartOptions(doc, RestartOf(cli, agent)) = FromProfile(cli, Chosen(cfg, agent))
        BY <1>1, <1>6, <2>3, SameProfile
      <3> QED BY <2>1, <2>3, <3>1 DEF HopOptions
    <2> QED BY <2>2, <2>3
  <1> QED BY <1>2, <1>3, <1>5, <1>6

-------------------------------------------------------------------------------
(* The inductive invariant: startup let this command line in, a hop is to  *)
(* an agent of the catalog, and without profiles the options are still the *)
(* command line's.                                                         *)
SelectionInv ==
  /\ doc \in Documents /\ cli \in Cli
  /\ phase \in Phases
  /\ phase \in {"initial", "picking"} => ~StartRefused(doc, cli)
  /\ phase # "picking" => hop = NoHop
  /\ hop # NoHop => hop.agent \in Agents
  /\ phase = "initial" =>
       InitialAgent(doc, cli) # 0 /\ options = StartOptions(doc, cli)
  /\ phase \in {"initial", "picking"} /\ doc.profiles = {} =>
       options = FromCommandLine(cli)
  /\ HopIsRestart

LEMMA SelectionInit == Init => SelectionInv
  BY SelectionAssumption DEF Init, SelectionInv, Phases, HopIsRestart

LEMMA HopKeepsInv ==
  ASSUME SelectionInv, phase \in {"initial", "picking"},
         NEW agent \in Agents, Hop(agent)
  PROVE  SelectionInv'
  <1>1. /\ hop'.accepted <=> ~StartRefused(doc, RestartOf(cli, agent))
        /\ hop'.accepted => options' = StartOptions(doc, RestartOf(cli, agent))
        /\ doc.profiles = {} => options' = FromCommandLine(cli)
    BY HopMakesRestart DEF SelectionInv
  <1>2. /\ doc' = doc /\ cli' = cli /\ phase' = "picking" /\ hop'.agent = agent
    BY DEF Hop
  <1>3. Restart' = RestartOf(cli, agent)
    BY <1>2 DEF Restart, RestartOf
  <1>4. HopIsRestart'
    BY <1>1, <1>2, <1>3 DEF HopIsRestart
  <1> QED BY <1>1, <1>2, <1>4 DEF SelectionInv, Phases

LEMMA SelectionNext == SelectionInv /\ [Next]_vars => SelectionInv'
  <1> SUFFICES ASSUME SelectionInv, [Next]_vars PROVE SelectionInv'
    OBVIOUS
  <1>1. CASE Start
    <2>1. doc' = doc /\ cli' = cli /\ hop' = hop /\ hop = NoHop
      BY <1>1 DEF Start, SelectionInv
    <2>2. HopIsRestart'
      BY <2>1 DEF HopIsRestart, NoHop
    <2>3. CASE StartRefused(doc, cli)
      <3>1. phase' = "refused"
        BY <1>1, <2>3 DEF Start
      <3> QED BY <2>1, <2>2, <3>1 DEF SelectionInv, Phases
    <2>4. CASE ~StartRefused(doc, cli)
      <3>1. /\ phase' = IF InitialAgent(doc, cli) # 0 THEN "initial" ELSE "picking"
            /\ options' = StartOptions(doc, cli)
        BY <1>1, <2>4 DEF Start
      <3>2. doc.profiles = {} => Initial(doc, cli) = {}
        BY DEF Initial, Matching
      <3>3. doc.profiles = {} => options' = FromCommandLine(cli)
        BY <3>1, <3>2 DEF StartOptions
      <3> QED BY <2>1, <2>2, <2>4, <3>1, <3>3 DEF SelectionInv, Phases
    <2> QED BY <2>3, <2>4
  <1>2. CASE EnterInitial
    <2>1. phase = "initial" /\ Hop(InitialAgent(doc, cli))
      BY <1>2 DEF EnterInitial
    <2>2. InitialAgent(doc, cli) \in Agents
      BY <2>1, SelectionAssumption, InitialAgrees DEF SelectionInv
    <2> QED BY <2>1, <2>2, HopKeepsInv
  <1>3. CASE Pick
    <2>1. PICK agent \in Agents : Hop(agent)
      BY <1>3 DEF Pick
    <2> QED BY <1>3, <2>1, HopKeepsInv DEF Pick
  <1>4. CASE Ended \/ UNCHANGED vars
    BY <1>4 DEF Ended, vars, SelectionInv, HopIsRestart, Restart
  <1> QED BY <1>1, <1>2, <1>3, <1>4 DEF Next

(* Entering an agent decides what restarting with --agent would, for every *)
(* profiles document, command line and sequence of hops.                   *)
THEOREM HopsAreRestarts == Spec => []HopIsRestart
  <1>1. SelectionInv => HopIsRestart
    BY DEF SelectionInv
  <1> QED BY <1>1, SelectionInit, SelectionNext, PTL DEF Spec

(* The hop that startup asked for is let in, as whom startup displayed.    *)
THEOREM StartupAgrees == Spec => InitialHopAgrees
  <1>1. SelectionInv /\ [Next]_vars =>
          [EnterInitial => hop'.accepted /\ options' = options]_vars
    <2> SUFFICES ASSUME SelectionInv, EnterInitial
                 PROVE  hop'.accepted /\ options' = options
      OBVIOUS
    <2> DEFINE agent == InitialAgent(doc, cli)
    <2>1. phase = "initial" /\ Hop(agent)
      BY DEF EnterInitial
    <2>2. /\ ~StartRefused(doc, cli) /\ agent # 0 /\ doc \in Documents /\ cli \in Cli
          /\ options = StartOptions(doc, cli)
          /\ doc.profiles = {} => options = FromCommandLine(cli)
      BY <2>1 DEF SelectionInv
    <2>3. /\ agent \in Agents /\ ~HopRefused(Config(doc, cli), agent)
          /\ StartOptions(doc, RestartOf(cli, agent)) = StartOptions(doc, cli)
      BY <2>2, SelectionAssumption, InitialAgrees
    <2>4. hop'.accepted
      BY <2>1, <2>3 DEF Hop
    <2> HIDE DEF agent
    <2>5. options' = StartOptions(doc, RestartOf(cli, agent))
      BY <2>1, <2>2, <2>3, <2>4, HopMakesRestart
    <2> QED BY <2>2, <2>3, <2>4, <2>5
  <1> QED BY <1>1, SelectionInit, SelectionNext, PTL DEF Spec, InitialHopAgrees
===============================================================================
