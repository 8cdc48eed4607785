--------------------------- MODULE ActionGateProofs ---------------------------
(* What holds of the Action Gate for any clients, requests and policies. *)
EXTENDS ActionGate, TLAPS

\* What the daemon has in hand while it serves: a decision that the policy and
\* the switch it saw account for, and from audit on a record of it.
DraftIsSound ==
    server \in {"auditing", "sending"} =>
        \/ draft.decision = "deny"
        \/ /\ draft.kill = FALSE
           /\ draft.decision = Decide(request[serving], loaded, FALSE)
DraftIsLogged ==
    server = "sending" =>
        [client |-> serving, decision |-> draft.decision, kill |-> draft.kill,
         policy |-> loaded] \in log

\* The daemon only ever has to do with clients that connected.
ServedConnected ==
    \A c \in Client : client[c] = "idle" => c \notin backlog /\ serving # c

\* The switch as a client that is still there knows it.
OpenIsReleased == ~ kill => \A c \in Client : client[c] \in Open => c \in released
DraftIsLocked ==
    (/\ server \in {"auditing", "sending"}
     /\ client[serving] \in Open
     /\ serving \notin released) => draft.decision = "deny"

AuditInv  == GateTypeOK /\ DraftIsSound /\ DraftIsLogged /\ AnswersAreAudited
SwitchInv == /\ GateTypeOK /\ ServedConnected
             /\ OpenIsReleased /\ DraftIsLocked /\ KillSwitchHolds

\* Whatever is decided is a decision.
LEMMA DecideType ==
    ASSUME NEW r \in GateRequest, NEW p \in Policy, NEW k
    PROVE  /\ Decide(r, p, k) \in Decisions
           /\ k => Decide(r, p, k) = "deny"
BY DEF Decide, GateRequest, Policy, Decisions

\* _decision never hides a stricter rule behind a weaker one: a request that
\* asks for more, or is repeated with the kill switch on, gets no weaker answer,
\* under every policy whose defaults for L0 and L1 do not deny.
THEOREM GateEscalation ==
    ASSUME NEW p \in Policy, Graded(p),
           NEW r \in GateRequest, NEW s \in GateRequest, AsksMore(r, s, p),
           NEW before \in BOOLEAN, NEW after \in BOOLEAN, before => after
    PROVE  NotLooser(r, s, p, before, after)
<1> USE DEF NotLooser, Strictness, Decide, AsksMore, Graded, GateRequest, Policy,
            Decisions, Risk
<1>1. CASE Decide(s, p, after) = "deny"
  BY <1>1
<1>2. CASE Decide(s, p, after) = "approval_required"
  BY <1>2 DEF SecretDenied, Underclassified
<1>3. CASE Decide(s, p, after) = "allow"
  BY <1>3 DEF SecretDenied, Underclassified
<1> QED
  BY <1>1, <1>2, <1>3, DecideType

\* The variables always have their types.
THEOREM GateType == GateSpec => []GateTypeOK
<1> USE GateAssumption, ClientNames
<1>1. GateInit => GateTypeOK
  BY DEF GateInit, GateTypeOK, Malformed, Decisions, Open
<1>2. GateTypeOK /\ [GateNext]_gateVars => GateTypeOK'
  <2> SUFFICES ASSUME GateTypeOK, [GateNext]_gateVars PROVE GateTypeOK'
    OBVIOUS
  <2> USE DEF GateTypeOK, daemon, clients, world, Open
  <2>1. CASE UNCHANGED gateVars
    BY <2>1 DEF gateVars
  <2>2. ASSUME StartServer PROVE GateTypeOK'
    BY <2>2 DEF StartServer
  <2>3. ASSUME NEW c \in Client, Accept(c) PROVE GateTypeOK'
    BY <2>3 DEF Accept
  <2>4. ASSUME Decided PROVE GateTypeOK'
    <3>1. serving \in Client
      BY <2>4 DEF Decided
    <3>2. draft' \in [decision : Decisions, kill : BOOLEAN]
      BY <2>4, <3>1, DecideType DEF Decided, Switch, Decisions
    <3> QED
      BY <2>4, <3>1, <3>2 DEF Decided
  <2>5. ASSUME Audit PROVE GateTypeOK'
    BY <2>5 DEF Audit, Record
  <2>6. ASSUME Reply PROVE GateTypeOK'
    BY <2>6 DEF Reply, Decisions
  <2>7. ASSUME Down PROVE GateTypeOK'
    BY <2>7 DEF Down, Decisions
  <2>8. ASSUME NEW c \in Client, Connect(c) PROVE GateTypeOK'
    BY <2>8 DEF Connect, Decisions
  <2>9. ASSUME NEW c \in Client, Send(c) PROVE GateTypeOK'
    BY <2>9 DEF Send
  <2>10. ASSUME NEW c \in Client, GiveUp(c) PROVE GateTypeOK'
    BY <2>10 DEF GiveUp, Decisions
  <2>11. ASSUME FlipSwitch PROVE GateTypeOK'
    BY <2>11 DEF FlipSwitch
  <2>12. ASSUME NEW p \in Policies, Install(p) PROVE GateTypeOK'
    BY <2>12 DEF Install
  <2> QED
    BY <2>1, <2>2, <2>3, <2>4, <2>5, <2>6, <2>7, <2>8, <2>9, <2>10, <2>11, <2>12
    DEF GateNext, Crash, Broken
<1> QED
  BY <1>1, <1>2, PTL DEF GateSpec

\* What a decision, an answer and the end of the daemon leave behind.
LEMMA DecidedDraft ==
    ASSUME GateTypeOK, Decided, GateAssumption, ClientNames
    PROVE  /\ server' = "auditing" /\ serving' = serving /\ loaded' = loaded
           /\ log' = log /\ client' = client /\ request' = request
           /\ outcome' = outcome /\ kill' = kill /\ released' = released
           /\ draft'.kill = kill
           /\ kill = TRUE => draft'.decision = "deny"
           /\ kill = FALSE => draft'.decision
                                \in {"deny", Decide(request[serving], loaded, FALSE)}
<1>1. draft'.decision \in {"deny", Decide(request[serving], loaded, kill)}
  BY DEF Decided, Switch
<1>2. Decide(request[serving], loaded, TRUE) = "deny"
  BY DEF Decide
<1>3. kill = TRUE => draft'.decision = "deny"
  BY <1>1, <1>2
<1>4. kill = FALSE => draft'.decision
                       \in {"deny", Decide(request[serving], loaded, FALSE)}
  BY <1>1
<1>5. draft'.kill = kill
  BY DEF Decided, Switch
<1>6. /\ server' = "auditing" /\ serving' = serving /\ loaded' = loaded
      /\ log' = log /\ client' = client /\ request' = request
      /\ outcome' = outcome /\ kill' = kill /\ released' = released
  BY DEF Decided, clients, world
<1> QED
  BY <1>3, <1>4, <1>5, <1>6

LEMMA ReplyOutcome ==
    ASSUME GateTypeOK, Reply, GateAssumption, ClientNames
    PROVE  /\ serving \in Client /\ server = "sending" /\ server' = "idle"
           /\ log' = log /\ request' = request
           /\ kill' = kill /\ released' = released
           /\ outcome'[serving] \in {draft.decision, "deny"}
           /\ client[serving] = "sent" /\ client'[serving] = "ended"
           /\ \A c \in Client \ {serving} :
                 outcome'[c] = outcome[c] /\ client'[c] = client[c]
BY DEF GateTypeOK, Reply, world

LEMMA DownOutcome ==
    ASSUME GateTypeOK, Down
    PROVE  /\ server' = "down"
           /\ log' = log /\ request' = request
           /\ kill' = kill /\ released' = released
           /\ \A c \in Client :
                 /\ outcome'[c] = IF client[c] \in Open THEN "deny" ELSE outcome[c]
                 /\ client'[c] = IF client[c] \in Open THEN "ended" ELSE client[c]
BY DEF Down, world

\* A step that only adds records, and gives no client a permission.
LEMMA AuditsKept ==
    ASSUME AnswersAreAudited, log \subseteq log', request' = request,
           \A c \in Client : outcome'[c] \in {"deny", "none", outcome[c]}
    PROVE  AnswersAreAudited'
<1> SUFFICES ASSUME NEW c \in Client, outcome'[c] \in {"allow", "approval_required"}
             PROVE  \E r \in log' :
                       /\ r.client = c /\ r.decision = outcome'[c] /\ ~ r.kill
                       /\ Decide(request'[c], r.policy, FALSE) = r.decision
  BY DEF AnswersAreAudited
<1>1. outcome'[c] = outcome[c]
  OBVIOUS
<1>2. PICK r \in log : /\ r.client = c /\ r.decision = outcome[c] /\ ~ r.kill
                       /\ Decide(request[c], r.policy, FALSE) = r.decision
  BY <1>1 DEF AnswersAreAudited
<1> QED
  BY <1>1, <1>2

\* No permission leaves the gate without its record in the audit file.
THEOREM GateAudits == GateSpec => []AnswersAreAudited
<1> USE GateAssumption, ClientNames
<1>1. GateInit => DraftIsSound /\ DraftIsLogged /\ AnswersAreAudited
  BY DEF GateInit, DraftIsSound, DraftIsLogged, AnswersAreAudited
<1>2. AuditInv /\ GateTypeOK' /\ [GateNext]_gateVars => AuditInv'
  <2> SUFFICES ASSUME AuditInv, GateTypeOK', [GateNext]_gateVars
               PROVE  (DraftIsSound /\ DraftIsLogged /\ AnswersAreAudited)'
    BY DEF AuditInv
  <2>1. CASE UNCHANGED gateVars
    BY <2>1
    DEF gateVars, AuditInv, DraftIsSound, DraftIsLogged, AnswersAreAudited, GateTypeOK,
            daemon, clients, world, Open
  <2>2. ASSUME StartServer
        PROVE  (DraftIsSound /\ DraftIsLogged /\ AnswersAreAudited)'
    BY <2>2
    DEF StartServer, AuditInv, DraftIsSound, DraftIsLogged, AnswersAreAudited, GateTypeOK,
            daemon, clients, world, Open
  <2>3. ASSUME NEW c \in Client, Accept(c)
        PROVE  (DraftIsSound /\ DraftIsLogged /\ AnswersAreAudited)'
    BY <2>3
    DEF Accept, AuditInv, DraftIsSound, DraftIsLogged, AnswersAreAudited, GateTypeOK,
            daemon, clients, world, Open
  <2>4. ASSUME Decided
        PROVE  (DraftIsSound /\ DraftIsLogged /\ AnswersAreAudited)'
    <3>1. DraftIsSound'
      BY <2>4, DecidedDraft DEF AuditInv, GateTypeOK, DraftIsSound
    <3>2. DraftIsLogged'
      BY <2>4, DecidedDraft DEF AuditInv, DraftIsLogged
    <3>3. AnswersAreAudited'
      BY <2>4, DecidedDraft, AuditsKept DEF AuditInv
    <3> QED
      BY <3>1, <3>2, <3>3
  <2>5. ASSUME Audit
        PROVE  (DraftIsSound /\ DraftIsLogged /\ AnswersAreAudited)'
    BY <2>5
    DEF Audit, AuditInv, DraftIsSound, DraftIsLogged, AnswersAreAudited, GateTypeOK,
            daemon, clients, world, Open
  <2>6. ASSUME Reply
        PROVE  (DraftIsSound /\ DraftIsLogged /\ AnswersAreAudited)'
    <3>1. ASSUME NEW c \in Client, outcome'[c] \in {"allow", "approval_required"}
          PROVE  \E r \in log : /\ r.client = c /\ r.decision = outcome'[c]
                                /\ ~ r.kill
                                /\ Decide(request[c], r.policy, FALSE) = r.decision
      <4>1. CASE c = serving
        <5> DEFINE r == [client |-> serving, decision |-> draft.decision,
                         kill |-> draft.kill, policy |-> loaded]
        <5>1. outcome'[c] = draft.decision /\ draft.decision # "deny"
          BY <2>6, <3>1, <4>1, ReplyOutcome DEF AuditInv
        <5>2. r \in log /\ draft.kill = FALSE
              /\ draft.decision = Decide(request[serving], loaded, FALSE)
          BY <2>6, <5>1, ReplyOutcome DEF AuditInv, DraftIsSound, DraftIsLogged
        <5>3. /\ r.client = serving /\ r.decision = draft.decision
              /\ r.kill = FALSE /\ r.policy = loaded
          BY <5>2
        <5> HIDE DEF r
        <5> QED
          BY <4>1, <5>1, <5>2, <5>3
      <4>2. CASE c # serving
        BY <2>6, <3>1, <4>2, ReplyOutcome DEF AuditInv, AnswersAreAudited
      <4> QED
        BY <4>1, <4>2
    <3>2. log' = log /\ request' = request /\ server' = "idle"
      BY <2>6, ReplyOutcome DEF AuditInv
    <3>3. AnswersAreAudited'
      BY <3>1, <3>2 DEF AnswersAreAudited
    <3> QED
      BY <3>2, <3>3 DEF DraftIsSound, DraftIsLogged
  <2>7. ASSUME Down
        PROVE  (DraftIsSound /\ DraftIsLogged /\ AnswersAreAudited)'
    <3>1. server' = "down"
      BY <2>7 DEF Down
    <3>3. AnswersAreAudited'
      BY <2>7, DownOutcome, AuditsKept DEF AuditInv
    <3> QED
      BY <3>1, <3>3 DEF DraftIsSound, DraftIsLogged
  <2>8. ASSUME NEW c \in Client, Connect(c)
        PROVE  (DraftIsSound /\ DraftIsLogged /\ AnswersAreAudited)'
    <3>1. /\ log' = log /\ request' = request /\ server' = server
          /\ serving' = serving /\ draft' = draft /\ loaded' = loaded
      BY <2>8 DEF Connect, daemon, clients, world
    <3>2. \A d \in Client : outcome'[d] \in {"deny", outcome[d]}
      BY <2>8 DEF Connect, AuditInv, GateTypeOK, clients
    <3>3. DraftIsSound' /\ DraftIsLogged'
      BY <3>1 DEF AuditInv, DraftIsSound, DraftIsLogged
    <3> QED
      BY <3>1, <3>2, <3>3, AuditsKept DEF AuditInv
  <2>9. ASSUME NEW c \in Client, Send(c)
        PROVE  (DraftIsSound /\ DraftIsLogged /\ AnswersAreAudited)'
    BY <2>9
    DEF Send, AuditInv, DraftIsSound, DraftIsLogged, AnswersAreAudited, GateTypeOK,
            daemon, clients, world, Open
  <2>10. ASSUME NEW c \in Client, GiveUp(c)
         PROVE  (DraftIsSound /\ DraftIsLogged /\ AnswersAreAudited)'
    <3>1. /\ log' = log /\ request' = request /\ server' = server
          /\ serving' = serving /\ draft' = draft /\ loaded' = loaded
      BY <2>10 DEF GiveUp, daemon, clients, world
    <3>2. \A d \in Client : outcome'[d] \in {"deny", outcome[d]}
      BY <2>10 DEF GiveUp, AuditInv, GateTypeOK, clients
    <3>3. DraftIsSound' /\ DraftIsLogged'
      BY <3>1 DEF AuditInv, DraftIsSound, DraftIsLogged
    <3> QED
      BY <3>1, <3>2, <3>3, AuditsKept DEF AuditInv
  <2>11. ASSUME FlipSwitch
         PROVE  (DraftIsSound /\ DraftIsLogged /\ AnswersAreAudited)'
    BY <2>11
    DEF FlipSwitch, AuditInv, DraftIsSound, DraftIsLogged, AnswersAreAudited, GateTypeOK,
            daemon, clients, world, Open
  <2>12. ASSUME NEW p \in Policies, Install(p)
         PROVE  (DraftIsSound /\ DraftIsLogged /\ AnswersAreAudited)'
    BY <2>12
    DEF Install, AuditInv, DraftIsSound, DraftIsLogged, AnswersAreAudited, GateTypeOK,
            daemon, clients, world, Open
  <2> QED
    BY <2>1, <2>2, <2>3, <2>4, <2>5, <2>6, <2>7, <2>8, <2>9, <2>10, <2>11, <2>12
    DEF GateNext, Crash, Broken
<1> QED
  BY <1>1, <1>2, GateType, PTL DEF GateSpec, AuditInv

\* A client that was there only while the kill switch was on is never allowed.
THEOREM GateKillSwitch == GateSpec => []KillSwitchHolds
<1> USE GateAssumption, ClientNames
<1>1. GateInit => OpenIsReleased /\ DraftIsLocked /\ KillSwitchHolds
  BY DEF GateInit, OpenIsReleased, DraftIsLocked, KillSwitchHolds, Open
<1>2. GateInit => ServedConnected
  BY DEF GateInit, ServedConnected
<1>3. GateTypeOK /\ ServedConnected /\ [GateNext]_gateVars => ServedConnected'
  <2> SUFFICES ASSUME GateTypeOK, ServedConnected, [GateNext]_gateVars,
                      NEW c \in Client, client'[c] = "idle"
               PROVE  c \notin backlog' /\ serving' # c
    BY DEF ServedConnected
  <2>1. client[c] = "idle" /\ c \notin backlog /\ serving # c
    BY DEF ServedConnected, GateNext, GateTypeOK, gateVars, daemon, clients, world,
           StartServer, Accept, Decided, Audit, Reply, Broken, Crash, Down, Connect,
           Send, GiveUp, FlipSwitch, Install, Open
  <2> QED
    BY <2>1
    DEF GateNext, GateTypeOK, gateVars, daemon, clients, world, StartServer, Accept,
        Decided, Audit, Reply, Broken, Crash, Down, Connect, Send, GiveUp,
        FlipSwitch, Install
<1>4. SwitchInv /\ GateTypeOK' /\ ServedConnected' /\ [GateNext]_gateVars => SwitchInv'
  <2> SUFFICES ASSUME SwitchInv, GateTypeOK', ServedConnected', [GateNext]_gateVars
               PROVE  (OpenIsReleased /\ DraftIsLocked /\ KillSwitchHolds)'
    BY DEF SwitchInv
  <2>1. CASE UNCHANGED gateVars
    BY <2>1
    DEF gateVars, SwitchInv, OpenIsReleased, DraftIsLocked, KillSwitchHolds, GateTypeOK,
            daemon, clients, world, Open
  <2>2. ASSUME StartServer
        PROVE  (OpenIsReleased /\ DraftIsLocked /\ KillSwitchHolds)'
    BY <2>2
    DEF StartServer, SwitchInv, OpenIsReleased, DraftIsLocked, KillSwitchHolds, GateTypeOK,
            daemon, clients, world, Open
  <2>3. ASSUME NEW c \in Client, Accept(c)
        PROVE  (OpenIsReleased /\ DraftIsLocked /\ KillSwitchHolds)'
    BY <2>3
    DEF Accept, SwitchInv, OpenIsReleased, DraftIsLocked, KillSwitchHolds, GateTypeOK,
            daemon, clients, world, Open
  <2>4. ASSUME Decided
        PROVE  (OpenIsReleased /\ DraftIsLocked /\ KillSwitchHolds)'
    <3>1. serving \in Client /\ kill \in BOOLEAN
      BY <2>4 DEF SwitchInv, GateTypeOK, Decided
    <3>2. DraftIsLocked'
      BY <2>4, <3>1, DecidedDraft DEF SwitchInv, OpenIsReleased, DraftIsLocked
    <3> QED
      BY <2>4, <3>2, DecidedDraft DEF SwitchInv, OpenIsReleased, KillSwitchHolds
  <2>5. ASSUME Audit
        PROVE  (OpenIsReleased /\ DraftIsLocked /\ KillSwitchHolds)'
    BY <2>5
    DEF Audit, SwitchInv, OpenIsReleased, DraftIsLocked, KillSwitchHolds, GateTypeOK,
            daemon, clients, world, Open
  <2>6. ASSUME Reply
        PROVE  (OpenIsReleased /\ DraftIsLocked /\ KillSwitchHolds)'
    <3>1. OpenIsReleased' /\ DraftIsLocked'
      BY <2>6, ReplyOutcome DEF SwitchInv, OpenIsReleased, DraftIsLocked, Open
    <3>2. ASSUME NEW c \in Client \ released
          PROVE  outcome'[c] \in {"none", "deny"}
      <4>1. CASE c = serving
        BY <2>6, <4>1, ReplyOutcome DEF SwitchInv, DraftIsLocked, Open
      <4>2. CASE c # serving
        BY <2>6, <4>2, ReplyOutcome DEF SwitchInv, KillSwitchHolds
      <4> QED
        BY <4>1, <4>2
    <3>3. KillSwitchHolds'
      BY <2>6, <3>2, ReplyOutcome DEF SwitchInv, KillSwitchHolds
    <3> QED
      BY <3>1, <3>3
  <2>7. ASSUME Down
        PROVE  (OpenIsReleased /\ DraftIsLocked /\ KillSwitchHolds)'
    BY <2>7, DownOutcome
    DEF SwitchInv, OpenIsReleased, DraftIsLocked, KillSwitchHolds, Open
  <2>8. ASSUME NEW c \in Client, Connect(c)
        PROVE  (OpenIsReleased /\ DraftIsLocked /\ KillSwitchHolds)'
    <3>1. /\ server' = server /\ serving' = serving /\ draft' = draft
          /\ kill' = kill /\ released \subseteq released'
      BY <2>8 DEF Connect, daemon
    <3>2. \A d \in Client \ {c} : client'[d] = client[d] /\ outcome'[d] = outcome[d]
      BY <2>8 DEF Connect, SwitchInv, GateTypeOK
    <3>3. ~ kill => c \in released'
      BY <2>8 DEF Connect
    <3>4. outcome'[c] \in {"deny", outcome[c]}
      BY <2>8 DEF Connect, SwitchInv, GateTypeOK
    <3>5. OpenIsReleased'
      BY <3>1, <3>2, <3>3 DEF SwitchInv, OpenIsReleased
    <3>6. KillSwitchHolds'
      BY <3>1, <3>2, <3>4 DEF SwitchInv, KillSwitchHolds
    <3>7. client[c] = "idle" /\ serving # c
      BY <2>8 DEF Connect, SwitchInv, ServedConnected
    <3>8. DraftIsLocked'
      BY <3>1, <3>2, <3>7 DEF SwitchInv, DraftIsLocked, GateTypeOK
    <3> QED
      BY <3>5, <3>6, <3>8
  <2>9. ASSUME NEW c \in Client, Send(c)
        PROVE  (OpenIsReleased /\ DraftIsLocked /\ KillSwitchHolds)'
    BY <2>9
    DEF Send, SwitchInv, OpenIsReleased, DraftIsLocked, KillSwitchHolds, GateTypeOK,
            daemon, clients, world, Open
  <2>10. ASSUME NEW c \in Client, GiveUp(c)
         PROVE  (OpenIsReleased /\ DraftIsLocked /\ KillSwitchHolds)'
    BY <2>10
    DEF GiveUp, SwitchInv, OpenIsReleased, DraftIsLocked, KillSwitchHolds, GateTypeOK,
            daemon, clients, world, Open
  <2>11. ASSUME FlipSwitch
         PROVE  (OpenIsReleased /\ DraftIsLocked /\ KillSwitchHolds)'
    BY <2>11
    DEF FlipSwitch, SwitchInv, OpenIsReleased, DraftIsLocked, KillSwitchHolds, GateTypeOK,
            daemon, clients, world, Open
  <2>12. ASSUME NEW p \in Policies, Install(p)
         PROVE  (OpenIsReleased /\ DraftIsLocked /\ KillSwitchHolds)'
    BY <2>12
    DEF Install, SwitchInv, OpenIsReleased, DraftIsLocked, KillSwitchHolds, GateTypeOK,
            daemon, clients, world, Open
  <2> QED
    BY <2>1, <2>2, <2>3, <2>4, <2>5, <2>6, <2>7, <2>8, <2>9, <2>10, <2>11, <2>12
    DEF GateNext, Crash, Broken
<1> QED
  BY <1>1, <1>2, <1>3, <1>4, GateType, PTL DEF GateSpec, SwitchInv
=============================================================================
