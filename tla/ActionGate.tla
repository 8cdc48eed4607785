------------------------------ MODULE ActionGate ------------------------------
(***************************************************************************)
(* The Action Gate daemon (B030) and its clients:                          *)
(* scripts/action_gate/server.py and client.py.  The daemon serves one     *)
(* connection after the other: it reads the request, looks at the kill     *)
(* switch, decides, appends the audit record and answers.  It keeps the    *)
(* policy it read when it started.  What a connection or the audit file    *)
(* does to it outside the inner try ends the process, and systemd starts   *)
(* it again.  A client is one run of client.py, with one request.          *)
(***************************************************************************)
EXTENDS GateDecision

CONSTANTS
    Client,     \* runs of client.py
    Requests,   \* what they ask
    Policies    \* policies that root installs; all of them load

ASSUME GateAssumption == Requests \subseteq GateRequest /\ Policies \subseteq Policy

NoClient == "none"
ASSUME ClientNames == NoClient \notin Client

VARIABLES
    server,     \* where the daemon is
    serving,    \* client of the connection it has accepted, or NoClient
    loaded,     \* the policy it runs with
    draft,      \* the decision of the current connection
    log,        \* the audit file
    backlog,    \* clients whose connection waits to be accepted
    client,     \* where each client is
    request,    \* what it asks
    outcome,    \* the decision it exits with
    installed,  \* /etc/frankensteinzhermes/action-gate.json
    kill,       \* /etc/frankensteinzhermes/action-gate.kill exists
    released    \* history: clients during whose run there was no kill switch

daemon  == <<server, serving, loaded, draft>>
clients == <<client, request, outcome>>
world   == <<installed, kill, released>>
gateVars == <<daemon, log, backlog, clients, world>>

Malformed == [decision |-> "deny", kill |-> TRUE]
Record    == [client : Client, decision : Decisions, kill : BOOLEAN,
              policy : Policies]

\* A client whose connection is open: connected, but the request is not sent
\* yet; sent, and waiting for the answer.
Open == {"connected", "sent"}
----------------------------------------------------------------------------
GateInit ==
    /\ server = "down" /\ serving = NoClient
    /\ installed \in Policies /\ loaded = installed
    /\ draft = Malformed
    /\ log = {} /\ backlog = {}
    /\ client  = [c \in Client |-> "idle"]
    /\ request \in [Client -> Requests]
    /\ outcome = [c \in Client |-> "none"]
    /\ kill \in BOOLEAN /\ released = {}

\* main() up to the loop, run by systemd
StartServer ==
    /\ server = "down"
    /\ server' = "idle"
    /\ loaded' = installed
    /\ UNCHANGED <<serving, draft, log, backlog, clients, world>>

Accept(c) ==
    /\ server = "idle"
    /\ c \in backlog
    /\ server'  = "receiving"
    /\ serving' = c
    /\ backlog' = backlog \ {c}
    /\ UNCHANGED <<loaded, draft, log, clients, world>>

\* the kill switch is looked for on the first request only
BadSwitch == kill /\ log = {}

\* KILL_SWITCH_PATH.exists()
Switch == kill

\* recv_request waits on when the connection is closed
BadDecided ==
    /\ server = "receiving"
    /\ client[serving] = "sent"
    /\ draft' = [decision |-> Decide(request[serving], loaded, Switch),
                 kill |-> Switch]
    /\ server' = "auditing"
    /\ UNCHANGED <<serving, loaded, log, backlog, clients, world>>

\* recv_request and decide.  A client that is gone before it sent anything
\* leaves an empty request: the transport failure is denied like a request
\* that is not well formed.
Decided ==
    /\ server = "receiving"
    /\ client[serving] # "connected"
    /\ \/ /\ client[serving] \in {"sent", "ended"}
          /\ draft' = [decision |-> Decide(request[serving], loaded, Switch),
                       kill |-> Switch]
       \/ /\ client[serving] = "ended"
          /\ draft' = [decision |-> "deny", kill |-> Switch]
    /\ server' = "auditing"
    /\ UNCHANGED <<serving, loaded, log, backlog, clients, world>>

\* the answer is sent before the record is written
BadAudit ==
    /\ server = "auditing"
    /\ server' = "sending"
    /\ UNCHANGED <<serving, loaded, draft, log, backlog, clients, world>>

\* audit: the record is on disk before the answer goes out.
Audit ==
    /\ server = "auditing"
    /\ log' = log \cup {[client |-> serving, decision |-> draft.decision,
                         kill |-> draft.kill, policy |-> loaded]}
    /\ server' = "sending"
    /\ UNCHANGED <<serving, loaded, draft, backlog, clients, world>>

\* conn.sendall, while the client is there.  It may still stop before it reads
\* the answer.
Reply ==
    /\ server = "sending"
    /\ client[serving] = "sent"
    /\ client' = [client EXCEPT ![serving] = "ended"]
    /\ \E d \in {draft.decision, "deny"} :
          outcome' = [outcome EXCEPT ![serving] = d]
    /\ server' = "idle" /\ serving' = NoClient
    /\ UNCHANGED <<loaded, draft, log, backlog, request, world>>

\* The daemon ends: on SIGTERM, on a crash, when the audit file cannot be
\* written, or in sendall because the client is gone (Broken).  Whoever has a
\* connection loses it, and gets deny out of client.py.
Down ==
    /\ server' = "down" /\ serving' = NoClient
    /\ backlog' = {}
    /\ client'  = [c \in Client |-> IF client[c] \in Open THEN "ended"
                                    ELSE client[c]]
    /\ outcome' = [c \in Client |-> IF client[c] \in Open THEN "deny"
                                    ELSE outcome[c]]
    /\ UNCHANGED <<loaded, draft, log, request, world>>
Crash  == server # "down" /\ Down
Broken == server = "sending" /\ client[serving] = "ended" /\ Down

\* client.py connects; without a daemon it answers deny by itself.
Connect(c) ==
    /\ client[c] = "idle"
    /\ \/ /\ server # "down"
          /\ client'  = [client EXCEPT ![c] = "connected"]
          /\ backlog' = backlog \cup {c}
          /\ UNCHANGED outcome
       \/ /\ server = "down"
          /\ client'  = [client EXCEPT ![c] = "ended"]
          /\ outcome' = [outcome EXCEPT ![c] = "deny"]
          /\ UNCHANGED backlog
    /\ released' = IF kill THEN released ELSE released \cup {c}
    /\ UNCHANGED <<daemon, log, request, installed, kill>>

Send(c) ==
    /\ client[c] = "connected"
    /\ client' = [client EXCEPT ![c] = "sent"]
    /\ UNCHANGED <<daemon, log, backlog, request, outcome, world>>

\* The client's five seconds are over, or its caller kills it.  Its connection
\* stays in the backlog until the daemon accepts it.
GiveUp(c) ==
    /\ client[c] \in Open
    /\ client'  = [client EXCEPT ![c] = "ended"]
    /\ outcome' = [outcome EXCEPT ![c] = "deny"]
    /\ UNCHANGED <<daemon, log, backlog, request, world>>

\* root touches or removes the kill switch, or installs a policy.
FlipSwitch ==
    /\ kill' = ~ kill
    /\ released' = IF kill THEN released \cup {c \in Client : client[c] \in Open}
                   ELSE released
    /\ UNCHANGED <<daemon, log, backlog, clients, installed>>
Install(p) ==
    /\ installed' = p
    /\ UNCHANGED <<daemon, log, backlog, clients, kill, released>>

GateNext ==
    \/ StartServer
    \/ \E c \in Client : Accept(c)
    \/ Decided \/ Audit \/ Reply \/ Broken \/ Crash
    \/ \E c \in Client : Connect(c) \/ Send(c) \/ GiveUp(c)
    \/ FlipSwitch
    \/ \E p \in Policies : Install(p)

GateSpec == GateInit /\ [][GateNext]_gateVars

\* Clients have a timeout, and a daemon that is up goes on; nobody promises
\* that a client sends, or that the daemon is started again.
GateFairness ==
    /\ WF_gateVars(Decided \/ Audit \/ Reply \/ Broken)
    /\ WF_gateVars(\E c \in Client : Accept(c))
    /\ \A c \in Client : WF_gateVars(GiveUp(c))

GateFair == GateSpec /\ GateFairness
----------------------------------------------------------------------------
(* Type invariant. *)
GateTypeOK ==
    /\ server \in {"down", "idle", "receiving", "auditing", "sending"}
    /\ serving \in Client \cup {NoClient}
    /\ serving # NoClient <=> server \in {"receiving", "auditing", "sending"}
    /\ loaded \in Policies /\ installed \in Policies
    /\ draft \in [decision : Decisions, kill : BOOLEAN]
    /\ log \subseteq Record
    /\ backlog \subseteq Client
    /\ client \in [Client -> Open \cup {"idle", "ended"}]
    /\ request \in [Client -> Requests]
    /\ outcome \in [Client -> Decisions \cup {"none"}]
    /\ kill \in BOOLEAN
    /\ released \subseteq Client

\* No permission without its record: a client that exits with allow (or with
\* approval_required) is in the audit file with that decision, which is the one
\* its own request gets under the recorded policy with the kill switch off.
\* Crashes, timeouts and the answers to other clients do not change that.
AnswersAreAudited ==
    \A c \in Client : outcome[c] \in {"allow", "approval_required"} =>
        \E r \in log :
            /\ r.client = c /\ r.decision = outcome[c] /\ ~ r.kill
            /\ Decide(request[c], r.policy, FALSE) = r.decision

\* The kill switch needs no restart: a client that was there only while the
\* switch was on is denied.
KillSwitchHolds ==
    \A c \in Client \ released : outcome[c] \in {"none", "deny"}

\* The daemon has no timeout of its own on a connection; its clients' timeouts
\* are what keeps one silent client from blocking it for ever.
ConnectionsEnd == \A c \in Client : serving = c ~> serving # c
=============================================================================
