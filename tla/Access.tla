------------------------------- MODULE Access -------------------------------
(***************************************************************************)
(* How "pkm-sidecar open" and the launcher learn the bearer token of the   *)
(* running service when none is configured (security.py, app.py, cli.py).  *)
(*                                                                         *)
(* A starting service mints a token and writes it to a file named after    *)
(* the port, before uvicorn binds the port; a service that shuts down      *)
(* removes the file.  Nothing keeps a second "serve" from starting while   *)
(* another runs or is still shutting down, and a killed service, or one    *)
(* whose startup raises, leaves its file behind.                           *)
(*                                                                         *)
(* Minted tokens are distinct, so they are numbered; with a configured     *)
(* token no file is read or written and there is nothing to model.         *)
(***************************************************************************)
EXTENDS Naturals

CONSTANTS
  Processes,  (* "serve" processes for one port                            *)
  MaxStarts   (* bound: starts of them                                     *)

ASSUME AccessAssumption == MaxStarts \in Nat

VARIABLES
  service,    (* each process                                              *)
  file,       (* the token file                                            *)
  minted,     (* tokens minted so far                                      *)
  abandoned   (* history: tokens of processes that never shut down         *)

vars == <<service, file, minted, abandoned>>

NoToken == 0

\* alone (history): no other process was up at any time since this one started.
Service == [at : {"down", "starting", "serving", "stopping"}, token : Nat, alone : BOOLEAN]

DownService == [at |-> "down", token |-> NoToken, alone |-> FALSE]

TypeOK ==
  /\ service \in [Processes -> Service]
  /\ file \in Nat
  /\ minted \in Nat
  /\ abandoned \subseteq 1 .. minted

Init ==
  /\ service = [p \in Processes |-> DownService]
  /\ file = NoToken
  /\ minted = 0
  /\ abandoned = {}

IsUp(p) == service[p].at # "down"
Serving == {p \in Processes : service[p].at = "serving"}

\* The token "open" puts into the dashboard's URL; NoToken: it exits 1.
Opened == file

\* verify_bearer_token
Accepts(p, token) == token # NoToken /\ token = service[p].token

-----------------------------------------------------------------------------

\* Mutant: a token file that is already there is kept.
Start_KeepsFile(p) ==
  LET token == minted + 1
  IN  /\ ~IsUp(p)
      /\ minted < MaxStarts
      /\ minted' = token
      /\ file' = IF file = NoToken THEN token ELSE file
      /\ service' = [q \in Processes |->
                       IF q = p THEN [at    |-> "starting",
                                      token |-> token,
                                      alone |-> \A r \in Processes \ {p} : ~IsUp(r)]
                       ELSE [service[q] EXCEPT !.alone = FALSE]]
      /\ UNCHANGED abandoned

\* The lifespan up to resolve_api_token: before the port is bound.
Start(p) ==
  LET token == minted + 1
  IN  /\ ~IsUp(p)
      /\ minted < MaxStarts
      /\ minted' = token
      /\ file' = token
      /\ service' = [q \in Processes |->
                       IF q = p THEN [at    |-> "starting",
                                      token |-> token,
                                      alone |-> \A r \in Processes \ {p} : ~IsUp(r)]
                       ELSE [service[q] EXCEPT !.alone = FALSE]]
      /\ UNCHANGED abandoned

\* The rest of the startup raises, outside the lifespan's try.
StartFails(p) ==
  /\ service[p].at = "starting"
  /\ service' = [service EXCEPT ![p] = DownService]
  /\ abandoned' = abandoned \cup {service[p].token}
  /\ UNCHANGED <<file, minted>>

Bind(p) ==
  /\ service[p].at = "starting"
  /\ Serving = {}
  /\ service' = [service EXCEPT ![p].at = "serving"]
  /\ UNCHANGED <<file, minted, abandoned>>

\* The port is taken: uvicorn ends the lifespan it has already started.
BindFails(p) ==
  /\ service[p].at = "starting"
  /\ Serving # {}
  /\ service' = [service EXCEPT ![p].at = "stopping"]
  /\ UNCHANGED <<file, minted, abandoned>>

\* SIGTERM: the port is closed before the lifespan ends.
Stop(p) ==
  /\ service[p].at = "serving"
  /\ service' = [service EXCEPT ![p].at = "stopping"]
  /\ UNCHANGED <<file, minted, abandoned>>

\* Mutant: the file is left for the next start to overwrite.
Shutdown_KeepsFile(p) ==
  /\ service[p].at = "stopping"
  /\ service' = [service EXCEPT ![p] = DownService]
  /\ UNCHANGED <<file, minted, abandoned>>

\* Once the indexer has stopped: whatever file is there is removed.
Shutdown(p) ==
  /\ service[p].at = "stopping"
  /\ service' = [service EXCEPT ![p] = DownService]
  /\ file' = NoToken
  /\ UNCHANGED <<minted, abandoned>>

Kill(p) ==
  /\ IsUp(p)
  /\ service' = [service EXCEPT ![p] = DownService]
  /\ abandoned' = abandoned \cup {service[p].token}
  /\ UNCHANGED <<file, minted>>

Next ==
  \E p \in Processes :
    Start(p) \/ StartFails(p) \/ Bind(p) \/ BindFails(p) \/ Stop(p) \/ Shutdown(p) \/ Kill(p)

Spec == Init /\ [][Next]_vars

-----------------------------------------------------------------------------
(* Properties                                                              *)

\* README.md:80-83: the dashboard receives the token of the running service from
\* "pkm-sidecar open".  It does while no second "serve" has been started on the
\* port, whatever files earlier services left behind.
AloneIsReachable ==
  \A p \in Serving : service[p].alone => Accepts(p, Opened)

\* cli.py:553-560: "No API token found.  Start the server first": a file that is
\* there is of a service that is up, or of one that was killed or failed to start.
\* Overlapping services never leave any other behind.
LeftoverOnlyAfterKill ==
  file # NoToken =>
    file \in abandoned \cup {service[p].token : p \in {q \in Processes : IsUp(q)}}
=============================================================================
