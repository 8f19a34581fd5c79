--------------------------- MODULE Access_proofs ---------------------------
(***************************************************************************)
(* Access for any processes and any number of starts: a lone service is    *)
(* reachable, and only services that were not shut down leave a token file *)
(* behind.                                                                 *)
(***************************************************************************)
EXTENDS Access, TLAPS

\* What keeps the file right: a service that has been alone so far is the only one
\* up, and until it begins to stop the file is the one it wrote.
AloneInv ==
  \A p \in Processes : IsUp(p) /\ service[p].alone =>
    /\ \A q \in Processes \ {p} : ~IsUp(q)
    /\ service[p].at \in {"starting", "serving"} =>
         service[p].token # NoToken /\ file = service[p].token

\* Only minted tokens are about: what a process holds while it is up.
MintedInv == \A p \in Processes : IsUp(p) => service[p].token \in 1 .. minted

\* Every value stays of its type, and every token in use has been minted.
LEMMA TypeStep == TypeOK /\ MintedInv /\ [Next]_vars => TypeOK' /\ MintedInv'
<1> SUFFICES ASSUME TypeOK, MintedInv, [Next]_vars PROVE TypeOK' /\ MintedInv'
  OBVIOUS
<1> USE DEF TypeOK, MintedInv, Service, DownService, NoToken, IsUp
<1>1. ASSUME NEW p \in Processes, Start(p) PROVE TypeOK' /\ MintedInv'
  <2> DEFINE lone == \A r \in Processes \ {p} : ~IsUp(r)
             new == [at |-> "starting", token |-> minted + 1, alone |-> lone]
  <2>1. new \in Service
    <3>1. lone \in BOOLEAN
      OBVIOUS
    <3> HIDE DEF lone
    <3> QED
      BY <3>1
  <2>2. /\ service' = [q \in Processes |->
                         IF q = p THEN new ELSE [service[q] EXCEPT !.alone = FALSE]]
        /\ minted' = minted + 1 /\ file' = minted + 1 /\ abandoned' = abandoned
    BY <1>1 DEF Start
  <2>3. new.token = minted + 1
    OBVIOUS
  <2> HIDE DEF new
  <2>4. \A q \in Processes : [service[q] EXCEPT !.alone = FALSE] \in Service
    OBVIOUS
  <2>5. service' \in [Processes -> Service]
    BY <2>1, <2>2, <2>4 DEF TypeOK
  <2>6. \A q \in Processes \ {p} :
          service'[q].at = service[q].at /\ service'[q].token = service[q].token
    BY <2>2
  <2>7. service'[p].token = minted + 1
    BY <2>2, <2>3
  <2>8. MintedInv'
    BY <2>2, <2>6, <2>7
  <2> QED
    BY <2>2, <2>5, <2>8
<1>2. ASSUME NEW p \in Processes, StartFails(p) \/ Kill(p) PROVE TypeOK' /\ MintedInv'
  <2>1. service[p].token \in 1 .. minted
    BY <1>2 DEF StartFails, Kill
  <2>2. /\ service' = [service EXCEPT ![p] = DownService]
        /\ minted' = minted /\ file' = file
        /\ abandoned' = abandoned \cup {service[p].token}
    BY <1>2 DEF StartFails, Kill
  <2>3. service' \in [Processes -> Service]
    BY <2>2
  <2>4. abandoned' \subseteq 1 .. minted'
    BY <2>1, <2>2
  <2> QED
    BY <2>2, <2>3, <2>4
<1>3. ASSUME NEW p \in Processes, Bind(p) \/ BindFails(p) \/ Stop(p) PROVE TypeOK' /\ MintedInv'
  BY <1>3 DEF Bind, BindFails, Stop
<1>4. ASSUME NEW p \in Processes, Shutdown(p) PROVE TypeOK' /\ MintedInv'
  BY <1>4 DEF Shutdown
<1>5. CASE UNCHANGED vars
  BY <1>5 DEF vars
<1> QED
  BY <1>1, <1>2, <1>3, <1>4, <1>5 DEF Next

\* Every variable keeps its type, for any processes and any number of starts.
THEOREM TypeCorrect == Spec => [](TypeOK /\ MintedInv)
<1>1. Init => TypeOK /\ MintedInv
  BY DEF Init, TypeOK, MintedInv, Service, DownService, NoToken, IsUp
<1> QED
  BY <1>1, TypeStep, PTL DEF Spec

\* A step keeps AloneInv: only a start makes a process alone, and it ends the
\* solitude of every other.
LEMMA AloneStep == TypeOK /\ AloneInv /\ [Next]_vars => AloneInv'
<1> SUFFICES ASSUME TypeOK, AloneInv, [Next]_vars PROVE AloneInv'
  OBVIOUS
<1> USE DEF TypeOK, AloneInv, Service, DownService, NoToken, IsUp
<1>1. ASSUME NEW p \in Processes, Start(p) PROVE AloneInv'
  BY <1>1 DEF Start
<1>2. ASSUME NEW p \in Processes, StartFails(p) \/ Kill(p) PROVE AloneInv'
  BY <1>2 DEF StartFails, Kill
<1>3. ASSUME NEW p \in Processes, Bind(p) \/ BindFails(p) \/ Stop(p) PROVE AloneInv'
  BY <1>3 DEF Bind, BindFails, Stop
<1>4. ASSUME NEW p \in Processes, Shutdown(p) PROVE AloneInv'
  BY <1>4 DEF Shutdown
<1>5. CASE UNCHANGED vars
  BY <1>5 DEF vars
<1> QED
  BY <1>1, <1>2, <1>3, <1>4, <1>5 DEF Next

\* README.md:80-83 for any number of processes: "open" hands out the token of a
\* running service that no other "serve" has disturbed.
THEOREM LoneServiceIsReachable == Spec => []AloneIsReachable
<1>1. Init => AloneInv
  BY DEF Init, AloneInv, DownService, IsUp
<1>2. AloneInv => AloneIsReachable
  BY DEF AloneInv, AloneIsReachable, Serving, IsUp, Accepts, Opened
<1> QED
  BY <1>1, <1>2, TypeCorrect, AloneStep, PTL DEF Spec

\* A step keeps the file one of a process that is up or was abandoned.
LEMMA LeftoverStep == TypeOK /\ LeftoverOnlyAfterKill /\ [Next]_vars => LeftoverOnlyAfterKill'
<1> DEFINE Held == {service[p].token : p \in {q \in Processes : IsUp(q)}}
<1> SUFFICES ASSUME TypeOK, LeftoverOnlyAfterKill, [Next]_vars, file' # NoToken
             PROVE  file' \in abandoned' \cup Held'
  BY DEF LeftoverOnlyAfterKill
<1> USE DEF TypeOK, LeftoverOnlyAfterKill, Service, DownService, NoToken, IsUp
<1>1. ASSUME NEW p \in Processes, Start(p) PROVE file' \in abandoned' \cup Held'
  <2>1. service'[p].at # "down" /\ service'[p].token = file'
    BY <1>1 DEF Start
  <2> QED
    BY <2>1
<1>2. ASSUME NEW p \in Processes, StartFails(p) \/ Kill(p)
      PROVE  file' \in abandoned' \cup Held'
  <2>1. file' = file /\ abandoned' = abandoned \cup {service[p].token}
    BY <1>2 DEF StartFails, Kill
  <2>2. \A q \in Processes \ {p} : service'[q] = service[q]
    BY <1>2 DEF StartFails, Kill
  <2>3. file \in abandoned \/ \E q \in Processes : IsUp(q) /\ file = service[q].token
    BY <2>1
  <2> QED
    BY <2>1, <2>2, <2>3
<1>3. ASSUME NEW p \in Processes, Bind(p) \/ BindFails(p) \/ Stop(p)
      PROVE  file' \in abandoned' \cup Held'
  <2>1. file' = file /\ abandoned' = abandoned
    BY <1>3 DEF Bind, BindFails, Stop
  <2>2. \A q \in Processes : /\ service'[q].token = service[q].token
                             /\ IsUp(q) => service'[q].at # "down"
    BY <1>3 DEF Bind, BindFails, Stop
  <2>3. file \in abandoned \/ \E q \in Processes : IsUp(q) /\ file = service[q].token
    BY <2>1
  <2> QED
    BY <2>1, <2>2, <2>3
<1>4. ASSUME NEW p \in Processes, Shutdown(p) PROVE file' \in abandoned' \cup Held'
  BY <1>4 DEF Shutdown
<1>5. CASE UNCHANGED vars
  BY <1>5 DEF vars
<1> QED
  BY <1>1, <1>2, <1>3, <1>4, <1>5 DEF Next

\* However many services overlap, a token file that is there is of one that is up,
\* was killed or failed to start.
THEOREM LeftoversExplained == Spec => []LeftoverOnlyAfterKill
<1>1. Init => LeftoverOnlyAfterKill
  BY DEF Init, LeftoverOnlyAfterKill
<1> QED
  BY <1>1, TypeCorrect, LeftoverStep, PTL DEF Spec
=============================================================================
