--------------------------- MODULE StatusRefresh ---------------------------
(***************************************************************************)
(* The two ways a Docker inspection ends up in the servers table:          *)
(* refreshServerStatus (serverStatus.ts), called by both ticks, the list   *)
(* route and the event streams, and GET /:id/status (routes/servers.ts).   *)
(***************************************************************************)
EXTENDS PanelState

\* A refresh begins: not while the server is owned or prepared.  The
\* inspection answers some time later; what it reports is sampled here: if the
\* row changes before the answer is applied the answer is dropped, and if it
\* does not, a refresh that begins later reports the same.
RefreshBegin(a, s) ==
  /\ pc[a] = "idle"
  /\ s \notin busy \cup preparing
  /\ \E seen \in Inspect(rec[s].status, ctr[s]) : obs' = [obs EXCEPT ![a] = seen]
  /\ at' = [at EXCEPT ![a] = s]
  /\ op' = [op EXCEPT ![a] = "refresh"]
  /\ Go(a, "rf_apply")
  /\ UNCHANGED <<rowVars, intent, memVars, listener, empty, dockVars, snap, todo>>

\* Broken on purpose (for OwnerWrites): only the row is compared.
OutdatedRowOnly(a) == a \in stale

\* The reading is out of date: the server is owned by now, or its row was
\* written since (containerId, status, hibernated and updatedAt are compared).
Outdated(a) == at[a] \in busy \cup preparing \/ a \in stale

\* Docker runs a server the record believes asleep: it was started outside the panel.
Awake(a) == rec[at[a]].hibernated /\ obs[a] \in Live

\* The reading is applied, unless it is out of date or says nothing new.
RefreshApply(a) ==
  LET s     == at[a]
      write == ~Outdated(a) /\ (obs[a] # rec[s].status \/ Awake(a))
  IN /\ pc[a] = "rf_apply"
     /\ rec' = IF write
                 THEN [rec EXCEPT ![s] = Settled([rec[s] EXCEPT
                        !.status = obs[a],
                        !.hibernated = rec[s].hibernated /\ ~Awake(a)])]
                 ELSE rec
     /\ stale' = (IF write THEN stale \cup Refreshing(s) ELSE stale) \ {a}
     /\ Forget(a)
     /\ UNCHANGED <<intent, memVars, listener, empty, dockVars>>

\* GET /:id/status looks at `preparing` once, before it asks Docker ...
ReadBegin(a, s) ==
  /\ pc[a] = "idle"
  /\ s \notin preparing
  /\ at' = [at EXCEPT ![a] = s]
  /\ op' = [op EXCEPT ![a] = "read"]
  /\ snap' = [snap EXCEPT ![a] = rec[s]]
  /\ Go(a, "rd_inspect")
  /\ UNCHANGED <<rowVars, intent, memVars, listener, empty, dockVars, obs, todo>>

ReadInspect(a) ==
  /\ pc[a] = "rd_inspect"
  /\ \E seen \in Inspect(snap[a].status, ctr[at[a]]) : obs' = [obs EXCEPT ![a] = seen]
  /\ Go(a, "rd_apply")
  /\ UNCHANGED <<rowVars, intent, memVars, listener, empty, dockVars, op, at, snap, todo>>

\* Broken on purpose (for OwnerKeeps): the record read at first is written back.
ReadApplyRecord(a) ==
  /\ pc[a] = "rd_apply"
  /\ Write(at[a], [snap[a] EXCEPT !.status = obs[a]])
  /\ Forget(a)
  /\ UNCHANGED <<intent, memVars, listener, empty, dockVars>>

\* ... and writes whatever Docker said then.
ReadApply(a) ==
  /\ pc[a] = "rd_apply"
  /\ SetStatus(at[a], obs[a])
  /\ Forget(a)
  /\ UNCHANGED <<intent, memVars, listener, empty, dockVars>>

RefreshNext == \E a \in Refresher : RefreshApply(a) \/ \E s \in Server : RefreshBegin(a, s)

ReadNext == \E a \in Reader :
  ReadInspect(a) \/ ReadApply(a) \/ \E s \in Server : ReadBegin(a, s)
=============================================================================
