--------------------------- MODULE MCMailAndClient ---------------------------
(* Small instances, side by side, of the mailbox and of the requests one      *)
(* process sends to TiFlux.  A behaviour is of one of the two: focus says     *)
(* which.                                                                     *)
EXTENDS MCEmailIngest, TifluxClient

VARIABLE focus

-----------------------------------------------------------------------------
\* A short pause, and one that outlives the timeout of a request.
ShortAndLong == {1, 4}

allVars == <<focus, vars, clientVars>>

InitOfOne ==
    /\ focus \in {"mail", "client"}
    /\ Init
    /\ focus = "client" => redis /\ kind = <<"reply", "outsideReply">>
    /\ ClientInit

MailOnly(A) == focus = "mail" /\ A /\ UNCHANGED <<focus, clientVars>>
ClientOnly(A) == focus = "client" /\ A /\ UNCHANGED <<focus, vars>>

NextOfOne == MailOnly(Next) \/ ClientOnly(ClientNext)

\* The fairness of the two specifications.
SpecOfOne ==
    /\ InitOfOne /\ [][NextOfOne]_allVars
    /\ WF_allVars(MailOnly(BeginPoll(Cron)))
    /\ \A p \in Workers : WF_allVars(MailOnly(TakeJob(p)))
    /\ \A p \in Processes : WF_allVars(MailOnly(Ingest(p)))
    /\ WF_allVars(ClientOnly(TimePasses))
    /\ \A n \in Calls : WF_allVars(ClientOnly(GoOn(n)))

\* The types of the mail and its jobs, and of the calls and the clocks.
TypesOK == TypeOK /\ ClientTypeOK
=============================================================================
