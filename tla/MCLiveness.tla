----------------------------- MODULE MCLiveness -----------------------------
(* TLC instance of OidcFlow, and of what must happen in the end: OidcFlow,   *)
(* Enrollment, Login and DashboardLinks under the fairness of each, one of   *)
(* them in a behaviour.                                                      *)
EXTENDS OidcFlow

CONSTANTS Workers, Kinds, Links, Sessions, Challenges, Creds,
          Threads, Counting, Options, Browsers, MaxCount,
          Dashboards, Icons, Uploaders, MaxCuts

VARIABLES
    part,
    members, links, regSessions, passkeys, asked, enrolling, registered, stranded, outstanding,
    accounts, creds, options, sessions, device, signed, temp, cookie, loggedOut, login, overtaken,
    dashboards, files, upload, cuts, cutIcons, left

enrolmentVars == <<members, links, regSessions, passkeys, asked, enrolling, registered,
                   stranded, outstanding>>
loginVars == <<accounts, creds, options, sessions, device, signed, temp, cookie, loggedOut,
               login, overtaken>>
dashboardVars == <<dashboards, files, upload, cuts, cutIcons, left>>

\* What these two promise is promised while the server and its database run.
Enrolment == INSTANCE Enrollment WITH Reqs <- Workers, MayBreak <- FALSE, users <- members,
                  sessions <- regSessions, creds <- passkeys, req <- enrolling
Logins == INSTANCE Login WITH Reqs <- Threads, MayBreak <- FALSE, users <- accounts, req <- login
Dashboard == INSTANCE DashboardLinks WITH Links <- Dashboards, links <- dashboards,
                                          Keys <- {}, Texts <- {}, Empty <- None

\* A PENDING user logs in as a VERIFIED one does (MCLogin has both).
LiveInit ==
    /\ part \in {"enrolment", "login", "flow", "dashboard"}
    /\ Enrolment!Init /\ Logins!Init /\ Init /\ Dashboard!LinksInit
    /\ \A u \in Users : accounts[u].status = "verified"

\* One client at a time is switched off or has lost its scopes.
OneEdited ==
    /\ \A c \in Clients : clients'[c].active \/ clients'[c].scopes = Scopes
    /\ \E d \in Clients : \A c \in Clients \ {d} :
            clients'[c] = [active |-> TRUE, uris |-> Uris, scopes |-> Scopes]

LiveNext ==
    \/ part = "enrolment" /\ Enrolment!Next /\ UNCHANGED <<part, loginVars, vars, dashboardVars>>
    \/ part = "login" /\ Logins!Next /\ UNCHANGED <<part, enrolmentVars, vars, dashboardVars>>
    \/ part = "flow" /\ Next /\ OneEdited /\ UNCHANGED <<part, enrolmentVars, loginVars, dashboardVars>>
    \/ part = "dashboard" /\ Dashboard!LinksNext /\ UNCHANGED <<part, enrolmentVars, loginVars, vars>>

\* That of FairSpec in Enrollment, Login and OidcFlow, and LinksFairness.
Fairness ==
    /\ \A w \in Workers : WF_enrolmentVars(Enrolment!Advance(w))
    /\ \A t \in Threads : WF_loginVars(Logins!Advance(t))
    /\ WF_vars(AdvanceExchange)
    /\ \A t \in Uploaders : WF_dashboardVars(Dashboard!LinksAdvance(t))

LiveSpec == LiveInit /\ [][LiveNext]_<<part, enrolmentVars, loginVars, vars, dashboardVars>> /\ Fairness

\* A consumed one-time link opens a registration session, while the server
\* runs and its user exists.
ConsumedLinkOpensSession == Enrolment!ConsumedLinkOpensSession
\* A user that register/verify has promoted gets a credential, or its INSERT
\* is refused, or the user is deleted.
VerifiedGetsCredential == Enrolment!VerifiedGetsCredential
\* An accepted assertion becomes a session, unless its credential is deleted.
AcceptedOpensSession == Logins!AcceptedOpensSession
\* A dashboard link whose icon was deleted gets another.
IconComesBack == Dashboard!IconComesBack
=============================================================================
