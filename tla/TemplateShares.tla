----------------------------- MODULE TemplateShares -----------------------------
(***************************************************************************)
(* Share links of the template: createShare, revokeShare and shared of     *)
(* TemplatesService (templates/templates.service.ts), next to everything   *)
(* Templates does.                                                         *)
(*                                                                         *)
(* Opening a link is a Serializable transaction that reads the share and   *)
(* counts the use.  It fails, and is not retried, when another transaction *)
(* has updated the row since its snapshot was taken.                       *)
(***************************************************************************)
EXTENDS Templates

CONSTANTS
  Share,  \* TemplateShare ids; bound: shares created
  View,   \* requests that open a link; bound: their number
  Limits  \* values of maxUses; {} is null

ASSUME LimitsAssumption == \A limit \in Limits : limit \subseteq Nat \ {0}

VARIABLES
  share, \* [Share -> row]
  view   \* [View -> transaction of shared]

shareVars == <<share, view>>

NoShare == [exists |-> FALSE]

SharesInit ==
  /\ Init
  /\ share = [s \in Share |-> NoShare]
  /\ view = [x \in View |-> Idle]

\* requireOwned, and the template has a current version now; nothing ties a share to either later.
CreateShare(s, limit) ==
  /\ ~share[s].exists
  /\ Live
  /\ template.current # "none"
  /\ share' = [share EXCEPT ![s] =
       [exists |-> TRUE, limit |-> limit, uses |-> 0, revoked |-> FALSE, expired |-> FALSE,
        final |-> 0]]
  /\ UNCHANGED <<vars, view>>

\* final, history: the uses when the share was revoked first.
RevokeShare(s) ==
  /\ share[s].exists
  /\ Live
  /\ share' = [share EXCEPT ![s].revoked = TRUE,
                            ![s].final = IF share[s].revoked THEN share[s].final
                                                             ELSE share[s].uses]
  /\ UNCHANGED <<vars, view>>

ShareExpires(s) ==
  /\ share[s].exists
  /\ share' = [share EXCEPT ![s].expired = TRUE]
  /\ UNCHANGED <<vars, view>>

Spent(row) == \E n \in row.limit : row.uses >= n

\* shared, its read: the template itself is not asked about.
SharedRead(x, s) ==
  /\ view[x].pc = "idle"
  /\ share[s].exists
  /\ ~share[s].revoked /\ ~share[s].expired /\ ~Spent(share[s])
  /\ view' = [view EXCEPT ![x] = [pc |-> "reading", share |-> s, row |-> share[s]]]
  /\ UNCHANGED <<vars, share>>

SharedCommitSlip(x) ==
  LET s == view[x].share
  IN /\ view[x].pc = "reading"
     /\ share' = [share EXCEPT ![s].uses = share[s].uses + 1]
     /\ view' = [view EXCEPT ![x] = [pc |-> "shown"]]
     /\ UNCHANGED vars

\* Its update and commit, if the row is the one it read; time passing is no update of the row.
SharedCommit(x) ==
  LET s == view[x].share
  IN /\ view[x].pc = "reading"
     /\ [share[s] EXCEPT !.expired = FALSE] = view[x].row
     /\ share' = [share EXCEPT ![s].uses = share[s].uses + 1]
     /\ view' = [view EXCEPT ![x] = [pc |-> "shown"]]
     /\ UNCHANGED vars

\* A serialization failure, or any other error; the visitor may try again.
SharedFails(x) ==
  /\ view[x].pc = "reading"
  /\ view' = [view EXCEPT ![x] = Idle]
  /\ UNCHANGED <<vars, share>>

SharesNext ==
  \/ Next /\ UNCHANGED shareVars
  \/ \E s \in Share :
       \/ \E limit \in Limits : CreateShare(s, limit)
       \/ RevokeShare(s) \/ ShareExpires(s)
       \/ \E x \in View : SharedRead(x, s)
  \/ \E x \in View : SharedCommit(x) \/ SharedFails(x)

SharesSpec == SharesInit /\ [][SharesNext]_<<vars, shareVars>>

-----------------------------------------------------------------------------
\* A link shows the template as often as it may and not once more, and never again once it has
\* been revoked, whatever is opened and revoked at the same time.
SharesHold ==
  \A s \in Share : share[s].exists =>
    /\ \A n \in share[s].limit : share[s].uses <= n
    /\ share[s].revoked => share[s].uses = share[s].final
=============================================================================
