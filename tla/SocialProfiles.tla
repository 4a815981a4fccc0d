----------------------------- MODULE SocialProfiles -----------------------------
(***************************************************************************)
(* What SocialAuthProviders (auth/social-auth.providers.ts) makes of what  *)
(* Google, GitHub and Facebook say of an account: whether the sign-in goes *)
(* on, the email it goes on with, and whether that is proof of a mailbox.  *)
(***************************************************************************)

CONSTANT User  \* a user is named by his email

SocialProvider == {"google", "github", "facebook"}

\* verified: of the email, in the provider's words; hosted: the email is of Gmail or of the domain
\* Google hosts for the account; owns: who uses the account reads that mailbox.
AccountFacts == [provider : SocialProvider, email : User \union {"none"},
                 verified : BOOLEAN, hosted : BOOLEAN, owns : BOOLEAN]

\* What the providers guarantee: Google for the mail it hosts, GitHub for a verified primary email.
Guaranteed(f) ==
  f.verified /\ f.email # "none" /\ (f.provider = "github" \/ (f.provider = "google" /\ f.hosted))
    => f.owns

GoogleSlip(f) == [ok |-> f.verified, email |-> f.email, trusted |-> f.email # "none"]

Google(f) == [ok |-> f.verified, email |-> f.email, trusted |-> f.email # "none" /\ f.hosted]

GitHub(f) == [ok |-> f.verified /\ f.email # "none", email |-> f.email, trusted |-> TRUE]

\* No word of Facebook's about the mailbox counts.
Facebook(f) == [ok |-> TRUE, email |-> f.email, trusted |-> FALSE]

ProfileForCode(f) ==
  CASE f.provider = "google" -> Google(f)
    [] f.provider = "github" -> GitHub(f)
    [] f.provider = "facebook" -> Facebook(f)
=============================================================================
