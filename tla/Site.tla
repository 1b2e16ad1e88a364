-------------------------------- MODULE Site --------------------------------
(***************************************************************************)
(* Accounts, their assets and the newsletter, served by one application.   *)
(***************************************************************************)
EXTENDS Assets, Newsletter

siteVars == <<accountVars, assetVars, newsVars, requestVars>>

SiteInit == AssetsInit /\ NewsletterInit

SiteNext ==
    \/ AssetsNext /\ UNCHANGED newsVars
    \/ NewsletterNext /\ UNCHANGED accountVars /\ UNCHANGED assetVars

SiteSpec == SiteInit /\ [][SiteNext]_siteVars

(* Types.                                                                  *)
SiteTypeOK ==
    /\ \A u \in Ids : Exists(u) =>
          /\ u <= born
          /\ DOMAIN accounts[u] = {"email", "password", "verified", "photo"}
          /\ accounts[u].email \in Emails
          /\ accounts[u].password \in BOOLEAN /\ accounts[u].verified \in BOOLEAN
    /\ links \in [Subjects -> Ids \cup {None}]
    /\ states \subseteq 1..minted
    /\ \A b \in Logos : badges[b] # None =>
          Exists(badges[b].owner) /\ badges[b].live \in BOOLEAN
    /\ Referenced \cup store \cup leaks \subseteq {Asset(n) : n \in 1..upload}
    /\ subscriber # None => subscriber.token \in 1..tokens /\ mailed \subseteq 1..tokens
=============================================================================
