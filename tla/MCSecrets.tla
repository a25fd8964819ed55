----------------------------- MODULE MCSecrets --------------------------------
(* The two key hierarchies, part by part as in MCPage: the master key of an  *)
(* account on two devices, and the key of a shared book of an owner, an      *)
(* editor and a third user.                                                  *)
EXTENDS Accounts, SharedBook, TLC

CONSTANTS d1, d2, cat, pw1, pw2, alice, bob, carol

VARIABLE part

secretsVars == <<part, accountVars, bookVars>>

SecretsInit ==
  /\ part \in {"account", "book"}
  /\ AccountInit /\ SharedBookInit /\ (part = "book" => auth = NoCred)

SecretsNext ==
  /\ UNCHANGED part
  /\ \/ part = "account" /\ AccountNext
     \/ part # "account" /\ UNCHANGED accountVars
  /\ \/ part = "book" /\ SharedBookNext
     \/ part # "book" /\ UNCHANGED bookVars

(* Each part with the fairness of its own specification.                     *)
SecretsSpec ==
  /\ SecretsInit /\ [][SecretsNext]_secretsVars
  /\ \A d \in Devices :
       /\ WF_accountVars(part = "account" /\ Check(d)) /\ WF_accountVars(part = "account" /\ Register(d))
       /\ WF_accountVars(part = "account" /\ Serve(d)) /\ WF_accountVars(part = "account" /\ Receive(d))
  /\ \A u \in Users : WF_bookVars(part = "book" /\ Browser(u))

(* The types of both.                                                        *)
SecretsTypeOK ==
  /\ AccountTypeOK /\ SharedBookTypeOK
===============================================================================
