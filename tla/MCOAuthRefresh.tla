----------------------------- MODULE MCOAuthRefresh -----------------------------
(* Processes for the model checking of OAuthRefresh: two threads of the bot *)
(* share a lock object, a login runs in a process of its own.               *)
EXTENDS OAuthRefresh

CONSTANTS chat, extraction, login

HomeOf == [c \in {chat, extraction, login} |->
              IF c = login THEN "login" ELSE "bot"]
=============================================================================
