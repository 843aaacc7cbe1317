-------------------------------- MODULE OAuth --------------------------------
(***************************************************************************)
(* src/oauth.go: getOAuthClient reads the token cache file, falls back to  *)
(* tokenFromWeb (an /auth handler that hands the code to the main          *)
(* goroutine over an unbuffered channel, then t.Exchange), saves the new   *)
(* token with saveToken, and builds the client; tokenKicker then refreshes *)
(* the access token forever.  The process may crash at any step and is     *)
(* started again; the cache file survives.                                 *)
(*                                                                         *)
(* A token is the number of the exchange that issued it.  The cache file   *)
(* holds a token, does not exist (NoFile), or holds a truncated gob        *)
(* (Truncated: created by os.Create, not fully encoded).  The access       *)
(* token's expiry is the flag "fresh".  Each process run's randState is   *)
(* its own (time.Now().UnixNano()); the model names it by the run's number *)
(* (crashes).  The browser keeps the consent pages it opened across        *)
(* restarts of the program.                                                *)
(***************************************************************************)
EXTENDS Integers

CONSTANTS
    CacheToken,        \* the --cachetoken flag
    MaxHandlers,       \* bound: /auth handler goroutines alive at once
    MaxCrashes,        \* bound: process crashes (and restarts)
    MaxExchangeFails,  \* bound: failed t.Exchange calls
    MaxSaveFails       \* bound: failed MkdirAll/os.Create or gob Encode

ASSUME CacheToken \in BOOLEAN

VARIABLES
    file,       \* contents of the token cache file
    pc,         \* the main goroutine in getOAuthClient
    token,      \* the token in hand (0: none)
    handler,    \* tokenFromWeb has registered the /auth handler
    senders,    \* /auth handler goroutines blocked on ch <- code
    fresh,      \* the transport's access token has not expired
    kicker,     \* the tokenKicker goroutine
    issued,     \* tokens issued by the server so far
    revoked,    \* tokens the user has revoked
    opener,     \* openUrl: the entry of try it runs next, or 0 (not running)
    tabs,       \* randStates of the consent pages open in the browser
    crashes, exfails, savefails

browserVars == <<opener, tabs>>
vars == <<file, pc, token, handler, senders, fresh, kicker, issued, revoked,
          crashes, exfails, savefails, browserVars>>

\* openUrl's try list: xdg-open, google-chrome, open.
Browsers == 1..3

NoFile    == -1
Truncated == 0

TypeOK ==
    /\ file \in NoFile..issued
    /\ pc \in {"start", "wait", "exchange", "save", "encode", "running", "exited"}
    /\ token \in 0..issued /\ issued \in Nat /\ revoked \subseteq 1..issued
    /\ handler \in BOOLEAN /\ senders \in Nat /\ fresh \in BOOLEAN /\ kicker \in {"off", "loop"}
    /\ senders \in 0..MaxHandlers /\ crashes \in 0..MaxCrashes
    /\ exfails \in 0..MaxExchangeFails /\ savefails \in 0..MaxSaveFails
    /\ opener \in 0..3 /\ tabs \subseteq 0..MaxCrashes

Init ==
    /\ file = NoFile /\ pc = "start" /\ token = 0 /\ handler = FALSE
    /\ senders = 0
    /\ fresh = FALSE /\ kicker = "off" /\ issued = 0 /\ revoked = {}
    /\ crashes = 0 /\ exfails = 0 /\ savefails = 0
    /\ opener = 0 /\ tabs = {}

\* tokenFromFile: with --cachetoken false, or when the file cannot be opened
\* or gob-decoded (a truncated file decodes with an error), an error ({});
\* otherwise the decoded token.
\* Mutant of TokenFromFile: the Decode error is dropped, so a truncated
\* file yields the zero Token.
TokenFromFileNoDecodeCheck(f) ==
    IF CacheToken /\ f # NoFile THEN {f} ELSE {}

TokenFromFile(f) == IF CacheToken /\ f > Truncated THEN {f} ELSE {}

\* getOAuthClient: tokenFromFile(tokenCacheFile(config)); on an error
\* tokenFromWeb registers /auth, starts openUrl and waits on ch.  A token
\* read from the file may carry an expired access token.
ReadCache ==
    /\ pc = "start"
    /\ IF TokenFromFile(file) # {}
       THEN /\ \E t \in TokenFromFile(file) : token' = t
            /\ pc' = "running" /\ kicker' = "loop"
            /\ \E f \in BOOLEAN : fresh' = f
            /\ UNCHANGED <<handler, opener>>
       ELSE /\ pc' = "wait" /\ handler' = TRUE /\ opener' = 1
            /\ UNCHANGED <<token, kicker, fresh>>
    /\ UNCHANGED <<file, senders, issued, revoked, crashes, exfails, savefails, tabs>>

\* Mutant of GoodCallback: the handler rejects the state it was given.
GoodCallbackStateMismatch ==
    /\ handler
    /\ UNCHANGED vars

\* A consent page of this run (its URL carries this run's randState)
\* redirects to /auth with the state and a code; net/http runs the
\* handler in a goroutine of its own, which flushes "Success" and blocks
\* on ch <- code.
GoodCallback ==
    /\ handler /\ crashes \in tabs /\ senders < MaxHandlers
    /\ senders' = senders + 1
    /\ UNCHANGED <<file, pc, token, handler, fresh, kicker, issued, revoked, crashes,
                   exfails, savefails, browserVars>>

\* A redirect from a consent page of an earlier run (a state that does not
\* match), or one without a code (consent denied), gets a 500 and returns.
BadCallback ==
    /\ handler /\ tabs # {}
    /\ UNCHANGED vars

\* openUrl: exec.Command(bin, url).Run() for each bin of try in turn; the
\* first that succeeds opens the consent page of this run's randState.
\* When all fail it logs "Error opening URL in browser." and returns.
OpenTry ==
    /\ opener \in Browsers
    /\ \/ /\ tabs' = tabs \cup {crashes} /\ opener' = 0
       \/ /\ opener' = IF opener = 3 THEN 0 ELSE opener + 1
          /\ UNCHANGED tabs
    /\ UNCHANGED <<file, pc, token, handler, senders, fresh, kicker, issued, revoked,
                   crashes, exfails, savefails>>

\* The user opens the URL tokenFromWeb logged ("Authorize this app at").
UserOpen ==
    /\ handler /\ crashes \notin tabs
    /\ tabs' = tabs \cup {crashes}
    /\ UNCHANGED <<file, pc, token, handler, senders, fresh, kicker, issued, revoked,
                   crashes, exfails, savefails, opener>>

\* Mutant of Receive: the receive does not wait for a sender (a select
\* with a default branch).
ReceiveNoSender ==
    /\ pc = "wait"
    /\ senders' = senders - 1 /\ pc' = "exchange"
    /\ UNCHANGED <<file, token, handler, fresh, kicker, issued, revoked,
                   crashes, exfails, savefails, browserVars>>

\* tokenFromWeb: code := <-ch takes the code from one blocked handler.
Receive ==
    /\ pc = "wait" /\ senders > 0
    /\ senders' = senders - 1 /\ pc' = "exchange"
    /\ UNCHANGED <<file, token, handler, fresh, kicker, issued, revoked,
                   crashes, exfails, savefails, browserVars>>

\* t.Exchange(code): a new token, or log.Fatalf, which ends the process.
Exchange ==
    /\ pc = "exchange"
    /\ \/ /\ issued' = issued + 1 /\ token' = issued + 1 /\ fresh' = TRUE
          /\ pc' = "save" /\ UNCHANGED <<exfails, handler, senders, opener>>
       \/ /\ exfails < MaxExchangeFails /\ exfails' = exfails + 1
          /\ pc' = "exited" /\ handler' = FALSE /\ senders' = 0 /\ opener' = 0
          /\ UNCHANGED <<issued, token, fresh>>
    /\ UNCHANGED <<file, kicker, revoked, crashes, savefails, tabs>>

\* saveToken: MkdirAll or os.Create may fail (a warning, nothing written,
\* the old file is left); os.Create otherwise truncates the file.
SaveCreate ==
    /\ pc = "save"
    /\ \/ /\ file' = Truncated /\ pc' = "encode" /\ UNCHANGED <<savefails, kicker>>
       \/ /\ savefails < MaxSaveFails /\ savefails' = savefails + 1
          /\ pc' = "running" /\ kicker' = "loop" /\ UNCHANGED file
    /\ UNCHANGED <<token, handler, senders, fresh, issued, revoked, crashes, exfails, browserVars>>

\* gob.NewEncoder(f).Encode(token), whose error is ignored; then the
\* transport is built and the client returned (tokenKicker starts).
SaveEncode ==
    /\ pc = "encode"
    /\ \/ /\ file' = token /\ UNCHANGED savefails
       \/ /\ savefails < MaxSaveFails /\ savefails' = savefails + 1
          /\ UNCHANGED file
    /\ pc' = "running" /\ kicker' = "loop"
    /\ UNCHANGED <<token, handler, senders, fresh, issued, revoked, crashes, exfails, browserVars>>

\* tokenKicker: time.Sleep(interval); transport.Refresh().  A refresh of a
\* revoked token fails, is logged, and the loop goes on.
Kick ==
    /\ kicker = "loop"
    /\ fresh' = (token \notin revoked \/ fresh)
    /\ UNCHANGED <<file, pc, token, handler, senders, kicker, issued, revoked,
                   crashes, exfails, savefails, browserVars>>

\* The access token's expiry passes.
Expire ==
    /\ fresh /\ fresh' = FALSE
    /\ UNCHANGED <<file, pc, token, handler, senders, kicker, issued, revoked,
                   crashes, exfails, savefails, browserVars>>

\* The user revokes the token the program holds.
Revoke ==
    /\ token # 0 /\ token \notin revoked
    /\ revoked' = revoked \cup {token} /\ fresh' = FALSE
    /\ UNCHANGED <<file, pc, token, handler, senders, kicker, issued, crashes,
                   exfails, savefails, browserVars>>

\* The process dies (or exited by log.Fatalf) and is started again; all
\* goroutines are gone, the cache file stays.
Crash ==
    /\ crashes < MaxCrashes
    /\ crashes' = crashes + 1
    /\ pc' = "start" /\ token' = 0 /\ handler' = FALSE /\ senders' = 0 /\ fresh' = FALSE
    /\ kicker' = "off" /\ opener' = 0
    /\ UNCHANGED <<file, issued, revoked, exfails, savefails, tabs>>

\* log.Fatalf ended the program and it is not started again.
Terminated ==
    /\ pc = "exited" /\ crashes = MaxCrashes
    /\ UNCHANGED vars

Next ==
    \/ ReadCache \/ GoodCallback \/ BadCallback \/ Receive \/ Exchange \/ SaveCreate \/ SaveEncode
    \/ OpenTry \/ UserOpen \/ Kick \/ Expire \/ Revoke \/ Crash \/ Terminated

\* The main goroutine, openUrl and tokenKicker run when they can; the
\* user, once the browser shows this run's consent page, completes it (a
\* request arrives), and opens the logged URL when no browser opened it.
Fairness ==
    /\ WF_vars(ReadCache) /\ WF_vars(Receive) /\ WF_vars(Exchange)
    /\ WF_vars(SaveCreate) /\ WF_vars(SaveEncode) /\ WF_vars(Kick) /\ WF_vars(OpenTry)
    /\ WF_vars(opener = 0 /\ UserOpen)
    /\ WF_vars(pc = "wait" /\ senders = 0 /\ GoodCallback)

Spec == Init /\ [][Next]_vars
FairSpec == Spec /\ Fairness

-----------------------------------------------------------------------------
(* Properties *)

\* The client getOAuthClient returns carries a token the server issued:
\* never the zero token of a truncated or unreadable cache file, also when
\* the process died between saveToken's os.Create and its Encode.
ClientTokenIssued ==
    pc = "running" => token \in 1..issued

\* getOAuthClient eventually returns a client and the program keeps it,
\* unless t.Exchange failed and log.Fatalf ended the program for good: it
\* never stays waiting for the /auth code or between the steps of saveToken.
EventuallyClient == <>[](pc = "running") \/ <>[](pc = "exited")

\* Every /auth handler goroutine blocked on ch <- code eventually returns.
HandlersReturn ==
    (senders > 0) ~> (senders = 0)
=============================================================================
