-------------------------------- MODULE Login --------------------------------
(***************************************************************************)
(* get_auth_token: how a new credential is obtained.  A china backend asks *)
(* for a password and perhaps a code; "import" takes the session of the    *)
(* Evernote desktop client; "desktop" asks for a pasted URL; "mcp" waits   *)
(* for a browser and for a pasted URL at once, with one thread for each.   *)
(*                                                                         *)
(* The module has no Next: Commands runs these steps inside a command.     *)
(***************************************************************************)
EXTENDS FiniteSetsExt, Sequences

CONSTANTS Users,         \* accounts
          None,
          DesktopUsers   \* sessions of the desktop client, in its order: account,
                         \* whether a file, a key and a refresh token are found

ASSUME LoginAssumption ==
    /\ None \notin Users /\ None \notin Nat
    /\ DesktopUsers \in Seq([user : Users, stored : BOOLEAN, key : BOOLEAN,
                             jwt_refresh : BOOLEAN])

\* A monolith token, an OAuth2 refresh token, or a bundle with both an access
\* and a refresh token; gen counts the refresh tokens of an account.
Token == [kind : {"monolith", "refresh", "bundle"}, user : Users, gen : Nat]

\* The options of init-db and reauth that decide how to log in.
Options == [oauth_method : {"desktop", "import", "mcp"}, oauth_en_user : Users \cup {None},
            terminal : BOOLEAN]

VARIABLES
    lpc,       \* next step of the login, "off" outside, "over" with its outcome
    token,     \* the outcome: a token, or None for a failure
    server,    \* the callback server: "down", "accepting" a connection, or
               \* "busy" with one
    callback,  \* callback_response
    reader,    \* the thread that reads one line: "off", "reading", "done"
    pasted,    \* the line it read
    stop_paste

login == <<lpc, token, server, callback, reader, pasted, stop_paste>>
waiting == <<server, callback, reader, pasted, stop_paste>>

LoginOff ==
    /\ lpc = "off" /\ token = None /\ server = "down" /\ callback = None
    /\ reader = "off" /\ pasted = None /\ stop_paste = FALSE

\* What a thread that is still in readline does from now on is not looked at.
StopWaitingThreads ==
    /\ server' = "down" /\ callback' = None
    /\ reader' = "off" /\ pasted' = None /\ stop_paste' = FALSE

StopLogin == lpc' = "off" /\ token' = None /\ StopWaitingThreads

Over(t) == lpc' = "over" /\ token' = t /\ StopWaitingThreads

Goto(step) == lpc' = step /\ UNCHANGED <<token, waiting>>

----------------------------------------------------------------------------
(* get_auth_token, and the ways without a browser.                         *)

GetAuthToken(backend, how) ==
    /\ lpc = "off"
    /\ IF backend = "china"           THEN Goto("password")
       ELSE IF how.oauth_method = "import" THEN Goto("import")
       ELSE IF ~ how.terminal              THEN Over(None)
       ELSE Goto(IF how.oauth_method = "mcp" THEN "authorize" ELSE "prompt")

\* prompt_credentials and authenticateLongSessionV2: refused, accepted, or a
\* second factor is asked for.  Without a terminal both options were given.
Password(how) ==
    /\ lpc = "password"
    /\ \/ Over(None)
       \/ \E u \in Users : Over([kind |-> "monolith", user |-> u, gen |-> 0])
       \/ Goto(IF how.terminal THEN "secondFactor" ELSE "noTerminal")

SecondFactor ==
    \/ /\ lpc = "secondFactor"
       /\ \/ Over(None)
          \/ \E u \in Users : Over([kind |-> "monolith", user |-> u, gen |-> 0])
    \/ lpc = "noTerminal" /\ Over(None)

\* Fault: the requested account is only a preference.
ChosenOrFirst(user_id) ==
    LET matching == {i \in DOMAIN DesktopUsers : /\ DesktopUsers[i].user = user_id
                                                 /\ DesktopUsers[i].key} IN
    IF matching # {} THEN DesktopUsers[Min(matching)]
    ELSE IF DesktopUsers # <<>> THEN DesktopUsers[1] ELSE None

\* extract_token picks the requested session, or the first one.
Chosen(user_id) ==
    LET matching == {i \in DOMAIN DesktopUsers : user_id \in {None, DesktopUsers[i].user}} IN
    IF matching = {} THEN None ELSE DesktopUsers[Min(matching)]

\* The file of the session, its key in the store of the system and its
\* decrypted content must all be there, and hold a refresh token.
Import(how, gen) ==
    /\ lpc = "import"
    /\ LET session == Chosen(how.oauth_en_user) IN
       IF session # None /\ session.stored /\ session.key /\ session.jwt_refresh
       THEN Over([kind |-> "refresh", user |-> session.user, gen |-> gen[session.user]])
       ELSE Over(None)

----------------------------------------------------------------------------
(* OAuth with a browser.  An answer is "code" or "error" (the user          *)
(* declined, or the URL does not carry a code).                            *)

Answers == {"code", "error"}

\* click.prompt for the redirect URL of the desktop client.
Prompt ==
    /\ lpc = "prompt"
    /\ \/ Goto("exchange")
       \/ Over(None)

\* register_mcp_client, and the callback server and both threads started.
Authorize ==
    /\ lpc = "authorize"
    /\ \/ Over(None)
       \/ /\ lpc' = "wait" /\ server' = "accepting" /\ reader' = "reading"
          /\ UNCHANGED <<token, callback, pasted, stop_paste>>

\* The browser connects.  The server has one thread, and does not accept
\* another connection once shutdown() has asked it to stop.
Connect ==
    /\ server = "accepting" /\ lpc = "wait"
    /\ server' = "busy"
    /\ UNCHANGED <<lpc, token, callback, reader, pasted, stop_paste>>

\* do_GET: the redirect, perhaps a second one, which replaces the first; or
\* another path; or the connection is closed without a request.
Serve ==
    /\ server = "busy"
    /\ callback' \in Answers \cup {callback}
    /\ server' = "accepting"
    /\ UNCHANGED <<lpc, token, reader, pasted, stop_paste>>

\* read_pasted_url: a line, or the end of the input.
Paste ==
    /\ reader = "reading"
    /\ reader' = "done"
    /\ pasted' \in IF stop_paste THEN {pasted} ELSE Answers \cup {pasted}
    /\ UNCHANGED <<lpc, token, server, callback, stop_paste>>

\* Fault: the loop waits for the browser alone.
StopWaitingForBrowser ==
    /\ lpc = "wait" /\ callback # None
    /\ stop_paste' = TRUE
    /\ lpc' = "shutdown"
    /\ UNCHANGED <<token, server, callback, reader, pasted>>

\* The loop of _wait_for_callback ends with the first of the two.
StopWaiting ==
    /\ lpc = "wait" /\ (callback # None \/ pasted # None)
    /\ stop_paste' = TRUE
    /\ lpc' = "shutdown"
    /\ UNCHANGED <<token, server, callback, reader, pasted>>

\* shutdown() and join() return when the server is not in a request.
Shutdown ==
    /\ lpc = "shutdown" /\ server = "accepting"
    /\ server' = "down"
    /\ lpc' = "answer"
    /\ UNCHANGED <<token, callback, reader, pasted, stop_paste>>

\* A redirect is preferred, also one that came while the server went down.
Answer ==
    /\ lpc = "answer"
    /\ IF (IF callback # None THEN callback ELSE pasted) = "code"
       THEN lpc' = "exchange" /\ StopWaitingThreads /\ UNCHANGED token
       ELSE Over(None)

\* get_access_token: the account is whoever authorised in the browser.
Exchange(gen) ==
    /\ lpc = "exchange"
    /\ \/ Over(None)
       \/ \E u \in Users : Over([kind |-> "bundle", user |-> u, gen |-> gen[u]])

\* What the program does, and what it waits for.
LoginProgram(backend, how, gen) ==
    \/ GetAuthToken(backend, how) \/ Password(how) \/ SecondFactor \/ Import(how, gen)
    \/ Prompt \/ Authorize \/ StopWaiting \/ Shutdown \/ Answer \/ Exchange(gen)

LoginInput == Connect \/ Paste

----------------------------------------------------------------------------
(* Properties.                                                             *)

LoginTypeOK ==
    /\ lpc \in {"off", "password", "secondFactor", "noTerminal", "import", "prompt",
                "authorize", "wait", "shutdown", "answer", "exchange", "over"}
    /\ token \in Token \cup {None}
    /\ server \in {"down", "accepting", "busy"}
    /\ callback \in Answers \cup {None} /\ pasted \in Answers \cup {None}
    /\ reader \in {"off", "reading", "done"}
    /\ stop_paste \in BOOLEAN
============================================================================
