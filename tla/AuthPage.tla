-------------------------------- MODULE AuthPage --------------------------------
(* AuthPage.jsx: sign in, Google, register with a mailed code, forgotten       *)
(* password; with the handlers of auth.go it calls. What is typed into a field *)
(* that only its own submit reads is chosen at the submit.                     *)
EXTENDS WebPage

CONSTANTS
    Mailboxes,     \* the emails whose mail the user of the page reads
    Passwords,
    Short,         \* the passwords of less than six characters
    Unknown,       \* the random password of an account made by Google
    MaxCodes,      \* bound: codes made
    MaxAuthCalls   \* bound: requests in flight

ASSUME AuthAssumption ==
    /\ Mailboxes \subseteq Users /\ Short \subseteq Passwords
    /\ Nobody \notin Passwords /\ Unknown \notin Passwords \cup {Nobody}
    /\ MaxCodes \in Nat /\ MaxAuthCalls \in Nat

VARIABLES
    form,         \* the state of the page
    authCalls,    \* requests in flight
    accounts,     \* the password of each account, Nobody: no account
    codes,        \* Redis: the code kept for an email, 0 for none
    mail,         \* mails delivered
    lastCode      \* number of codes made; random codes are taken to be distinct

authVars == <<form, authCalls, accounts, codes, mail, lastCode>>

\* A code of six digits that was never mailed, and a shorter one.
WrongCode == 0
BadCode   == -1

Credentials == Passwords \cup {Unknown}

AuthTypeOK ==
    /\ form \in [mode : {"login", "register", "forgot"}, loading : BOOLEAN,
                 regEmail : Users \cup {Nobody}, otpSent : BOOLEAN, countdown : BOOLEAN,
                 forgotEmail : Users \cup {Nobody}, forgotOtpSent : BOOLEAN,
                 forgotCountdown : BOOLEAN, resetDone : BOOLEAN]
    /\ authCalls \subseteq
         [kind : {"login", "google", "sendOtp", "register", "forgotOtp", "reset"}, at : Phases,
          email : Users \cup {Nobody}, pass : Passwords \cup {Nobody}, code : 0..MaxCodes]
    /\ accounts \in [Users -> Credentials \cup {Nobody}]
    /\ codes \in [{"register", "reset"} -> [Users -> 0..MaxCodes]]
    /\ mail \subseteq [to : Users, code : 1..MaxCodes]
    /\ lastCode \in 0..MaxCodes

NewForm ==
    [mode |-> "login", loading |-> FALSE, regEmail |-> Nobody, otpSent |-> FALSE,
     countdown |-> FALSE, forgotEmail |-> Nobody, forgotOtpSent |-> FALSE,
     forgotCountdown |-> FALSE, resetDone |-> FALSE]

\* /auth or /auth?mode=register, for a visitor whose emails have an account or not.
AuthInit ==
    /\ \E m \in {"login", "register"} : form = [NewForm EXCEPT !.mode = IF route = "auth" THEN m ELSE @]
    /\ authCalls = {}
    /\ accounts \in IF route = "auth"
                      THEN [Users -> {Unknown, Nobody}] ELSE {[u \in Users |-> Nobody]}
    /\ codes = [k \in {"register", "reset"} |-> [u \in Users |-> 0]]
    /\ mail = {} /\ lastCode = 0

-----------------------------------------------------------------------------
(* What the page shows. *)

Mode(m) == route = "auth" /\ form.mode = m

LoginForm     == Mode("login")
RegisterForm  == Mode("register") /\ ~form.otpSent
OtpForm       == Mode("register") /\ form.otpSent
ForgotDone    == Mode("forgot") /\ form.resetDone
ForgotForm    == Mode("forgot") /\ ~form.resetDone /\ ~form.forgotOtpSent
ResetForm     == Mode("forgot") /\ ~form.resetDone /\ form.forgotOtpSent

\* The tabs, "Forgot password?", "Create one", "Sign in" and "Back to Sign In".
CanSwitch(m) ==
    \/ LoginForm /\ m \in {"login", "register", "forgot"}
    \/ Mode("register") /\ m \in {"login", "register"}
    \/ Mode("forgot") /\ m = "login"

ResendShown       == OtpForm /\ ~form.countdown
ForgotResendShown == ResetForm /\ ~form.forgotCountdown

\* A request leaves with what the form holds; submit buttons are disabled while
\* the page is loading.
Call(kind, email, pass, code) ==
    [kind |-> kind, at |-> "sent", email |-> email, pass |-> pass, code |-> code]

Send(c) ==
    /\ Cardinality(authCalls) < MaxAuthCalls /\ c \notin authCalls
    /\ authCalls' = authCalls \cup {c}
    /\ form' = [form EXCEPT !.loading = TRUE]
    /\ UNCHANGED <<route, viewer, accounts, codes, mail, lastCode>>

\* An early return with an error.
Refuse == UNCHANGED <<route, viewer, authVars>>

-----------------------------------------------------------------------------
(* The handlers of the page. *)

\* switchMode leaves loading, the countdowns and what was typed to register.
switchMode(m) ==
    /\ CanSwitch(m)
    /\ form' = [form EXCEPT !.mode = m, !.otpSent = FALSE, !.forgotEmail = Nobody,
                            !.forgotOtpSent = FALSE, !.resetDone = FALSE]
    /\ UNCHANGED <<route, viewer, authCalls, accounts, codes, mail, lastCode>>

\* The emails that are read later than by the next submit.
TypeEmail(e) ==
    /\ \/ RegisterForm /\ form' = [form EXCEPT !.regEmail = e]
       \/ ForgotForm /\ form' = [form EXCEPT !.forgotEmail = e]
    /\ UNCHANGED <<route, viewer, authCalls, accounts, codes, mail, lastCode>>

\* The field takes no short password.
handleLogin(e, p) ==
    /\ LoginForm /\ ~form.loading /\ p \notin Short
    /\ Send(Call("login", e, p, WrongCode))

\* Google's button knows nothing of loading; Google knows the user by her email.
handleGoogleSuccess(e) ==
    /\ LoginForm \/ RegisterForm
    /\ e \in Mailboxes
    /\ Send(Call("google", e, Nobody, WrongCode))

handleSendOtp ==
    /\ RegisterForm \/ ResendShown
    /\ ~form.loading /\ form.regEmail # Nobody
    /\ Send(Call("sendOtp", form.regEmail, Nobody, WrongCode))

\* slip: loading before the code is looked at
handleRegisterEarly(p, code) ==
    /\ ~form.loading
    /\ \/ RegisterForm /\ p \in Short /\ Refuse
       \/ RegisterForm /\ p \notin Short /\ handleSendOtp
       \/ /\ OtpForm /\ code = BadCode
          /\ form' = [form EXCEPT !.loading = TRUE]
          /\ UNCHANGED <<route, viewer, authCalls, accounts, codes, mail, lastCode>>
       \/ OtpForm /\ code # BadCode /\ Send(Call("register", form.regEmail, p, code))

\* The submit of the form: without a code yet, a long enough password sends for one.
handleRegister(p, code) ==
    /\ ~form.loading
    /\ \/ RegisterForm /\ p \in Short /\ Refuse
       \/ RegisterForm /\ p \notin Short /\ handleSendOtp
       \/ OtpForm /\ code = BadCode /\ Refuse
       \/ OtpForm /\ code # BadCode /\ Send(Call("register", form.regEmail, p, code))

BackFromOtp ==
    /\ OtpForm
    /\ form' = [form EXCEPT !.otpSent = FALSE]
    /\ UNCHANGED <<route, viewer, authCalls, accounts, codes, mail, lastCode>>

handleForgotSendOtp ==
    /\ ForgotForm \/ ForgotResendShown
    /\ ~form.loading
    /\ IF form.forgotEmail = Nobody THEN Refuse
       ELSE Send(Call("forgotOtp", form.forgotEmail, Nobody, WrongCode))

BackFromReset ==
    /\ ResetForm
    /\ form' = [form EXCEPT !.forgotOtpSent = FALSE]
    /\ UNCHANGED <<route, viewer, authCalls, accounts, codes, mail, lastCode>>

handleForgotReset(new, confirm, code) ==
    /\ ResetForm /\ ~form.loading
    /\ IF code = BadCode \/ new \in Short \/ new # confirm THEN Refuse
       ELSE Send(Call("reset", form.forgotEmail, new, code))

\* The minute of a countdown is over.
CountedDown ==
    /\ form.countdown \/ form.forgotCountdown
    /\ \/ form' = [form EXCEPT !.countdown = FALSE]
       \/ form' = [form EXCEPT !.forgotCountdown = FALSE]
    /\ UNCHANGED <<route, viewer, authCalls, accounts, codes, mail, lastCode>>

\* The logo, or any other link of the page.
LeaveAuth ==
    /\ route = "auth"
    /\ Navigate /\ form' = NewForm
    /\ UNCHANGED <<viewer, authCalls, accounts, codes, mail, lastCode>>

-----------------------------------------------------------------------------
(* auth.go. *)

NoAccount(e) == accounts[e] = Nobody

\* slip: the codes are not kept per email
CodeMatchesAny(k, e, code) == \E u \in Users : codes[k][u] # 0 /\ codes[k][u] = code

\* RDB.Get of the email's key, and the comparison.
CodeMatches(k, e, code) == codes[k][e] # 0 /\ codes[k][e] = code

\* A new code replaces the one kept; its mail arrives, or the request fails.
MailCode(k, c) ==
    /\ lastCode < MaxCodes /\ lastCode' = lastCode + 1
    /\ codes' = [codes EXCEPT ![k][c.email] = lastCode']
    /\ \/ /\ mail' = mail \cup {[to |-> c.email, code |-> lastCode']}
          /\ authCalls' = Becomes(authCalls, c, Answered(c))
       \/ /\ mail' = mail
          /\ authCalls' = Becomes(authCalls, c, Failed(c))
    /\ UNCHANGED accounts

\* A request that changes the account of its email, if it may, and uses up its code.
Settles(c, k, may, pass) ==
    /\ accounts' = IF may THEN [accounts EXCEPT ![c.email] = pass] ELSE accounts
    /\ codes' = IF may /\ k # "none" THEN [codes EXCEPT ![k][c.email] = 0] ELSE codes
    /\ authCalls' = Becomes(authCalls, c, IF may THEN Answered(c) ELSE Failed(c))
    /\ UNCHANGED <<mail, lastCode>>

Login(c) == c.kind = "login" /\ Settles(c, "none", accounts[c.email] = c.pass, c.pass)

\* An account is made for an email that has none.
GoogleLogin(c) ==
    /\ c.kind = "google"
    /\ Settles(c, "none", TRUE, IF NoAccount(c.email) THEN Unknown ELSE accounts[c.email])

SendOTP(c) ==
    /\ c.kind = "sendOtp"
    /\ IF NoAccount(c.email) THEN MailCode("register", c)
       ELSE Settles(c, "none", FALSE, Nobody)

Register(c) ==
    /\ c.kind = "register"
    /\ Settles(c, "register",
               /\ c.pass \notin Short /\ NoAccount(c.email)
               /\ CodeMatches("register", c.email, c.code), c.pass)

\* The answer does not tell whether the email has an account.
ForgotPasswordSendOTP(c) ==
    /\ c.kind = "forgotOtp"
    /\ IF NoAccount(c.email) THEN Settles(c, "none", TRUE, Nobody) ELSE MailCode("reset", c)

ForgotPasswordReset(c) ==
    /\ c.kind = "reset" /\ c.email # Nobody
    /\ Settles(c, "reset", CodeMatches("reset", c.email, c.code), c.pass)

\* The binding of an empty email fails, or the network does.
AuthCallFails(c) ==
    /\ authCalls' = Becomes(authCalls, c, Failed(c))
    /\ UNCHANGED <<accounts, codes, mail, lastCode>>

ServeAuth(c) ==
    /\ \/ c.at = "sent" /\ \/ Login(c) \/ GoogleLogin(c) \/ SendOTP(c) \/ Register(c)
                           \/ ForgotPasswordSendOTP(c) \/ ForgotPasswordReset(c)
       \/ c.at \in {"sent", "answered"} /\ AuthCallFails(c)
    /\ UNCHANGED <<route, viewer, form>>

CodeExpires(k, e) ==
    /\ codes[k][e] # 0
    /\ codes' = [codes EXCEPT ![k][e] = 0]
    /\ UNCHANGED <<route, viewer, form, authCalls, accounts, mail, lastCode>>

-----------------------------------------------------------------------------
(* The answers. A page that was left takes no state, but a session begins. *)

Show(f) == form' = IF route = "auth" THEN f ELSE form

Done == [form EXCEPT !.loading = FALSE]

SignedIn(c) ==
    /\ viewer' = c.email
    /\ Navigate /\ form' = NewForm
    /\ authCalls' = authCalls \ {c}

\* Registered: the same email and password sign in.
LoginNext(c) ==
    /\ authCalls' = Becomes(authCalls, c, Call("login", c.email, c.pass, WrongCode))
    /\ UNCHANGED <<route, viewer, form>>

Told(c, f) ==
    /\ Show(f)
    /\ authCalls' = authCalls \ {c}
    /\ UNCHANGED <<route, viewer>>

AnswerAuth(c) ==
    /\ \/ c.at = "failed" /\ Told(c, Done)
       \/ /\ c.at = "answered"
          /\ CASE c.kind \in {"login", "google"} -> SignedIn(c)
               [] c.kind = "register" -> LoginNext(c)
               [] c.kind = "sendOtp" -> Told(c, [Done EXCEPT !.otpSent = TRUE, !.countdown = TRUE])
               [] c.kind = "forgotOtp" ->
                    Told(c, [Done EXCEPT !.forgotOtpSent = TRUE, !.forgotCountdown = TRUE])
               [] c.kind = "reset" -> Told(c, [Done EXCEPT !.resetDone = TRUE])
    /\ UNCHANGED <<accounts, codes, mail, lastCode>>

\* Codes are typed from the mails the user can read.
Typed == {WrongCode, BadCode} \cup {m.code : m \in {n \in mail : n.to \in Mailboxes}}

\* What the user does on the page.
AuthPageActs ==
    \/ \E m \in {"login", "register", "forgot"} : switchMode(m)
    \/ \E e \in Users : TypeEmail(e) \/ handleGoogleSuccess(e) \/ \E p \in Passwords : handleLogin(e, p)
    \/ \E p \in Passwords, code \in Typed : \/ handleRegister(p, code)
                                          \/ \E q \in Passwords : handleForgotReset(p, q, code)
    \/ handleSendOtp \/ handleForgotSendOtp
    \/ BackFromOtp \/ BackFromReset \/ LeaveAuth

AuthPageNext ==
    \/ route = "auth" /\ AuthPageActs
    \/ CountedDown
    \/ \E c \in authCalls : ServeAuth(c) \/ AnswerAuth(c)
    \/ \E k \in {"register", "reset"}, e \in Users : CodeExpires(k, e)

-----------------------------------------------------------------------------
(* Properties. *)

\* However codes, modes, resends and late answers are mixed, the account of an
\* email whose mail the user cannot read is neither made nor changed.
OnlyOwnAccounts ==
    [][\A e \in Users \ Mailboxes : accounts'[e] = accounts[e]]_<<route, viewer, authVars>>

\* The buttons are never disabled for nothing: while the page is loading, an
\* answer is awaited, whichever of several requests came back first.
AuthSpinnerAwaited == form.loading => authCalls # {}

=============================================================================
