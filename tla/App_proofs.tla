------------------------------ MODULE App_proofs ------------------------------
(* Theorems of App: what the pages of the web client keep, whichever of them   *)
(* is shown, for any users, codes, prices, files and listings. The lemmas      *)
(* about AuthPage and Browse come first; ListingPage_proofs and                *)
(* ListingForm_proofs have those about the other two.                          *)
EXTENDS App, ListingPage_proofs, ListingForm_proofs

USE WebPageAssumption, AuthAssumption, BrowseAssumption

-----------------------------------------------------------------------------
(* AuthPage: the invariant. *)

AuthFormType == [mode : {"login", "register", "forgot"}, loading : BOOLEAN,
                 regEmail : Users \cup {Nobody}, otpSent : BOOLEAN, countdown : BOOLEAN,
                 forgotEmail : Users \cup {Nobody}, forgotOtpSent : BOOLEAN,
                 forgotCountdown : BOOLEAN, resetDone : BOOLEAN]
AuthKinds    == {"login", "google", "sendOtp", "register", "forgotOtp", "reset"}
Codes        == [{"register", "reset"} -> [Users -> 0..lastCode]]

\* No code that is kept for an email the user does not read.
NotOthers(n) ==
    \A k \in {"register", "reset"}, e \in Users \ Mailboxes : codes[k][e] # 0 => codes[k][e] # n

\* The page is loading for an answer, and nobody is loading who has left it; a code is
\* waited for with its email typed.
AuthFormOK ==
    /\ form \in AuthFormType
    /\ AuthSpinnerAwaited
    /\ route # "auth" => ~form.loading
    /\ authCalls # {} => route \in {"auth", "elsewhere"}
    /\ route = "auth" /\ (form.otpSent \/ \E c \in authCalls : c.kind = "sendOtp") =>
         form.regEmail \in Users

\* Codes are numbered as they are made; the user reads her own.
CodesOK ==
    /\ lastCode \in 0..MaxCodes /\ codes \in Codes
    /\ mail \subseteq [to : Users, code : 1..lastCode]
    /\ \A m \in mail : m.to \in Mailboxes => NotOthers(m.code)

\* A request brings no code but one the user has read, and what its handler writes.
AuthCallOK(c) ==
    /\ c \in [kind : AuthKinds, at : Phases, email : Users \cup {Nobody},
              pass : Passwords \cup {Nobody}, code : 0..lastCode]
    /\ NotOthers(c.code)
    /\ c.kind = "google" => c.email \in Mailboxes
    /\ c.kind # "reset" => c.email \in Users
    /\ c.kind \in {"login", "register", "reset"} => c.pass \in Passwords

AuthInv ==
    /\ AuthFormOK /\ CodesOK
    /\ accounts \in [Users -> Credentials \cup {Nobody}]
    /\ \A c \in authCalls : AuthCallOK(c)

LEMMA AuthTyped == AuthInv => AuthTypeOK
<1> SUFFICES ASSUME AuthInv PROVE AuthTypeOK
  OBVIOUS
<1>1. lastCode \in 0..MaxCodes /\ 0..lastCode \subseteq 0..MaxCodes /\ 1..lastCode \subseteq 1..MaxCodes
  BY DEF AuthInv, CodesOK
<1>2. codes \in [{"register", "reset"} -> [Users -> 0..MaxCodes]]
  <2>1. [Users -> 0..lastCode] \subseteq [Users -> 0..MaxCodes]
    BY <1>1
  <2> QED
    BY <2>1 DEF AuthInv, CodesOK, Codes
<1>3. mail \subseteq [to : Users, code : 1..MaxCodes]
  BY <1>1 DEF AuthInv, CodesOK
<1>4. \A c \in authCalls : c \in
         [kind : AuthKinds, at : Phases,
          email : Users \cup {Nobody}, pass : Passwords \cup {Nobody}, code : 0..MaxCodes]
  BY <1>1 DEF AuthInv, AuthCallOK
<1> QED
  BY <1>1, <1>2, <1>3, <1>4 DEF AuthInv, AuthFormOK, AuthFormType, AuthKinds, AuthTypeOK

LEMMA AuthStart == route \in Routes /\ AuthInit => AuthInv
<1> SUFFICES ASSUME route \in Routes, AuthInit PROVE AuthInv
  OBVIOUS
<1>1. form \in AuthFormType /\ ~form.loading /\ ~form.otpSent
  BY DEF AuthInit, NewForm, AuthFormType
<1>2. CodesOK
  <2>1. codes = [k \in {"register", "reset"} |-> [u \in Users |-> 0]] /\ mail = {} /\ lastCode = 0
    BY DEF AuthInit
  <2>2. [u \in Users |-> 0] \in [Users -> 0..lastCode]
    BY <2>1
  <2> QED
    BY <2>1, <2>2 DEF CodesOK, Codes
<1>3. accounts \in [Users -> Credentials \cup {Nobody}]
  <2>1. CASE route = "auth"
    BY <2>1 DEF AuthInit, Credentials
  <2>2. CASE route # "auth"
    BY <2>2 DEF AuthInit
  <2> QED
    BY <2>1, <2>2
<1> QED
  BY <1>1, <1>2, <1>3 DEF AuthInit, AuthInv, AuthFormOK, AuthSpinnerAwaited

\* Another page is shown, or is left.
LEMMA AuthStutter ==
  ASSUME AuthInv, UNCHANGED authVars,
         \/ route' = route
         \/ route # "auth" /\ route' = "elsewhere"
  PROVE  AuthInv'
<1>1. UNCHANGED <<form, authCalls, accounts, codes, mail, lastCode>>
  BY DEF authVars
<1>2. CodesOK' /\ \A c \in authCalls' : AuthCallOK(c)'
  BY <1>1 DEF AuthInv, CodesOK, Codes, AuthCallOK, NotOthers
<1>3. AuthFormOK'
  BY <1>1 DEF AuthInv, AuthFormOK, AuthSpinnerAwaited
<1> QED
  BY <1>1, <1>2, <1>3 DEF AuthInv

-----------------------------------------------------------------------------
(* AuthPage: the form and its requests. *)

\* The page is changed, or is left; it waits for what it waited for.
LEMMA FormKeeps ==
  ASSUME AuthInv, form' \in AuthFormType,
         UNCHANGED <<authCalls, accounts, codes, mail, lastCode>>,
         form'.loading => form.loading /\ route' = "auth",
         \/ /\ route' = route /\ (form'.otpSent => form.otpSent)
            /\ form'.regEmail = form.regEmail \/ form'.regEmail \in Users
         \/ route = "auth" /\ route' = "elsewhere"
  PROVE  AuthInv'
<1>1. CodesOK' /\ \A c \in authCalls' : AuthCallOK(c)'
  BY DEF AuthInv, CodesOK, Codes, AuthCallOK, NotOthers
<1>2. AuthFormOK'
  BY DEF AuthInv, AuthFormOK, AuthSpinnerAwaited
<1> QED
  BY <1>1, <1>2 DEF AuthInv

LEMMA FormSteps ==
  ASSUME AuthInv
  PROVE  /\ \A m \in {"login", "register", "forgot"} : switchMode(m) => AuthInv'
         /\ \A e \in Users : TypeEmail(e) => AuthInv'
         /\ BackFromOtp \/ BackFromReset \/ CountedDown \/ LeaveAuth => AuthInv'
<1>0. form \in AuthFormType /\ (form.loading => route = "auth")
  BY DEF AuthInv, AuthFormOK
<1>1. ASSUME NEW m \in {"login", "register", "forgot"}, switchMode(m) PROVE AuthInv'
  <2>1. /\ form' = [form EXCEPT !.mode = m, !.otpSent = FALSE, !.forgotEmail = Nobody,
                                !.forgotOtpSent = FALSE, !.resetDone = FALSE]
        /\ UNCHANGED <<route, authCalls, accounts, codes, mail, lastCode>>
    BY <1>1 DEF switchMode
  <2>2. form' \in AuthFormType /\ form'.loading = form.loading /\ ~form'.otpSent /\ form'.regEmail = form.regEmail
    BY <1>0, <2>1 DEF AuthFormType
  <2> QED
    BY <1>0, <2>1, <2>2, FormKeeps
<1>2. ASSUME NEW e \in Users, TypeEmail(e) PROVE AuthInv'
  <2>1. /\ \/ form' = [form EXCEPT !.regEmail = e]
           \/ form' = [form EXCEPT !.forgotEmail = e]
        /\ UNCHANGED <<route, authCalls, accounts, codes, mail, lastCode>>
    BY <1>2 DEF TypeEmail
  <2>2. /\ form' \in AuthFormType /\ form'.loading = form.loading /\ form'.otpSent = form.otpSent
        /\ form'.regEmail = form.regEmail \/ form'.regEmail \in Users
    BY <1>0, <2>1 DEF AuthFormType
  <2> QED
    BY <1>0, <2>1, <2>2, FormKeeps
<1>3. ASSUME BackFromOtp \/ BackFromReset \/ CountedDown PROVE AuthInv'
  <2>1. /\ \/ form' = [form EXCEPT !.otpSent = FALSE]
           \/ form' = [form EXCEPT !.forgotOtpSent = FALSE]
           \/ form' = [form EXCEPT !.countdown = FALSE]
           \/ form' = [form EXCEPT !.forgotCountdown = FALSE]
        /\ UNCHANGED <<route, authCalls, accounts, codes, mail, lastCode>>
    BY <1>3 DEF BackFromOtp, BackFromReset, CountedDown
  <2>2. /\ form' \in AuthFormType /\ form'.loading = form.loading /\ (form'.otpSent => form.otpSent)
        /\ form'.regEmail = form.regEmail
    BY <1>0, <2>1 DEF AuthFormType
  <2> QED
    BY <1>0, <2>1, <2>2, FormKeeps
<1>4. ASSUME LeaveAuth PROVE AuthInv'
  <2>1. /\ route = "auth" /\ route' = "elsewhere" /\ form' = NewForm
        /\ UNCHANGED <<authCalls, accounts, codes, mail, lastCode>>
    BY <1>4 DEF LeaveAuth, Navigate
  <2>2. NewForm \in AuthFormType /\ ~NewForm.loading
    BY DEF NewForm, AuthFormType
  <2> QED
    BY <2>1, <2>2, FormKeeps
<1> QED
  BY <1>1, <1>2, <1>3, <1>4

\* A request leaves the page.
LEMMA SendKeeps ==
  ASSUME AuthInv, NEW c, AuthCallOK(c), Send(c), route = "auth",
         c.kind = "sendOtp" => form.regEmail \in Users
  PROVE  AuthInv'
<1>1. /\ authCalls' = authCalls \cup {c} /\ form' = [form EXCEPT !.loading = TRUE]
      /\ UNCHANGED <<route, viewer, accounts, codes, mail, lastCode>>
  BY DEF Send
<1>2. /\ form' \in AuthFormType /\ form'.otpSent = form.otpSent /\ form'.regEmail = form.regEmail
  BY <1>1 DEF AuthInv, AuthFormOK, AuthFormType
<1>3. CodesOK' /\ \A d \in authCalls' : AuthCallOK(d)'
  BY <1>1 DEF AuthInv, CodesOK, Codes, AuthCallOK, NotOthers
<1>4. AuthFormOK'
  BY <1>1, <1>2 DEF AuthInv, AuthFormOK, AuthSpinnerAwaited
<1> QED
  BY <1>1, <1>3, <1>4 DEF AuthInv

\* No code is kept that is no code, and none that the user reads is another's.
LEMMA TypedIsOwn ==
  ASSUME AuthInv, NEW code \in Typed
  PROVE  code = BadCode \/ (code \in 0..lastCode /\ NotOthers(code))
<1>1. CASE code = WrongCode
  BY <1>1 DEF WrongCode, NotOthers, AuthInv, CodesOK
<1>2. ASSUME NEW m \in mail, m.to \in Mailboxes, code = m.code
      PROVE  code \in 0..lastCode /\ NotOthers(code)
  BY <1>2 DEF AuthInv, CodesOK
<1> QED
  BY <1>1, <1>2 DEF Typed

LEMMA SubmitsKeep ==
  ASSUME AuthInv
  PROVE  /\ \A e \in Users : handleGoogleSuccess(e) => AuthInv'
         /\ \A e \in Users, p \in Passwords : handleLogin(e, p) => AuthInv'
         /\ \A p \in Passwords, code \in Typed : handleRegister(p, code) => AuthInv'
         /\ \A p, q \in Passwords, code \in Typed : handleForgotReset(p, q, code) => AuthInv'
         /\ handleSendOtp \/ handleForgotSendOtp => AuthInv'
<1>1. form \in AuthFormType /\ 0 \in 0..lastCode /\ NotOthers(0)
  BY DEF AuthInv, AuthFormOK, CodesOK, NotOthers
<1>2. ASSUME Refuse PROVE AuthInv'
  BY <1>2, AuthStutter DEF Refuse
<1>3. ASSUME NEW kind \in AuthKinds, NEW email \in Users \cup {Nobody},
             NEW pass \in Passwords \cup {Nobody}, NEW code \in 0..lastCode, NotOthers(code),
             kind = "google" => email \in Mailboxes, kind # "reset" => email \in Users,
             kind \in {"login", "register", "reset"} => pass \in Passwords,
             kind = "sendOtp" => form.regEmail \in Users,
             route = "auth", Send(Call(kind, email, pass, code))
      PROVE  AuthInv'
  <2> PICK c : c = Call(kind, email, pass, code)
    OBVIOUS
  <2>1. /\ c \in [kind : AuthKinds, at : Phases, email : Users \cup {Nobody},
                  pass : Passwords \cup {Nobody}, code : 0..lastCode]
        /\ c.kind = kind /\ c.email = email /\ c.pass = pass /\ c.code = code
    BY <1>3 DEF Call, Phases
  <2>2. AuthCallOK(c)
    BY <1>3, <2>1 DEF AuthCallOK
  <2> QED
    BY <1>3, <2>1, <2>2, SendKeeps
<1>4. ASSUME NEW e \in Users, handleGoogleSuccess(e) PROVE AuthInv'
  BY <1>1, <1>3, <1>4 DEF handleGoogleSuccess, LoginForm, RegisterForm, Mode, WrongCode, AuthKinds
<1>5. ASSUME NEW e \in Users, NEW p \in Passwords, handleLogin(e, p) PROVE AuthInv'
  BY <1>1, <1>3, <1>5 DEF handleLogin, LoginForm, Mode, WrongCode, AuthKinds
<1>6. ASSUME handleSendOtp PROVE AuthInv'
  <2>1. form.regEmail \in Users /\ route = "auth" /\ Send(Call("sendOtp", form.regEmail, Nobody, 0))
    BY <1>1, <1>6 DEF handleSendOtp, RegisterForm, ResendShown, OtpForm, Mode, AuthFormType, WrongCode
  <2> QED
    BY <1>1, <1>3, <2>1 DEF AuthKinds
<1>7. ASSUME handleForgotSendOtp PROVE AuthInv'
  <2>1. CASE form.forgotEmail = Nobody
    BY <1>2, <1>7, <2>1 DEF handleForgotSendOtp
  <2>2. CASE form.forgotEmail # Nobody
    <3>1. /\ form.forgotEmail \in Users /\ route = "auth"
          /\ Send(Call("forgotOtp", form.forgotEmail, Nobody, 0))
      BY <1>1, <1>7, <2>2
         DEF handleForgotSendOtp, ForgotForm, ForgotResendShown, ResetForm, Mode, AuthFormType, WrongCode
    <3> QED
      BY <1>1, <1>3, <3>1 DEF AuthKinds
  <2> QED
    BY <2>1, <2>2
<1>8. ASSUME NEW p \in Passwords, NEW code \in Typed, handleRegister(p, code) PROVE AuthInv'
  <2>1. CASE OtpForm /\ code # BadCode /\ Send(Call("register", form.regEmail, p, code))
    <3>1. code \in 0..lastCode /\ NotOthers(code)
      BY <2>1, TypedIsOwn
    <3>2. route = "auth" /\ form.regEmail \in Users
      BY <2>1 DEF OtpForm, Mode, AuthInv, AuthFormOK
    <3> QED
      BY <1>3, <2>1, <3>1, <3>2 DEF AuthKinds
  <2> QED
    BY <1>2, <1>6, <1>8, <2>1 DEF handleRegister
<1>9. ASSUME NEW p \in Passwords, NEW q \in Passwords, NEW code \in Typed, handleForgotReset(p, q, code)
      PROVE  AuthInv'
  <2>1. CASE code # BadCode /\ Send(Call("reset", form.forgotEmail, p, code))
    <3>1. code \in 0..lastCode /\ NotOthers(code)
      BY <2>1, TypedIsOwn
    <3>2. route = "auth" /\ form.forgotEmail \in Users \cup {Nobody}
      BY <1>1, <1>9 DEF handleForgotReset, ResetForm, Mode, AuthFormType
    <3> QED
      BY <1>3, <2>1, <3>1, <3>2 DEF AuthKinds
  <2> QED
    BY <1>2, <1>9, <2>1 DEF handleForgotReset
<1> QED
  BY <1>4, <1>5, <1>6, <1>7, <1>8, <1>9

-----------------------------------------------------------------------------
(* AuthPage: the server. *)

\* A code is used up, or expires, or none is touched.
LEMMA CodesForget ==
  ASSUME CodesOK, UNCHANGED <<mail, lastCode>>,
         \/ codes' = codes
         \/ \E k \in {"register", "reset"}, e \in Users : codes' = [codes EXCEPT ![k][e] = 0]
  PROVE  CodesOK' /\ \A c : AuthCallOK(c) => AuthCallOK(c)'
<1>1. /\ codes' \in Codes
      /\ \A k \in {"register", "reset"}, e \in Users : codes'[k][e] = codes[k][e] \/ codes'[k][e] = 0
  BY DEF CodesOK, Codes
<1>2. ASSUME NEW n, NotOthers(n) PROVE NotOthers(n)'
  BY <1>1, <1>2 DEF NotOthers
<1>3. CodesOK'
  BY <1>1, <1>2 DEF CodesOK, Codes
<1> QED
  BY <1>2, <1>3 DEF AuthCallOK

\* A code is made, for whoever reads the mail it goes out with.
LEMMA CodeMade ==
  ASSUME CodesOK, NEW k \in {"register", "reset"}, NEW e \in Users,
         lastCode < MaxCodes, lastCode' = lastCode + 1,
         codes' = [codes EXCEPT ![k][e] = lastCode'],
         mail' = mail \/ mail' = mail \cup {[to |-> e, code |-> lastCode']}
  PROVE  CodesOK' /\ \A c : AuthCallOK(c) => AuthCallOK(c)'
<1>1. PICK new : new = lastCode'
  OBVIOUS
<1>2. /\ lastCode \in 0..MaxCodes /\ new = lastCode + 1 /\ new \in 1..MaxCodes
      /\ 0..lastCode \subseteq 0..new /\ 1..lastCode \subseteq 1..new
      /\ new \in 0..new /\ new \in 1..new /\ new \notin 0..lastCode
  BY <1>1 DEF CodesOK
<1>3. /\ \A j \in {"register", "reset"}, u \in Users : codes[j][u] \in 0..lastCode
      /\ \A j \in {"register", "reset"} : codes[j] \in [Users -> 0..lastCode]
      /\ codes = [j \in {"register", "reset"} |-> codes[j]]
  BY DEF CodesOK, Codes
<1>4. codes' = [codes EXCEPT ![k][e] = new]
  BY <1>1
<1>5. \A j \in {"register", "reset"}, u \in Users :
        codes'[j][u] = IF j = k /\ u = e THEN new ELSE codes[j][u]
  BY <1>3, <1>4
<1>6. codes' \in [{"register", "reset"} -> [Users -> 0..new]]
  <2>1. [codes[k] EXCEPT ![e] = new] \in [Users -> 0..new]
    BY <1>2, <1>3
  <2>2. \A j \in {"register", "reset"} : codes[j] \in [Users -> 0..new]
    BY <1>2, <1>3
  <2> QED
    BY <1>3, <1>4, <2>1, <2>2
<1>7. ASSUME NEW n \in 0..lastCode, NotOthers(n) PROVE NotOthers(n)'
  BY <1>2, <1>5, <1>7 DEF NotOthers
<1>8. e \in Mailboxes => NotOthers(new)'
  BY <1>2, <1>3, <1>5 DEF NotOthers
<1>9. \A m \in mail' : m \in [to : Users, code : 1..new] /\ (m.to \in Mailboxes => NotOthers(m.code)')
  <2>1. ASSUME NEW m \in mail
        PROVE  m \in [to : Users, code : 1..new] /\ (m.to \in Mailboxes => NotOthers(m.code)')
    <3>1. m \in [to : Users, code : 1..lastCode] /\ (m.to \in Mailboxes => NotOthers(m.code))
      BY DEF CodesOK
    <3>2. m.code \in 0..lastCode /\ m \in [to : Users, code : 1..new]
      BY <1>2, <3>1
    <3> QED
      BY <1>7, <3>1, <3>2
  <2>2. ASSUME NEW m, m = [to |-> e, code |-> new]
        PROVE  m \in [to : Users, code : 1..new] /\ (m.to \in Mailboxes => NotOthers(m.code)')
    BY <1>2, <1>8, <2>2
  <2> QED
    BY <1>1, <2>1, <2>2
<1>10. CodesOK'
  BY <1>1, <1>2, <1>6, <1>9 DEF CodesOK, Codes
<1>11. ASSUME NEW c, AuthCallOK(c) PROVE AuthCallOK(c)'
  <2>1. c \in [kind : AuthKinds, at : Phases, email : Users \cup {Nobody},
               pass : Passwords \cup {Nobody}, code : 0..lastCode]
    BY <1>11 DEF AuthCallOK
  <2>2. c \in [kind : AuthKinds, at : Phases, email : Users \cup {Nobody},
               pass : Passwords \cup {Nobody}, code : 0..new]
    BY <1>2, <2>1
  <2> QED
    BY <1>1, <1>7, <1>11, <2>1, <2>2 DEF AuthCallOK
<1> QED
  BY <1>10, <1>11

\* A request goes on to its next phase, or becomes another that is no "sendOtp".
LEMMA RequestGoesOn ==
  ASSUME AuthInv, NEW c \in authCalls, NEW d, authCalls' = Becomes(authCalls, c, d),
         AuthCallOK(d), d.kind = "sendOtp" => c.kind = "sendOtp",
         CodesOK', \A b : AuthCallOK(b) => AuthCallOK(b)',
         accounts' \in [Users -> Credentials \cup {Nobody}], UNCHANGED <<route, form>>
  PROVE  AuthInv'
<1>1. \A b \in authCalls' : AuthCallOK(b)'
  BY DEF AuthInv, Becomes
<1>2. authCalls' # {} /\ \A b \in authCalls' : b \in authCalls \/ b = d
  BY DEF Becomes
<1>3. AuthFormOK'
  BY <1>2 DEF AuthInv, AuthFormOK, AuthSpinnerAwaited
<1> QED
  BY <1>1, <1>3 DEF AuthInv

LEMMA PhaseOK ==
  ASSUME NEW c, AuthCallOK(c)
  PROVE  /\ AuthCallOK(Answered(c)) /\ Answered(c).kind = c.kind
         /\ AuthCallOK(Failed(c)) /\ Failed(c).kind = c.kind
<1>1. PICK a, f : a = Answered(c) /\ f = Failed(c)
  OBVIOUS
<1>2. c \in [kind : AuthKinds, at : Phases, email : Users \cup {Nobody},
             pass : Passwords \cup {Nobody}, code : 0..lastCode]
  BY DEF AuthCallOK
<1>3. /\ a \in [kind : AuthKinds, at : Phases, email : Users \cup {Nobody},
                pass : Passwords \cup {Nobody}, code : 0..lastCode]
      /\ a.kind = c.kind /\ a.email = c.email /\ a.pass = c.pass /\ a.code = c.code
  BY <1>1, <1>2 DEF Answered, Phases
<1>4. /\ f \in [kind : AuthKinds, at : Phases, email : Users \cup {Nobody},
                pass : Passwords \cup {Nobody}, code : 0..lastCode]
      /\ f.kind = c.kind /\ f.email = c.email /\ f.pass = c.pass /\ f.code = c.code
  BY <1>1, <1>2 DEF Failed, Phases
<1>5. AuthCallOK(a) /\ AuthCallOK(f)
  BY <1>3, <1>4 DEF AuthCallOK
<1> QED
  BY <1>1, <1>3, <1>4, <1>5

LEMMA SettlesKeep ==
  ASSUME AuthInv, NEW c \in authCalls, NEW k \in {"none", "register", "reset"}, NEW may \in BOOLEAN,
         NEW pass, may => c.email \in Users /\ pass \in Credentials \cup {Nobody},
         Settles(c, k, may, pass), UNCHANGED <<route, form>>
  PROVE  AuthInv'
<1>1. AuthCallOK(c) /\ CodesOK /\ accounts \in [Users -> Credentials \cup {Nobody}]
  BY DEF AuthInv
<1>2. accounts' \in [Users -> Credentials \cup {Nobody}]
  BY <1>1 DEF Settles
<1>3. CodesOK' /\ \A b : AuthCallOK(b) => AuthCallOK(b)'
  <2>1. /\ UNCHANGED <<mail, lastCode>>
        /\ \/ codes' = codes
           \/ \E j \in {"register", "reset"}, e \in Users : codes' = [codes EXCEPT ![j][e] = 0]
    BY DEF Settles
  <2> QED
    BY <1>1, <2>1, CodesForget
<1>4. PICK d : d = IF may THEN Answered(c) ELSE Failed(c)
  OBVIOUS
<1>5. AuthCallOK(d) /\ d.kind = c.kind
  BY <1>1, <1>4, PhaseOK
<1>6. authCalls' = Becomes(authCalls, c, d)
  BY <1>4 DEF Settles
<1> QED
  BY <1>2, <1>3, <1>5, <1>6, RequestGoesOn

LEMMA MailsKeep ==
  ASSUME AuthInv, NEW c \in authCalls, NEW k \in {"register", "reset"}, c.email \in Users,
         MailCode(k, c), UNCHANGED <<route, form>>
  PROVE  AuthInv'
<1>1. AuthCallOK(c) /\ CodesOK /\ accounts \in [Users -> Credentials \cup {Nobody}]
  BY DEF AuthInv
<1>2. CodesOK' /\ \A b : AuthCallOK(b) => AuthCallOK(b)'
  BY <1>1, CodeMade DEF MailCode
<1>3. PICK d : authCalls' = Becomes(authCalls, c, d) /\ (d = Answered(c) \/ d = Failed(c))
  BY DEF MailCode
<1>4. AuthCallOK(d) /\ d.kind = c.kind
  BY <1>1, <1>3, PhaseOK
<1> QED
  BY <1>1, <1>2, <1>3, <1>4, RequestGoesOn DEF MailCode

\* What a handler does to the accounts and codes, by its request.
LEMMA ServeAuthKeeps ==
  ASSUME AuthInv, NEW c \in authCalls, ServeAuth(c)
  PROVE  AuthInv'
<1>1. /\ AuthCallOK(c) /\ CodesOK /\ accounts \in [Users -> Credentials \cup {Nobody}]
      /\ c.kind # "reset" => c.email \in Users
      /\ c.email \in Users \cup {Nobody}
      /\ UNCHANGED <<route, form>>
  BY DEF AuthInv, AuthCallOK, ServeAuth
<1>2. ASSUME Login(c) PROVE AuthInv'
  <2>1. PICK may \in BOOLEAN : may <=> accounts[c.email] = c.pass
    OBVIOUS
  <2>2. c.kind = "login" /\ Settles(c, "none", may, c.pass)
    BY <1>2, <2>1 DEF Login
  <2>3. c.email \in Users /\ c.pass \in Credentials
    BY <1>1, <2>2 DEF AuthCallOK, Credentials
  <2> QED
    BY <1>1, <2>2, <2>3, SettlesKeep
<1>3. ASSUME GoogleLogin(c) PROVE AuthInv'
  <2>1. PICK pass : pass = IF NoAccount(c.email) THEN Unknown ELSE accounts[c.email]
    OBVIOUS
  <2>2. c.kind = "google" /\ Settles(c, "none", TRUE, pass)
    BY <1>3, <2>1 DEF GoogleLogin
  <2>3. c.email \in Users /\ pass \in Credentials \cup {Nobody}
    BY <1>1, <2>1, <2>2 DEF Credentials
  <2> QED
    BY <1>1, <2>2, <2>3, SettlesKeep
<1>4. ASSUME SendOTP(c) PROVE AuthInv'
  <2>1. c.kind = "sendOtp" /\ c.email \in Users /\ (MailCode("register", c) \/ Settles(c, "none", FALSE, Nobody))
    BY <1>1, <1>4 DEF SendOTP
  <2>2. CASE MailCode("register", c)
    BY <1>1, <2>1, <2>2, MailsKeep
  <2>3. CASE Settles(c, "none", FALSE, Nobody)
    BY <1>1, <2>3, SettlesKeep
  <2> QED
    BY <2>1, <2>2, <2>3
<1>5. ASSUME Register(c) PROVE AuthInv'
  <2>1. PICK may \in BOOLEAN :
          may <=> /\ c.pass \notin Short /\ NoAccount(c.email)
                  /\ CodeMatches("register", c.email, c.code)
    OBVIOUS
  <2>2. c.kind = "register" /\ Settles(c, "register", may, c.pass)
    BY <1>5, <2>1 DEF Register
  <2>3. c.email \in Users /\ c.pass \in Credentials
    BY <1>1, <2>2 DEF AuthCallOK, Credentials
  <2> QED
    BY <1>1, <2>2, <2>3, SettlesKeep
<1>6. ASSUME ForgotPasswordSendOTP(c) PROVE AuthInv'
  <2>1. c.kind = "forgotOtp" /\ c.email \in Users /\ (MailCode("reset", c) \/ Settles(c, "none", TRUE, Nobody))
    BY <1>1, <1>6 DEF ForgotPasswordSendOTP
  <2>2. CASE MailCode("reset", c)
    BY <1>1, <2>1, <2>2, MailsKeep
  <2>3. ASSUME Settles(c, "none", TRUE, Nobody) PROVE AuthInv'
    BY <1>1, <2>1, <2>3, SettlesKeep
  <2> QED
    BY <2>1, <2>2, <2>3
<1>7. ASSUME ForgotPasswordReset(c) PROVE AuthInv'
  <2>1. PICK may \in BOOLEAN : may <=> CodeMatches("reset", c.email, c.code)
    OBVIOUS
  <2>2. c.kind = "reset" /\ c.email \in Users /\ Settles(c, "reset", may, c.pass)
    BY <1>1, <1>7, <2>1 DEF ForgotPasswordReset, CodeMatches
  <2>3. c.pass \in Credentials
    BY <1>1, <2>2 DEF AuthCallOK, Credentials
  <2> QED
    BY <1>1, <2>2, <2>3, SettlesKeep
<1>8. ASSUME AuthCallFails(c) PROVE AuthInv'
  <2>1. authCalls' = Becomes(authCalls, c, Failed(c)) /\ UNCHANGED <<accounts, codes, mail, lastCode>>
    BY <1>8 DEF AuthCallFails
  <2>2. CodesOK' /\ \A b : AuthCallOK(b) => AuthCallOK(b)'
    BY <1>1, <2>1, CodesForget
  <2>3. PICK d : d = Failed(c)
    OBVIOUS
  <2>4. AuthCallOK(d) /\ d.kind = c.kind
    BY <1>1, <2>3, PhaseOK
  <2> QED
    BY <1>1, <2>1, <2>2, <2>3, <2>4, RequestGoesOn
<1> QED
  BY <1>2, <1>3, <1>4, <1>5, <1>6, <1>7, <1>8 DEF ServeAuth

LEMMA CodeExpiresKeeps ==
  ASSUME AuthInv, NEW k \in {"register", "reset"}, NEW e \in Users, CodeExpires(k, e)
  PROVE  AuthInv'
<1>1. /\ codes' = [codes EXCEPT ![k][e] = 0]
      /\ UNCHANGED <<route, viewer, form, authCalls, accounts, mail, lastCode>>
  BY DEF CodeExpires
<1>2. CodesOK' /\ \A b : AuthCallOK(b) => AuthCallOK(b)'
  BY <1>1, CodesForget DEF AuthInv
<1>3. AuthFormOK'
  BY <1>1 DEF AuthInv, AuthFormOK, AuthSpinnerAwaited
<1> QED
  BY <1>1, <1>2, <1>3 DEF AuthInv

-----------------------------------------------------------------------------
(* AuthPage: the answers. *)

LEMMA ToldKeeps ==
  ASSUME AuthInv, NEW c \in authCalls, NEW f \in AuthFormType, Told(c, f), ~f.loading,
         f.regEmail = form.regEmail, f.otpSent => form.otpSent \/ c.kind = "sendOtp",
         UNCHANGED <<accounts, codes, mail, lastCode>>
  PROVE  AuthInv'
<1>1. /\ form' = IF route = "auth" THEN f ELSE form
      /\ authCalls' = authCalls \ {c} /\ UNCHANGED <<route, viewer>>
  BY DEF Told, Show
<1>2. CodesOK' /\ \A b : AuthCallOK(b) => AuthCallOK(b)'
  BY CodesForget DEF AuthInv
<1>3. AuthFormOK'
  <2>1. CASE route = "auth"
    BY <1>1, <2>1 DEF AuthInv, AuthFormOK, AuthSpinnerAwaited
  <2>2. CASE route # "auth"
    BY <1>1, <2>2 DEF AuthInv, AuthFormOK, AuthSpinnerAwaited
  <2> QED
    BY <2>1, <2>2
<1> QED
  BY <1>1, <1>2, <1>3 DEF AuthInv

LEMMA AnswerAuthKeeps ==
  ASSUME AuthInv, NEW c \in authCalls, AnswerAuth(c)
  PROVE  AuthInv'
<1>1. /\ AuthCallOK(c) /\ CodesOK /\ form \in AuthFormType /\ c.kind \in AuthKinds
      /\ route \in {"auth", "elsewhere"}
      /\ UNCHANGED <<accounts, codes, mail, lastCode>>
  BY DEF AuthInv, AuthCallOK, AuthFormOK, AnswerAuth
<1>2. CodesOK' /\ \A b : AuthCallOK(b) => AuthCallOK(b)'
  BY <1>1, CodesForget
<1>3. ASSUME SignedIn(c) PROVE AuthInv'
  <2>1. NewForm \in AuthFormType /\ ~NewForm.loading
    BY DEF NewForm, AuthFormType
  <2>2. form' = NewForm /\ route' = "elsewhere" /\ authCalls' \subseteq authCalls
    BY <1>3 DEF SignedIn, Navigate
  <2>3. AuthFormOK'
    BY <2>1, <2>2 DEF AuthFormOK, AuthSpinnerAwaited
  <2> QED
    BY <1>1, <1>2, <2>2, <2>3 DEF AuthInv
<1>4. ASSUME c.kind = "register", LoginNext(c) PROVE AuthInv'
  <2> PICK d : d = Call("login", c.email, c.pass, WrongCode)
    OBVIOUS
  <2>1. authCalls' = Becomes(authCalls, c, d) /\ UNCHANGED <<route, form>>
    BY <1>4 DEF LoginNext
  <2>2. NotOthers(0) /\ 0 \in 0..lastCode
    BY <1>1 DEF NotOthers, CodesOK
  <2>3. /\ d \in [kind : AuthKinds, at : Phases, email : Users \cup {Nobody},
                  pass : Passwords \cup {Nobody}, code : 0..lastCode]
        /\ d.kind = "login" /\ d.email = c.email /\ d.pass = c.pass /\ d.code = 0
    BY <1>1, <2>2 DEF Call, WrongCode, AuthCallOK, AuthKinds, Phases
  <2>4. AuthCallOK(d)
    BY <1>1, <1>4, <2>2, <2>3 DEF AuthCallOK
  <2>5. accounts' \in [Users -> Credentials \cup {Nobody}]
    BY <1>1 DEF AuthInv
  <2> QED
    BY <1>2, <2>1, <2>3, <2>4, <2>5, RequestGoesOn
<1>5. ASSUME NEW f, Told(c, f),
             \/ f = Done
             \/ c.kind = "sendOtp" /\ f = [Done EXCEPT !.otpSent = TRUE, !.countdown = TRUE]
             \/ f = [Done EXCEPT !.forgotOtpSent = TRUE, !.forgotCountdown = TRUE]
             \/ f = [Done EXCEPT !.resetDone = TRUE]
      PROVE  AuthInv'
  <2>1. /\ f \in AuthFormType /\ ~f.loading /\ f.regEmail = form.regEmail
        /\ f.otpSent => form.otpSent \/ c.kind = "sendOtp"
    BY <1>1, <1>5 DEF Done, AuthFormType
  <2> QED
    BY <1>1, <1>5, <2>1, ToldKeeps
<1>6. CASE c.at = "failed"
  <2>1. Told(c, Done)
    BY <1>6 DEF AnswerAuth
  <2> QED
    BY <1>5, <2>1
<1>7. CASE c.at = "answered"
  <2>1. c.kind \in {"login", "google"} => SignedIn(c)
    BY <1>7 DEF AnswerAuth
  <2>2. c.kind = "register" => LoginNext(c)
    BY <1>7 DEF AnswerAuth
  <2>3. c.kind = "sendOtp" => Told(c, [Done EXCEPT !.otpSent = TRUE, !.countdown = TRUE])
    BY <1>7 DEF AnswerAuth
  <2>4. c.kind = "forgotOtp" => Told(c, [Done EXCEPT !.forgotOtpSent = TRUE, !.forgotCountdown = TRUE])
    BY <1>7 DEF AnswerAuth
  <2>5. c.kind = "reset" => Told(c, [Done EXCEPT !.resetDone = TRUE])
    BY <1>7 DEF AnswerAuth
  <2> QED
    BY <1>1, <1>3, <1>4, <1>5, <2>1, <2>2, <2>3, <2>4, <2>5 DEF AuthKinds
<1> QED
  BY <1>6, <1>7 DEF AnswerAuth

LEMMA AuthStep == AuthInv /\ AuthPageNext => AuthInv'
<1> SUFFICES ASSUME AuthInv, AuthPageNext PROVE AuthInv'
  OBVIOUS
<1> QED
  BY FormSteps, SubmitsKeep, ServeAuthKeeps, CodeExpiresKeeps, AnswerAuthKeeps DEF AuthPageActs, AuthPageNext

\* The steps of the sign-in page are made on it, or after it was left.
LEMMA AuthRoute ==
  ASSUME AuthInv, AuthPageNext
  PROVE  /\ route' = route \/ (route \in {"auth", "elsewhere"} /\ route' = "elsewhere")
         /\ viewer' = viewer \/ viewer' \in Users
<1>1. ASSUME NEW c, Send(c) PROVE UNCHANGED <<route, viewer>>
  BY <1>1 DEF Send
<1>2. Refuse => UNCHANGED <<route, viewer>>
  BY DEF Refuse
<1>3. \A m \in {"login", "register", "forgot"} : switchMode(m) => UNCHANGED <<route, viewer>>
  BY DEF switchMode
<1>4. \A e \in Users : TypeEmail(e) => UNCHANGED <<route, viewer>>
  BY DEF TypeEmail
<1>5. BackFromOtp \/ BackFromReset \/ CountedDown => UNCHANGED <<route, viewer>>
  BY DEF BackFromOtp, BackFromReset, CountedDown
<1>6. LeaveAuth => route = "auth" /\ route' = "elsewhere" /\ viewer' = viewer
  BY DEF LeaveAuth, Navigate
<1>7. handleSendOtp \/ handleForgotSendOtp => UNCHANGED <<route, viewer>>
  BY <1>1, <1>2 DEF handleSendOtp, handleForgotSendOtp
<1>8. \A e \in Users : handleGoogleSuccess(e) => UNCHANGED <<route, viewer>>
  BY <1>1 DEF handleGoogleSuccess
<1>9. \A e \in Users, p \in Passwords : handleLogin(e, p) => UNCHANGED <<route, viewer>>
  BY <1>1 DEF handleLogin
<1>10. \A p \in Passwords, code \in Typed : handleRegister(p, code) => UNCHANGED <<route, viewer>>
  BY <1>1, <1>2, <1>7 DEF handleRegister
<1>11. \A p, q \in Passwords, code \in Typed : handleForgotReset(p, q, code) => UNCHANGED <<route, viewer>>
  BY <1>1, <1>2 DEF handleForgotReset
<1>12. \A c \in authCalls : ServeAuth(c) => UNCHANGED <<route, viewer>>
  BY DEF ServeAuth
<1>13. \A k \in {"register", "reset"}, e \in Users : CodeExpires(k, e) => UNCHANGED <<route, viewer>>
  BY DEF CodeExpires
<1>14. ASSUME NEW c \in authCalls, AnswerAuth(c)
       PROVE  /\ route' = route \/ (route \in {"auth", "elsewhere"} /\ route' = "elsewhere")
              /\ viewer' = viewer \/ viewer' \in Users
  <2>1. /\ AuthCallOK(c) /\ c.kind \in AuthKinds /\ route \in {"auth", "elsewhere"}
        /\ c.kind # "reset" => c.email \in Users
    BY DEF AuthInv, AuthCallOK, AuthFormOK
  <2>2. \A f : Told(c, f) => UNCHANGED <<route, viewer>>
    BY DEF Told
  <2>3. LoginNext(c) => UNCHANGED <<route, viewer>>
    BY DEF LoginNext
  <2>4. SignedIn(c) => route' = "elsewhere" /\ viewer' = c.email
    BY DEF SignedIn, Navigate
  <2>5. CASE c.kind \in {"login", "google"}
    BY <1>14, <2>1, <2>2, <2>4, <2>5 DEF AnswerAuth
  <2>6. CASE c.kind = "register"
    BY <1>14, <2>2, <2>3, <2>6 DEF AnswerAuth
  <2>7. CASE c.kind \in {"sendOtp", "forgotOtp", "reset"}
    BY <1>14, <2>2, <2>7 DEF AnswerAuth
  <2> QED
    BY <2>1, <2>5, <2>6, <2>7 DEF AuthKinds
<1> QED
  BY <1>3, <1>4, <1>5, <1>6, <1>7, <1>8, <1>9, <1>10, <1>11, <1>12, <1>13, <1>14 DEF AuthPageActs, AuthPageNext

\* An account is written for its owner's password, for Google's word, or for a code.
LEMMA OwnAccountsStep ==
  ASSUME AuthInv, AuthPageNext, NEW e \in Users \ Mailboxes
  PROVE  accounts'[e] = accounts[e]
<1>0. accounts \in [Users -> Credentials \cup {Nobody}]
  BY DEF AuthInv
<1>1. UNCHANGED accounts \/ \E c \in authCalls : ServeAuth(c)
  <2>1. ASSUME NEW c, Send(c) PROVE UNCHANGED accounts
    BY <2>1 DEF Send
  <2>2. Refuse => UNCHANGED accounts
    BY DEF Refuse, authVars
  <2>3. handleSendOtp \/ handleForgotSendOtp => UNCHANGED accounts
    BY <2>1, <2>2 DEF handleSendOtp, handleForgotSendOtp
  <2>4. \A m \in {"login", "register", "forgot"} : switchMode(m) => UNCHANGED accounts
    BY DEF switchMode
  <2>5. \A u \in Users : TypeEmail(u) => UNCHANGED accounts
    BY DEF TypeEmail
  <2>6. BackFromOtp \/ BackFromReset \/ CountedDown \/ LeaveAuth => UNCHANGED accounts
    BY DEF BackFromOtp, BackFromReset, CountedDown, LeaveAuth
  <2>7. \A u \in Users : handleGoogleSuccess(u) => UNCHANGED accounts
    BY <2>1 DEF handleGoogleSuccess
  <2>8. \A u \in Users, p \in Passwords : handleLogin(u, p) => UNCHANGED accounts
    BY <2>1 DEF handleLogin
  <2>9. \A p \in Passwords, code \in Typed : handleRegister(p, code) => UNCHANGED accounts
    BY <2>1, <2>2, <2>3 DEF handleRegister
  <2>10. \A p, q \in Passwords, code \in Typed : handleForgotReset(p, q, code) => UNCHANGED accounts
    BY <2>1, <2>2 DEF handleForgotReset
  <2>11. \A c \in authCalls : AnswerAuth(c) => UNCHANGED accounts
    BY DEF AnswerAuth
  <2>12. \A k \in {"register", "reset"}, u \in Users : CodeExpires(k, u) => UNCHANGED accounts
    BY DEF CodeExpires
  <2> QED
    BY <2>3, <2>4, <2>5, <2>6, <2>7, <2>8, <2>9, <2>10, <2>11, <2>12 DEF AuthPageActs, AuthPageNext
<1>2. ASSUME NEW c \in authCalls, ServeAuth(c), accounts'[e] # accounts[e] PROVE FALSE
  <2>1. AuthCallOK(c)
    BY DEF AuthInv
  <2>2. ASSUME Login(c) PROVE FALSE
    BY <1>0, <1>2, <2>2 DEF Login, Settles
  <2>3. ASSUME GoogleLogin(c) PROVE FALSE
    BY <1>0, <1>2, <2>1, <2>3 DEF GoogleLogin, Settles, AuthCallOK
  <2>4. ASSUME Register(c) PROVE FALSE
    BY <1>0, <1>2, <2>1, <2>4 DEF Register, Settles, CodeMatches, AuthCallOK, NotOthers
  <2>5. ASSUME ForgotPasswordReset(c) PROVE FALSE
    BY <1>0, <1>2, <2>1, <2>5 DEF ForgotPasswordReset, Settles, CodeMatches, AuthCallOK, NotOthers
  <2>6. ASSUME SendOTP(c) \/ ForgotPasswordSendOTP(c) PROVE FALSE
    <3>1. NoAccount(c.email) \/ UNCHANGED accounts
      BY <2>6 DEF SendOTP, ForgotPasswordSendOTP, MailCode, Settles
    <3>2. NoAccount(c.email) => accounts' = accounts \/ accounts' = [accounts EXCEPT ![c.email] = Nobody]
      BY <2>6 DEF SendOTP, ForgotPasswordSendOTP, MailCode, Settles
    <3> QED
      BY <1>0, <1>2, <3>1, <3>2 DEF NoAccount
  <2>7. ASSUME AuthCallFails(c) PROVE FALSE
    BY <1>2, <2>7 DEF AuthCallFails
  <2> QED
    BY <1>2, <2>2, <2>3, <2>4, <2>5, <2>6, <2>7 DEF ServeAuth
<1> QED
  BY <1>1, <1>2

-----------------------------------------------------------------------------
(* The list pages: the invariant. *)

GoodsType == [Goods -> [mine : BOOLEAN, type : {"auction", "fixed"},
                        at : {"unsold", "sold", "deleted"}]]
BoardType == [query : Queries, page : 1..MaxPages, pages : 0..MaxPages, loading : BOOLEAN,
              error : BOOLEAN, listed : SUBSET Rows, deleting : Goods \cup {NoGood}]
AskType   == [kind : {"search", "unsold", "sold", "delete"}, query : Queries,
              page : 1..MaxPages, good : Goods \cup {NoGood}, at : Phases,
              found : SUBSET Rows, before : SUBSET Rows, pages : 0..MaxPages]

\* A page is shown that lists.
Lists == IsSearch \/ route = "mine"

\* MyListingsPage is shown, and fifty listings are all there are.
AllOfMine == route = "mine" /\ Cardinality(Goods) <= MineLimit

\* The rows have one of g.
Known(g, rs) == \E r \in rs : r.good = g

\* A good that is not among the unsold ones found is sold by then, and is found when
\* the sold ones are asked for.
MissesNothing(c) ==
    \A g \in Goods : goods[g].at # "deleted" =>
      /\ c.kind = "unsold" /\ c.at = "answered" => Known(g, c.found) \/ goods[g].at = "sold"
      /\ c.kind = "sold" /\ c.at = "sent" => Known(g, c.before) \/ goods[g].at = "sold"
      /\ c.kind = "sold" /\ c.at = "answered" => Known(g, c.before \cup c.found)

AskOK(c) ==
    /\ c \in AskType
    /\ c.kind = "delete" => c.good \in Goods /\ (c.at = "answered" => goods[c.good].at = "deleted")
    /\ route = "mine" => c.kind # "search"
    /\ AllOfMine => MissesNothing(c)

ListedOK ==
    AllOfMine /\ ~board.loading /\ ~board.error =>
      \A g \in Goods : goods[g].mine /\ goods[g].at # "deleted" => Known(g, board.listed)

BrowseInv ==
    /\ goods \in GoodsType /\ board \in BoardType
    /\ ~Lists => ~board.loading
    /\ ListSpinnerAwaited /\ ListedOK
    /\ asks # {} => Lists \/ route = "elsewhere"
    /\ \A c \in asks : AskOK(c)

LEMMA BrowseTyped == BrowseInv => BrowseTypeOK
  BY DEF BrowseInv, AskOK, GoodsType, BoardType, AskType, BrowseTypeOK

LEMMA BrowseMissesNothing == BrowseInv => NoListingMissing
<1> SUFFICES ASSUME BrowseInv, MineShown, ~board.error, Cardinality(Goods) <= MineLimit,
                    NEW g \in Goods, goods[g].mine, goods[g].at # "deleted"
             PROVE  g \in activeListings \cup soldListings
  BY DEF NoListingMissing
<1>1. PICK r \in board.listed : r.good = g
  BY DEF BrowseInv, ListedOK, AllOfMine, MineShown, Known
<1> QED
  BY <1>1 DEF activeListings, soldListings

LEMMA BrowseStart == route \in Routes /\ BrowseInit => BrowseInv
<1> SUFFICES ASSUME route \in Routes, BrowseInit PROVE BrowseInv
  OBVIOUS
<1>1. goods \in GoodsType
  <2>1. (IF route = "mine" THEN BOOLEAN ELSE {FALSE}) \subseteq BOOLEAN
    OBVIOUS
  <2>2. (IF IsSearch THEN {"auction", "fixed"} ELSE {"fixed"}) \subseteq {"auction", "fixed"}
    OBVIOUS
  <2> DEFINE A == IF route = "mine" THEN BOOLEAN ELSE {FALSE}
             T == IF IsSearch THEN {"auction", "fixed"} ELSE {"fixed"}
  <2>3. goods \in [Goods -> [mine : A, type : T, at : {"unsold"}]]
    BY DEF BrowseInit
  <2> HIDE DEF A, T
  <2> QED
    BY <2>1, <2>2, <2>3 DEF GoodsType, A, T
<1>2. PICK p \in 1..MaxPages :
        /\ board = [NewBoard EXCEPT !.page = p, !.loading = IsSearch \/ route = "mine"]
        /\ asks = CASE IsSearch -> {NewAsk("search", AnyQuery, p)}
                    [] route = "mine" -> {NewAsk("unsold", AnyQuery, 1)}
                    [] OTHER -> {}
  BY DEF BrowseInit
<1>3. 1 \in 1..MaxPages /\ 1 \in 0..MaxPages /\ 0 \in 0..MaxPages
  OBVIOUS
<1>4. board \in BoardType /\ (board.loading <=> Lists)
  <2>1. (IsSearch \/ route = "mine") \in BOOLEAN
    OBVIOUS
  <2> QED
    BY <1>2, <1>3, <2>1 DEF NewBoard, BoardType, Lists
<1>5. ASSUME NEW kind \in {"search", "unsold"}, NEW q \in 1..MaxPages
      PROVE  /\ NewAsk(kind, AnyQuery, q) \in AskType
             /\ NewAsk(kind, AnyQuery, q).kind = kind /\ NewAsk(kind, AnyQuery, q).at = "sent"
  BY <1>3 DEF NewAsk, AskType, Phases
<1>6. CASE IsSearch
  <2> PICK c : c = NewAsk("search", AnyQuery, p)
    OBVIOUS
  <2>1. asks = {c} /\ c \in AskType /\ c.kind = "search" /\ route # "mine"
    BY <1>2, <1>5, <1>6 DEF IsSearch
  <2>2. AskOK(c)
    BY <2>1 DEF AskOK, AllOfMine
  <2>3. Lists /\ board.loading
    BY <1>4, <1>6 DEF Lists
  <2>4. (~Lists => ~board.loading) /\ ListSpinnerAwaited /\ ListedOK
    BY <2>1, <2>3 DEF ListSpinnerAwaited, ListedOK
  <2> QED
    BY <1>1, <1>4, <2>1, <2>2, <2>3, <2>4 DEF BrowseInv
<1>7. CASE route = "mine"
  <2> PICK c : c = NewAsk("unsold", AnyQuery, 1)
    OBVIOUS
  <2>1. asks = {c} /\ c \in AskType /\ c.kind = "unsold" /\ c.at = "sent"
    BY <1>2, <1>3, <1>5, <1>7 DEF IsSearch
  <2>2. AskOK(c)
    BY <2>1 DEF AskOK, MissesNothing
  <2>3. Lists /\ board.loading
    BY <1>4, <1>7 DEF Lists
  <2>4. (~Lists => ~board.loading) /\ ListSpinnerAwaited /\ ListedOK
    BY <2>1, <2>3 DEF ListSpinnerAwaited, ListedOK
  <2> QED
    BY <1>1, <1>4, <2>1, <2>2, <2>3, <2>4 DEF BrowseInv
<1>8. CASE ~Lists
  <2>1. asks = {}
    BY <1>2, <1>8 DEF Lists
  <2> QED
    BY <1>1, <1>4, <1>8, <2>1 DEF BrowseInv, ListSpinnerAwaited, ListedOK, AllOfMine, Lists
<1> QED
  BY <1>6, <1>7, <1>8 DEF Lists

\* Another page is shown, or is left.
LEMMA BrowseStutter ==
  ASSUME BrowseInv, UNCHANGED browseVars,
         \/ route' = route
         \/ ~Lists /\ route' = "elsewhere"
  PROVE  BrowseInv'
<1>1. UNCHANGED <<goods, board, asks>>
  BY DEF browseVars
<1>2. CASE route' = route
  BY <1>1, <1>2 DEF BrowseInv, ListSpinnerAwaited, ListedOK, AllOfMine, Lists, IsSearch, AskOK,
                    MissesNothing
<1>3. CASE ~Lists /\ route' = "elsewhere"
  BY <1>1, <1>3 DEF BrowseInv, ListSpinnerAwaited, ListedOK, AllOfMine, Lists, IsSearch, AskOK
<1> QED
  BY <1>2, <1>3

-----------------------------------------------------------------------------
(* The list pages: asking. *)

LEMMA NewAskOK ==
  ASSUME BrowseInv, NEW kind \in {"search", "unsold"}, NEW q \in Queries, NEW p \in 1..MaxPages,
         kind = "search" => IsSearch, NEW c, c = NewAsk(kind, q, p)
  PROVE  AskOK(c) /\ c.kind = kind
<1>1. 0 \in 0..MaxPages
  OBVIOUS
<1>2. c \in AskType /\ c.kind = kind /\ c.at = "sent"
  BY <1>1 DEF NewAsk, AskType, Phases
<1> QED
  BY <1>2 DEF AskOK, MissesNothing, IsSearch

LEMMA AskSent ==
  ASSUME BrowseInv, NEW kind \in {"search", "unsold"}, NEW q \in Queries, NEW p \in 1..MaxPages,
         kind = "search" => IsSearch, kind = "unsold" => route = "mine",
         NEW b \in BoardType, Asks(NewAsk(kind, q, p), b)
  PROVE  BrowseInv'
<1> PICK c : c = NewAsk(kind, q, p)
  OBVIOUS
<1>1. AskOK(c) /\ c.kind = kind
  BY NewAskOK
<1>2. /\ asks' = asks \cup {c} /\ board' = [b EXCEPT !.loading = TRUE, !.error = FALSE]
      /\ UNCHANGED <<route, viewer, goods>>
  BY DEF Asks
<1>3. board' \in BoardType /\ board'.loading
  BY <1>2 DEF BoardType
<1>4. \A d \in asks' : AskOK(d)'
  BY <1>1, <1>2 DEF BrowseInv, AskOK, AllOfMine, MissesNothing
<1> QED
  BY <1>1, <1>2, <1>3, <1>4 DEF BrowseInv, ListSpinnerAwaited, ListedOK, AllOfMine, Lists, IsSearch

LEMMA BoardLeft ==
  ASSUME BrowseInv, LeaveBoard
  PROVE  BrowseInv'
<1>1. /\ route' = "elsewhere" /\ board' = NewBoard /\ asks' \subseteq asks /\ UNCHANGED goods
  BY DEF LeaveBoard, Navigate
<1>2. 1 \in 1..MaxPages /\ 1 \in 0..MaxPages
  OBVIOUS
<1>3. NewBoard \in BoardType /\ ~NewBoard.loading
  BY <1>2 DEF NewBoard, BoardType
<1>4. \A c \in asks' : AskOK(c)'
  BY <1>1 DEF BrowseInv, AskOK, AllOfMine
<1> QED
  BY <1>1, <1>3, <1>4 DEF BrowseInv, ListSpinnerAwaited, ListedOK, AllOfMine

LEMMA AskingSteps ==
  ASSUME BrowseInv
  PROVE  /\ \A q \in Queries : setParam(q) \/ handleFilterChange(q) => BrowseInv'
         /\ TurnPage \/ Retry \/ RetryMine \/ MineRenewed => BrowseInv'
         /\ LeaveBrowse \/ MineSessionExpires => BrowseInv'
         /\ \A g \in Goods : OpenListing(g) => BrowseInv'
<1>1. board \in BoardType /\ 1 \in 1..MaxPages /\ board.query \in Queries /\ board.page \in 1..MaxPages
  BY DEF BrowseInv, BoardType
<1>2. ASSUME NEW q \in Queries, setParam(q) PROVE BrowseInv'
  <2> PICK b : b = [board EXCEPT !.query = q, !.page = 1]
    OBVIOUS
  <2>1. b \in BoardType
    BY <1>1 DEF BoardType
  <2>2. Asks(NewAsk("search", q, 1), b) /\ IsSearch
    BY <1>2 DEF setParam, ShowParams, IsSearch
  <2> QED
    BY <1>1, <2>1, <2>2, AskSent
<1>3. ASSUME NEW q \in Queries, handleFilterChange(q) PROVE BrowseInv'
  <2> PICK b : b = [board EXCEPT !.query = q, !.page = 1]
    OBVIOUS
  <2>1. b \in BoardType
    BY <1>1 DEF BoardType
  <2>2. Asks(NewAsk("search", q, 1), b) /\ IsSearch
    BY <1>3 DEF handleFilterChange, PageShown
  <2> QED
    BY <1>1, <2>1, <2>2, AskSent
<1>4. ASSUME TurnPage PROVE BrowseInv'
  BY <1>1, <1>2, <1>4 DEF TurnPage
<1>5. ASSUME Retry PROVE BrowseInv'
  <2>1. Asks(NewAsk("search", board.query, board.page), board) /\ IsSearch
    BY <1>5 DEF Retry, RetryShown, PageShown
  <2> QED
    BY <1>1, <2>1, AskSent
<1>6. ASSUME RetryMine \/ MineRenewed PROVE BrowseInv'
  <2>1. Asks(NewAsk("unsold", AnyQuery, 1), board) /\ route = "mine"
    BY <1>6 DEF RetryMine, MineRenewed, MineRetryShown, MineShown, fetchMyListings
  <2> QED
    BY <1>1, <2>1, AskSent
<1>7. LeaveBrowse \/ MineSessionExpires => BrowseInv'
  BY BoardLeft DEF LeaveBrowse, MineSessionExpires
<1>8. \A g \in Goods : OpenListing(g) => BrowseInv'
  BY BoardLeft DEF OpenListing
<1> QED
  BY <1>2, <1>3, <1>4, <1>5, <1>6, <1>7, <1>8

LEMMA DeleteRowKeeps ==
  ASSUME BrowseInv, NEW g \in Goods, DeleteRow(g)
  PROVE  BrowseInv'
<1> PICK c : c = [NewAsk("delete", AnyQuery, 1) EXCEPT !.good = g]
  OBVIOUS
<1>1. /\ asks' = asks \cup {c} /\ board' = [board EXCEPT !.deleting = g]
      /\ UNCHANGED <<route, viewer, goods>> /\ route = "mine"
  BY DEF DeleteRow, ActiveRow, MineShown
<1>2. 0 \in 0..MaxPages /\ 1 \in 1..MaxPages
  OBVIOUS
<1>3. c \in AskType /\ c.kind = "delete" /\ c.at = "sent" /\ c.good = g
  BY <1>2 DEF NewAsk, AskType, Phases
<1>4. /\ board' \in BoardType /\ board'.loading = board.loading /\ board'.error = board.error
      /\ board'.listed = board.listed
  BY <1>1 DEF BrowseInv, BoardType
<1>5. \A d \in asks' : AskOK(d)'
  BY <1>1, <1>3 DEF BrowseInv, AskOK, AllOfMine, MissesNothing
<1> QED
  BY <1>1, <1>4, <1>5 DEF BrowseInv, ListSpinnerAwaited, ListedOK, AllOfMine, Lists, IsSearch

-----------------------------------------------------------------------------
(* The list pages: the server. *)

\* A good is sold or deleted, and neither is taken back.
GoodsMove ==
    /\ goods' \in GoodsType
    /\ \A g \in Goods :
         /\ goods'[g].mine = goods[g].mine
         /\ goods[g].at = "deleted" => goods'[g].at = "deleted"
         /\ goods[g].at = "sold" => goods'[g].at \in {"sold", "deleted"}

LEMMA GoodsMoveKeeps ==
  ASSUME BrowseInv, GoodsMove, route' = route
  PROVE  (\A c : AskOK(c) => AskOK(c)') /\ (UNCHANGED board => ListedOK')
<1>1. ASSUME NEW c, MissesNothing(c) PROVE MissesNothing(c)'
  BY <1>1 DEF GoodsMove, MissesNothing
<1>2. ASSUME NEW c, AskOK(c) PROVE AskOK(c)'
  BY <1>1, <1>2 DEF GoodsMove, AskOK, AllOfMine
<1>3. ASSUME UNCHANGED board PROVE ListedOK'
  BY <1>3 DEF GoodsMove, BrowseInv, ListedOK, AllOfMine
<1> QED
  BY <1>2, <1>3

LEMMA SoldOrDeleted ==
  ASSUME BrowseInv, NEW g \in Goods,
         \/ goods' = [goods EXCEPT ![g].at = "deleted"]
         \/ goods' = [goods EXCEPT ![g].at = "sold"] /\ goods[g].at = "unsold"
  PROVE  GoodsMove
<1>1. goods \in GoodsType
  BY DEF BrowseInv
<1>2. ASSUME goods' = [goods EXCEPT ![g].at = "deleted"] PROVE GoodsMove
  BY <1>1, <1>2 DEF GoodsType, GoodsMove
<1>3. ASSUME goods' = [goods EXCEPT ![g].at = "sold"], goods[g].at = "unsold" PROVE GoodsMove
  BY <1>1, <1>3 DEF GoodsType, GoodsMove
<1> QED
  BY <1>2, <1>3

\* A request becomes another; a list is waited for as before.
LEMMA AskGoesOn ==
  ASSUME BrowseInv, NEW c \in asks, NEW d, asks' = Becomes(asks, c, d), AskOK(d)',
         c.kind # "delete" => d.kind \in {"search", "unsold", "sold"},
         GoodsMove, UNCHANGED <<route, board>>
  PROVE  BrowseInv'
<1>1. ListedOK' /\ \A b \in asks' : AskOK(b)'
  BY GoodsMoveKeeps DEF BrowseInv, Becomes
<1>2. (ListSpinnerAwaited)'
  <2>1. board.loading => \E b \in asks : b.kind \in {"search", "unsold", "sold"}
    BY DEF BrowseInv, ListSpinnerAwaited
  <2>2. \A b \in asks : b.kind \in {"search", "unsold", "sold"} =>
          \E e \in asks' : e.kind \in {"search", "unsold", "sold"}
    BY DEF Becomes
  <2> QED
    BY <2>1, <2>2 DEF ListSpinnerAwaited
<1> QED
  BY <1>1, <1>2 DEF BrowseInv, GoodsMove, Lists, IsSearch

\* As many of the goods of a state as there are goods are all of them.
LEMMA AllFound ==
  ASSUME NEW status \in {"unsold", "sold"}, NEW S \in SUBSET Found(status),
         S = Found(status) \/ Cardinality(S) = MineLimit, AllOfMine
  PROVE  \A g \in Goods : goods[g].at = status => Known(g, S)
<1>1. IsFiniteSet(Found(status)) /\ Cardinality(Found(status)) <= Cardinality(Goods)
  <2> DEFINE f == [r \in Found(status) |-> r.good]
  <2>1. f \in [Found(status) -> Goods]
    BY DEF Found
  <2>2. \A r, s \in Found(status) : r.good = s.good => r = s
    BY DEF Found
  <2>3. f \in Injection(Found(status), Goods)
    BY <2>1, <2>2 DEF Injection, IsInjective
  <2> HIDE DEF f
  <2> QED
    BY <2>3, FS_Injection
<1>2. S = Found(status)
  <2>1. Cardinality(S) <= Cardinality(Found(status)) /\ (Cardinality(Found(status)) = Cardinality(S) => Found(status) = S)
    BY <1>1, FS_Subset
  <2>2. /\ Cardinality(Goods) \in Nat /\ Cardinality(Found(status)) \in Nat
        /\ IsFiniteSet(S) /\ Cardinality(S) \in Nat /\ Cardinality(Goods) <= MineLimit
    BY <1>1, FS_Subset, FS_CardinalityType DEF AllOfMine
  <2> QED
    BY <1>1, <2>1, <2>2
<1>3. ASSUME NEW g \in Goods, goods[g].at = status PROVE Known(g, Found(status))
  <2>1. [good |-> g, sold |-> status = "sold"] \in Found(status)
    BY <1>3 DEF Found, AllOfMine
  <2>2. [good |-> g, sold |-> status = "sold"].good = g
    OBVIOUS
  <2> QED
    BY <2>1, <2>2 DEF Known
<1> QED
  BY <1>2, <1>3

LEMMA ServeAskKeeps ==
  ASSUME BrowseInv, NEW c \in asks
  PROVE  /\ GetListings(c) => BrowseInv'
         /\ DeleteGood(c) => BrowseInv'
         /\ AskLost(c) => BrowseInv'
<1>0. AskOK(c) /\ c \in AskType /\ 0 \in 0..MaxPages
  BY DEF BrowseInv, AskOK
<1>1. UNCHANGED goods => GoodsMove
  BY DEF BrowseInv, GoodsMove
<1>2. ASSUME GetListings(c) PROVE BrowseInv'
  <2> PICK status \in {"unsold", "sold"} : status = IF c.kind = "sold" THEN "sold" ELSE "unsold"
    OBVIOUS
  <2>1. PICK S \in SUBSET Found(status), n \in 0..MaxPages :
          /\ c.kind # "search" => S = Found(status) \/ Cardinality(S) = MineLimit
          /\ AskServed(c, [Answered(c) EXCEPT !.found = S, !.pages = n])
    BY <1>2 DEF GetListings, Matches
  <2> PICK d : d = [Answered(c) EXCEPT !.found = S, !.pages = n]
    OBVIOUS
  <2>2. /\ c.kind \in {"search", "unsold", "sold"} /\ c.at = "sent"
        /\ asks' = Becomes(asks, c, d) /\ UNCHANGED <<route, viewer, board, goods>>
    BY <1>2, <2>1 DEF GetListings, AskServed
  <2>3. S \in SUBSET Rows
    <3>1. \A g \in Goods : [good |-> g, sold |-> status = "sold"] \in Rows
      <4>1. (status = "sold") \in BOOLEAN
        OBVIOUS
      <4> QED
        BY <4>1 DEF Rows
    <3> QED
      BY <3>1 DEF Found
  <2>4. /\ d \in AskType /\ d.kind = c.kind /\ d.at = "answered" /\ d.found = S /\ d.before = c.before
    BY <1>0, <2>3 DEF Answered, AskType, Phases
  <2>5. ASSUME AllOfMine PROVE MissesNothing(d)
    <3>1. c.kind # "search" => \A g \in Goods : goods[g].at = status => Known(g, S)
      BY <2>1, <2>5, AllFound
    <3>2. MissesNothing(c) /\ goods \in GoodsType
      BY <1>0, <2>5 DEF AskOK, BrowseInv
    <3>3. CASE c.kind = "unsold"
      BY <2>4, <3>1, <3>2, <3>3 DEF MissesNothing, GoodsType
    <3>4. CASE c.kind = "sold"
      <4>1. \A g \in Goods : goods[g].at = "sold" => Known(g, S)
        BY <3>1, <3>4
      <4>2. \A g \in Goods : goods[g].at # "deleted" => Known(g, c.before) \/ goods[g].at = "sold"
        BY <2>2, <3>2, <3>4 DEF MissesNothing
      <4>3. \A g : Known(g, c.before) \/ Known(g, S) => Known(g, d.before \cup d.found)
        BY <2>4 DEF Known
      <4> QED
        BY <2>4, <3>4, <4>1, <4>2, <4>3 DEF MissesNothing
    <3>5. CASE c.kind = "search"
      BY <2>4, <3>5 DEF MissesNothing
    <3> QED
      BY <2>2, <3>3, <3>4, <3>5
  <2>6. AskOK(d)
    BY <1>0, <2>2, <2>4, <2>5 DEF AskOK
  <2>7. AskOK(d)'
    BY <1>1, <2>2, <2>6, GoodsMoveKeeps
  <2> QED
    BY <1>1, <2>2, <2>4, <2>7, AskGoesOn
<1>3. ASSUME DeleteGood(c) PROVE BrowseInv'
  <2>1. c.kind = "delete" /\ c.good \in Goods
    BY <1>0, <1>3 DEF DeleteGood, AskOK
  <2>2. CASE goods[c.good].at = "deleted"
    <3> PICK d : d = Failed(c)
      OBVIOUS
    <3>1. asks' = Becomes(asks, c, d) /\ UNCHANGED <<route, viewer, board, goods>>
      BY <1>3, <2>2 DEF DeleteGood, AskServed
    <3>2. d \in AskType /\ d.kind = "delete" /\ d.at = "failed" /\ d.good = c.good
      BY <1>0, <2>1 DEF Failed, AskType, Phases
    <3>3. AskOK(d)
      BY <2>1, <3>2 DEF AskOK, MissesNothing
    <3>4. AskOK(d)'
      BY <1>1, <3>1, <3>3, GoodsMoveKeeps
    <3> QED
      BY <1>1, <2>1, <3>1, <3>4, AskGoesOn
  <2>3. CASE goods[c.good].at # "deleted"
    <3> PICK d : d = Answered(c)
      OBVIOUS
    <3>1. /\ asks' = Becomes(asks, c, d) /\ goods' = [goods EXCEPT ![c.good].at = "deleted"]
          /\ UNCHANGED <<route, viewer, board>>
      BY <1>3, <2>3 DEF DeleteGood, AskServed
    <3>2. d \in AskType /\ d.kind = "delete" /\ d.at = "answered" /\ d.good = c.good
      BY <1>0, <2>1 DEF Answered, AskType, Phases
    <3>3. GoodsMove
      BY <2>1, <3>1, SoldOrDeleted
    <3>4. goods'[c.good].at = "deleted"
      BY <2>1, <3>1 DEF BrowseInv, GoodsType
    <3>5. AskOK(d)'
      BY <2>1, <3>1, <3>2, <3>4 DEF AskOK, MissesNothing
    <3> QED
      BY <2>1, <3>1, <3>3, <3>5, AskGoesOn
  <2> QED
    BY <2>2, <2>3
<1>4. ASSUME AskLost(c) PROVE BrowseInv'
  <2> PICK d : d = [Failed(c) EXCEPT !.found = {}, !.before = {}, !.pages = 0]
    OBVIOUS
  <2>1. asks' = Becomes(asks, c, d) /\ UNCHANGED <<route, viewer, board, goods>>
    BY <1>4 DEF AskLost, AskServed
  <2>2. d \in AskType /\ d.kind = c.kind /\ d.at = "failed" /\ d.good = c.good
    BY <1>0 DEF Failed, AskType, Phases
  <2>3. AskOK(d)
    BY <1>0, <2>2 DEF AskOK, MissesNothing
  <2>4. AskOK(d)'
    BY <1>1, <2>1, <2>3, GoodsMoveKeeps
  <2>5. c.kind \in {"search", "unsold", "sold", "delete"}
    BY <1>0 DEF AskType
  <2> QED
    BY <1>1, <2>1, <2>2, <2>4, <2>5, AskGoesOn
<1> QED
  BY <1>2, <1>3, <1>4

LEMMA GoodSoldKeeps ==
  ASSUME BrowseInv, NEW g \in Goods, GoodSold(g)
  PROVE  BrowseInv'
<1>1. GoodsMove /\ UNCHANGED <<route, viewer, board, asks>>
  BY SoldOrDeleted DEF GoodSold
<1>2. ListedOK' /\ \A c \in asks' : AskOK(c)'
  BY <1>1, GoodsMoveKeeps DEF BrowseInv
<1> QED
  BY <1>1, <1>2 DEF BrowseInv, GoodsMove, ListSpinnerAwaited, Lists, IsSearch

-----------------------------------------------------------------------------
(* The list pages: the answers. *)

LEMMA TakenKeeps ==
  ASSUME BrowseInv, NEW c \in asks, NEW b \in BoardType, Taken(c, b),
         b.loading => board.loading /\ c.kind = "delete",
         AllOfMine /\ ~b.loading /\ ~b.error =>
           \A g \in Goods : goods[g].mine /\ goods[g].at # "deleted" => Known(g, b.listed)
  PROVE  BrowseInv'
<1>1. /\ asks' = asks \ {c} /\ board' = (IF Lists THEN b ELSE board)
      /\ UNCHANGED <<route, viewer, goods>>
  BY DEF Taken, Lists
<1>2. UNCHANGED <<IsSearch, Lists, AllOfMine>>
  BY <1>1 DEF Lists, IsSearch, AllOfMine
<1>3. \A d \in asks' : AskOK(d)'
  BY <1>1 DEF BrowseInv, AskOK, AllOfMine, MissesNothing
<1>4. ListedOK'
  <2>1. CASE Lists
    BY <1>1, <1>2, <2>1 DEF ListedOK
  <2>2. CASE ~Lists
    BY <1>2, <2>2 DEF ListedOK, AllOfMine, Lists
  <2> QED
    BY <2>1, <2>2
<1>5. ListSpinnerAwaited'
  <2>1. board.loading => \E d \in asks : d.kind \in {"search", "unsold", "sold"}
    BY DEF BrowseInv, ListSpinnerAwaited
  <2>2. board'.loading => Lists /\ board.loading /\ c.kind = "delete"
    BY <1>1 DEF BrowseInv
  <2> QED
    BY <1>1, <2>1, <2>2 DEF ListSpinnerAwaited
<1>6. board' \in BoardType /\ (~Lists' => ~board'.loading)
  <2>1. CASE Lists
    BY <1>1, <1>2, <2>1
  <2>2. CASE ~Lists
    BY <1>1, <2>2 DEF BrowseInv
  <2> QED
    BY <2>1, <2>2
<1>7. goods' \in GoodsType /\ (asks' # {} => Lists' \/ route' = "elsewhere")
  BY <1>1, <1>2 DEF BrowseInv
<1> QED
  BY <1>3, <1>4, <1>5, <1>6, <1>7 DEF BrowseInv

LEMMA AskAnswersKeep ==
  ASSUME BrowseInv, NEW c \in asks
  PROVE  /\ SearchAnswered(c) => BrowseInv'
         /\ MineAnswered(c) => BrowseInv'
         /\ DeleteAnswered(c) => BrowseInv'
         /\ AskFailed(c) => BrowseInv'
<1>0. AskOK(c) /\ c \in AskType /\ board \in BoardType /\ goods \in GoodsType
  BY DEF BrowseInv, AskOK
<1>1. ASSUME SearchAnswered(c) PROVE BrowseInv'
  <2> PICK b : b = [board EXCEPT !.listed = c.found, !.pages = c.pages, !.loading = FALSE]
    OBVIOUS
  <2>1. Taken(c, b) /\ c.kind = "search"
    BY <1>1 DEF SearchAnswered
  <2>2. b \in BoardType /\ ~b.loading
    BY <1>0 DEF AskType, BoardType
  <2>3. ~AllOfMine
    BY <1>0, <2>1 DEF AskOK, AllOfMine
  <2> QED
    BY <2>1, <2>2, <2>3, TakenKeeps
<1>2. ASSUME MineAnswered(c) PROVE BrowseInv'
  <2>1. CASE c.kind = "unsold"
    <3> PICK d : d = [NewAsk("sold", AnyQuery, 1) EXCEPT !.before = c.found]
      OBVIOUS
    <3>1. /\ c.at = "answered" /\ asks' = Becomes(asks, c, d)
          /\ UNCHANGED <<route, viewer, goods, board>>
      BY <1>2, <2>1 DEF MineAnswered
    <3>2. 0 \in 0..MaxPages /\ 1 \in 1..MaxPages
      OBVIOUS
    <3>3. d \in AskType /\ d.kind = "sold" /\ d.at = "sent" /\ d.before = c.found
      BY <1>0, <3>2 DEF NewAsk, AskType, Phases
    <3>4. AskOK(d)
      BY <1>0, <2>1, <3>1, <3>3 DEF AskOK, MissesNothing
    <3>5. GoodsMove
      BY <1>0, <3>1 DEF GoodsMove
    <3>6. AskOK(d)'
      BY <3>1, <3>4, <3>5, GoodsMoveKeeps
    <3> QED
      BY <3>1, <3>3, <3>5, <3>6, AskGoesOn
  <2>2. CASE c.kind = "sold"
    <3> DEFINE L == {r \in c.before \cup c.found : goods[r.good].mine}
    <3> PICK b : b = [board EXCEPT !.loading = FALSE, !.listed = L]
      OBVIOUS
    <3>1. Taken(c, b) /\ c.at = "answered"
      BY <1>2, <2>2 DEF MineAnswered
    <3>2. L \in SUBSET Rows
      BY <1>0 DEF AskType
    <3>3. \A g \in Goods : goods[g].mine /\ Known(g, c.before \cup c.found) => Known(g, L)
      BY DEF Known
    <3> HIDE DEF L
    <3>4. b \in BoardType /\ ~b.loading /\ b.listed = L
      BY <1>0, <3>2 DEF BoardType
    <3>5. AllOfMine => \A g \in Goods : goods[g].at # "deleted" => Known(g, c.before \cup c.found)
      BY <1>0, <2>2, <3>1 DEF AskOK, MissesNothing
    <3> QED
      BY <3>1, <3>3, <3>4, <3>5, TakenKeeps
  <2> QED
    BY <1>2, <2>1, <2>2 DEF MineAnswered
<1>3. ASSUME DeleteAnswered(c) PROVE BrowseInv'
  <2> DEFINE L == {r \in board.listed : r.good # c.good}
  <2> PICK b : b = [board EXCEPT !.listed = L, !.deleting = NoGood]
    OBVIOUS
  <2>1. Taken(c, b) /\ c.kind = "delete" /\ c.at = "answered"
    BY <1>3 DEF DeleteAnswered
  <2>2. goods[c.good].at = "deleted"
    BY <1>0, <2>1 DEF AskOK
  <2>3. L \in SUBSET Rows
    BY <1>0 DEF BoardType
  <2>4. \A g \in Goods : goods[g].at # "deleted" /\ Known(g, board.listed) => Known(g, L)
    BY <2>2 DEF Known
  <2> HIDE DEF L
  <2>5. b \in BoardType /\ b.loading = board.loading /\ b.error = board.error /\ b.listed = L
    BY <1>0, <2>3 DEF BoardType
  <2>6. AllOfMine /\ ~board.loading /\ ~board.error =>
          \A g \in Goods : goods[g].mine /\ goods[g].at # "deleted" => Known(g, board.listed)
    BY DEF BrowseInv, ListedOK
  <2> QED
    BY <2>1, <2>4, <2>5, <2>6, TakenKeeps
<1>4. ASSUME AskFailed(c) PROVE BrowseInv'
  <2>1. CASE c.kind = "delete"
    <3> PICK b : b = [board EXCEPT !.deleting = NoGood]
      OBVIOUS
    <3>1. Taken(c, b)
      BY <1>4, <2>1 DEF AskFailed
    <3>2. /\ b \in BoardType /\ b.loading = board.loading /\ b.error = board.error
          /\ b.listed = board.listed
      BY <1>0 DEF BoardType
    <3>3. AllOfMine /\ ~board.loading /\ ~board.error =>
            \A g \in Goods : goods[g].mine /\ goods[g].at # "deleted" => Known(g, board.listed)
      BY DEF BrowseInv, ListedOK
    <3> QED
      BY <2>1, <3>1, <3>2, <3>3, TakenKeeps
  <2>2. CASE c.kind # "delete"
    <3> PICK b : b = [board EXCEPT !.error = TRUE, !.loading = FALSE]
      OBVIOUS
    <3>1. Taken(c, b)
      BY <1>4, <2>2 DEF AskFailed
    <3>2. b \in BoardType /\ ~b.loading /\ b.error
      BY <1>0 DEF BoardType
    <3> QED
      BY <3>1, <3>2, TakenKeeps
  <2> QED
    BY <2>1, <2>2
<1> QED
  BY <1>1, <1>2, <1>3, <1>4

LEMMA BrowseStep == BrowseInv /\ BrowseNext => BrowseInv'
<1> SUFFICES ASSUME BrowseInv, BrowseNext PROVE BrowseInv'
  OBVIOUS
<1> QED
  BY AskingSteps, DeleteRowKeeps, GoodSoldKeeps, ServeAskKeeps, AskAnswersKeep DEF BrowseActs, BrowseNext

\* The steps of a list are made on its page, or after it was left.
LEMMA BrowseRoute ==
  ASSUME BrowseInv, BrowseNext
  PROVE  /\ route' = route \/ ((Lists \/ route = "elsewhere") /\ route' = "elsewhere")
         /\ viewer' = viewer \/ viewer' = Nobody
<1>1. ASSUME NEW c, NEW b, Asks(c, b) PROVE UNCHANGED <<route, viewer>>
  BY <1>1 DEF Asks
<1>2. LeaveBoard => route' = "elsewhere"
  BY DEF LeaveBoard, Navigate
<1>3. ASSUME NEW q \in Queries, setParam(q) \/ handleFilterChange(q) PROVE UNCHANGED <<route, viewer>>
  BY <1>1, <1>3 DEF setParam, ShowParams, handleFilterChange
<1>4. TurnPage \/ Retry \/ RetryMine \/ MineRenewed => UNCHANGED <<route, viewer>>
  BY <1>1 DEF TurnPage, setParam, ShowParams, Retry, RetryMine, MineRenewed, fetchMyListings
<1>5. LeaveBrowse \/ MineSessionExpires =>
        Lists /\ route' = "elsewhere" /\ (viewer' = viewer \/ viewer' = Nobody)
  BY <1>2 DEF LeaveBrowse, MineSessionExpires, Lists
<1>6. \A g \in Goods : OpenListing(g) => Lists /\ route' = "elsewhere" /\ viewer' = viewer
  BY <1>2 DEF OpenListing, CardShown, PageShown, ActiveRow, SoldRow, MineShown, Lists
<1>7. \A g \in Goods : DeleteRow(g) \/ GoodSold(g) => UNCHANGED <<route, viewer>>
  BY DEF DeleteRow, GoodSold
<1>8. \A c \in asks : GetListings(c) \/ DeleteGood(c) \/ AskLost(c) => UNCHANGED <<route, viewer>>
  BY DEF GetListings, DeleteGood, AskLost, AskServed
<1>9. \A c \in asks : SearchAnswered(c) \/ MineAnswered(c) \/ DeleteAnswered(c) \/ AskFailed(c) =>
        UNCHANGED <<route, viewer>>
  BY DEF SearchAnswered, MineAnswered, DeleteAnswered, AskFailed, Taken
<1> QED
  BY <1>3, <1>4, <1>5, <1>6, <1>7, <1>8, <1>9 DEF BrowseActs, BrowseNext

-----------------------------------------------------------------------------
(* The pages together. A step of one page may leave it, and then only for      *)
(* "elsewhere": so it is a stutter of the others, as the invariants of each    *)
(* say that its requests are in flight on its own page or after it.            *)

PagesInv ==
    /\ route \in Routes /\ viewer \in Users \cup {Nobody}
    /\ AuthInv /\ ListingInv /\ FormInv /\ BrowseInv

LEMMA PagesStart == Init => PagesInv
<1> SUFFICES ASSUME Init PROVE PagesInv
  OBVIOUS
<1>1. route \in Routes /\ viewer \in Users \cup {Nobody}
  BY DEF Init
<1>2. AuthInit /\ ListingInit /\ ListingFormInit /\ BrowseInit
  BY DEF Init
<1> QED
  BY <1>1, <1>2, AuthStart, ListingStart, FormStart, BrowseStart DEF PagesInv

LEMMA PagesStep == PagesInv /\ [Next]_vars => PagesInv'
<1> SUFFICES ASSUME PagesInv, [Next]_vars PROVE PagesInv'
  OBVIOUS
<1>0. /\ route \in Routes /\ viewer \in Users \cup {Nobody}
      /\ AuthInv /\ ListingInv /\ FormInv /\ BrowseInv
  BY DEF PagesInv
<1>1. CASE AuthPageNext /\ UNCHANGED <<listingVars, formVars, browseVars>>
  <2>1. /\ route' = route \/ (route \in {"auth", "elsewhere"} /\ route' = "elsewhere")
        /\ viewer' = viewer \/ viewer' \in Users
    BY <1>0, <1>1, AuthRoute
  <2>2. AuthInv'
    BY <1>0, <1>1, AuthStep
  <2>3. ListingInv' /\ FormInv'
    BY <1>0, <1>1, <2>1, ListingStutter, FormStutter
  <2>4. BrowseInv'
    BY <1>0, <1>1, <2>1, BrowseStutter DEF Lists, IsSearch
  <2> QED
    BY <1>0, <2>1, <2>2, <2>3, <2>4 DEF PagesInv, Routes
<1>2. CASE ListingPageNext /\ UNCHANGED <<authVars, formVars, browseVars>>
  <2>1. /\ route' = route \/ (route \in {"listing", "elsewhere"} /\ route' = "elsewhere")
        /\ viewer' = viewer \/ viewer' = Nobody
    BY <1>0, <1>2, ListingRoute
  <2>2. ListingInv'
    BY <1>0, <1>2, ListingStep
  <2>3. AuthInv' /\ FormInv'
    BY <1>0, <1>2, <2>1, AuthStutter, FormStutter
  <2>4. BrowseInv'
    BY <1>0, <1>2, <2>1, BrowseStutter DEF Lists, IsSearch
  <2> QED
    BY <1>0, <2>1, <2>2, <2>3, <2>4 DEF PagesInv, Routes
<1>3. CASE ListingFormNext /\ UNCHANGED <<authVars, listingVars, browseVars>>
  <2>1. /\ route' = route \/ (route \in {"create", "edit", "elsewhere"} /\ route' = "elsewhere")
        /\ viewer' = viewer \/ viewer' = Nobody
    BY <1>0, <1>3, FormRoute
  <2>2. FormInv'
    BY <1>0, <1>3, FormStep
  <2>3. AuthInv' /\ ListingInv'
    BY <1>0, <1>3, <2>1, AuthStutter, ListingStutter
  <2>4. BrowseInv'
    BY <1>0, <1>3, <2>1, BrowseStutter DEF Lists, IsSearch
  <2> QED
    BY <1>0, <2>1, <2>2, <2>3, <2>4 DEF PagesInv, Routes
<1>4. CASE BrowseNext /\ UNCHANGED <<authVars, listingVars, formVars>>
  <2>1. /\ \/ route' = route
           \/ route \in {"home", "auctions", "buy", "mine", "elsewhere"} /\ route' = "elsewhere"
        /\ viewer' = viewer \/ viewer' = Nobody
    BY <1>0, <1>4, BrowseRoute DEF Lists, IsSearch
  <2>2. BrowseInv'
    BY <1>0, <1>4, BrowseStep
  <2>3. AuthInv' /\ ListingInv' /\ FormInv'
    BY <1>0, <1>4, <2>1, AuthStutter, ListingStutter, FormStutter
  <2> QED
    BY <1>0, <2>1, <2>2, <2>3 DEF PagesInv, Routes
<1>5. CASE UNCHANGED vars
  <2>1. UNCHANGED <<route, viewer, authVars, listingVars, formVars, browseVars>>
    BY <1>5 DEF vars
  <2> QED
    BY <1>0, <2>1, AuthStutter, ListingStutter, FormStutter, BrowseStutter DEF PagesInv
<1> QED
  BY <1>1, <1>2, <1>3, <1>4, <1>5 DEF Next

\* What the pages keep, and what each of them needs to keep it.
THEOREM PagesInvariance == Spec => []PagesInv
<1> QED
  BY PagesStart, PagesStep, PTL DEF Spec

LEMMA ListingTyped == ListingInv => ListingTypeOK
<1> SUFFICES ASSUME ListingInv PROVE ListingTypeOK
  OBVIOUS
<1>1. TrueEvents \subseteq Events
  BY DEF TrueEvents
<1>2. stream.queue \in Seq(Events)
  <2>1. stream.queue \in Seq(TrueEvents)
    BY DEF ListingInv, StreamOK
  <2> QED
    BY <1>1, <2>1, WiderSequences
<1>3. stream \in [at : {"none", "connecting", "open", "closed"}, queue : Seq(Events)]
  BY <1>2 DEF ListingInv, StreamOK
<1>4. \A c \in pageCalls : c \in PageCall
  BY DEF ListingInv, CallsOK, CallOK
<1>5. /\ item \in Items /\ ledger \subseteq Prices
      /\ bids \in [taken : SUBSET Prices, lead : BOOLEAN]
  BY DEF ListingInv, ServerOK
<1>6. news \subseteq Events /\ Len(stream.queue) <= StreamCap /\ shown \in ShownType
  BY <1>1 DEF ListingInv, StreamOK, ShownOK
<1> QED
  BY <1>3, <1>4, <1>5, <1>6 DEF ListingTypeOK, Items, ShownType, PageCall, Results

\* Every page's state has its type, whichever page is shown and whatever it left
\* behind.
THEOREM PagesTyped == Spec => []PagesTypeOK
<1>1. PagesInv => PagesTypeOK
  BY AuthTyped, ListingTyped, FormTyped, BrowseTyped DEF PagesInv, PagesTypeOK
<1> QED
  BY <1>1, PagesInvariance, PTL

\* The sign-in page is never loading for nothing, for any number of requests.
THEOREM SignInAwaited == Spec => []AuthSpinnerAwaited
<1>1. PagesInv => AuthSpinnerAwaited
  BY DEF PagesInv, AuthInv, AuthFormOK
<1> QED
  BY <1>1, PagesInvariance, PTL

\* A listing's page shows committed prices and the viewer's own maximum, in whatever
\* order answers and events come.
THEOREM PricesAreTrue == Spec => []ShownWasCommitted
<1>1. PagesInv => ShownWasCommitted
  BY DEF PagesInv, ListingInv, ShownOK
<1> QED
  BY <1>1, PagesInvariance, PTL

\* An event stream is closed with the page that opened it.
THEOREM StreamsEnd == Spec => []StreamEndsWithPage
<1>1. PagesInv => StreamEndsWithPage
  BY DEF PagesInv, ListingInv, StreamOK
<1> QED
  BY <1>1, PagesInvariance, PTL

\* There are no two listings of one try, for any number of submissions.
THEOREM TriesMakeOne == Spec => []OneListingPerTry
<1>1. PagesInv => OneListingPerTry
  BY FormOneListing DEF PagesInv
<1> QED
  BY <1>1, PagesInvariance, PTL

\* No picture of a submission is left out of its request, for any set of files.
THEOREM PicturesAreAsked == Spec => []AskedWithAllPictures
<1>1. PagesInv => AskedWithAllPictures
  BY FormAsksWithAll DEF PagesInv
<1> QED
  BY <1>1, PagesInvariance, PTL

\* The user's list is complete when the market has no more listings than it asks for.
THEOREM MineIsComplete == Spec => []NoListingMissing
<1>1. PagesInv => NoListingMissing
  BY BrowseMissesNothing DEF PagesInv
<1> QED
  BY <1>1, PagesInvariance, PTL

\* A list is never loading for nothing, for any number of searches.
THEOREM ListsAwaited == Spec => []ListSpinnerAwaited
<1>1. PagesInv => ListSpinnerAwaited
  BY DEF PagesInv, BrowseInv
<1> QED
  BY <1>1, PagesInvariance, PTL

-----------------------------------------------------------------------------
(* What no step does. *)

\* An account whose mail the user cannot read is never touched, for any number of
\* codes made, mailed, expired and typed.
THEOREM OthersAccountsAreSafe == Spec => OnlyOwnAccounts
<1>1. ASSUME PagesInv, [Next]_vars
      PROVE  [\A e \in Users \ Mailboxes : accounts'[e] = accounts[e]]_<<route, viewer, authVars>>
  <2>1. CASE AuthPageNext
    BY <1>1, <2>1, OwnAccountsStep DEF PagesInv
  <2>2. CASE UNCHANGED authVars
    BY <2>2 DEF authVars
  <2> QED
    BY <1>1, <2>1, <2>2 DEF Next, vars
<1> QED
  BY <1>1, PagesInvariance, PTL DEF Spec, OnlyOwnAccounts

\* The maximum that is shown never falls, for any prices and number of bids.
THEOREM MaximumRises == Spec => MaxNeverFalls
<1>1. ASSUME PagesInv, [Next]_vars
      PROVE  [ListingShown /\ ListingShown' => shown'.userMax >= shown.userMax]_<<route, viewer, listingVars>>
  <2>1. CASE ListingPageNext
    BY <1>1, <2>1, MaxStep DEF PagesInv
  <2>2. CASE UNCHANGED listingVars
    <3>1. shown.userMax \in Nat
      BY <1>1 DEF PagesInv, ListingInv, ShownOK, ShownType, Prices
    <3> QED
      BY <2>2, <3>1 DEF listingVars
  <2> QED
    BY <1>1, <2>1, <2>2 DEF Next, vars
<1> QED
  BY <1>1, PagesInvariance, PTL DEF Spec, MaxNeverFalls

\* A picture of an edited listing is lost only to an update that brings others or the
\* URL that was erased, and only what an update asks for is added, for any set of files
\* and any number of saves.
THEOREM UntouchedAreKept == Spec => UntouchedPicturesStay
<1> DEFINE Kept ==
      0 \in DOMAIN rows =>
        /\ ~(rows[0] \subseteq rows'[0]) =>
             \E s \in subs : s.kind = "update" /\ (BringsPictures(s) \/ ErasedUrl(s))
        /\ \A p \in rows'[0] \ rows[0] : \E s \in subs : s.kind = "update" /\ p \in s.wanted
<1>1. ASSUME PagesInv, [Next]_vars
      PROVE  [Kept]_<<route, viewer, formVars>>
  <2>1. CASE ListingFormNext
    <3>1. CASE 0 \in DOMAIN rows /\ rows'[0] # rows[0]
      <4>1. PICK s \in subs : /\ s.kind = "update"
                              /\ BringsPictures(s) \/ ErasedUrl(s)
                              /\ rows'[0] \ rows[0] \subseteq s.wanted
        BY <1>1, <2>1, <3>1, UntouchedStep DEF PagesInv
      <4> QED
        BY <4>1
    <3>2. CASE ~(0 \in DOMAIN rows /\ rows'[0] # rows[0])
      BY <3>2
    <3> QED
      BY <3>1, <3>2
  <2>2. CASE UNCHANGED formVars
    BY <2>2 DEF formVars
  <2> QED
    BY <1>1, <2>1, <2>2 DEF Next, vars
<1> QED
  BY <1>1, PagesInvariance, PTL DEF Spec, UntouchedPicturesStay
=============================================================================
