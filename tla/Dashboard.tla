----------------------------- MODULE Dashboard -----------------------------
(* The merchant dashboard (ui-dashboard): signing in and out, loading the   *)
(* user's merchants, choosing the merchant to work on, creating and         *)
(* deleting merchants, and changing the settings of the chosen one.  Three  *)
(* states shared by all pages have to fit together: merchantId, the list of *)
(* merchants, and the merchant whose settings are on display.               *)
EXTENDS DashboardTab

CONSTANTS
  Users,
  Owner,        \* the user who owns, or may create, each merchant
  MaxHasty      \* bound: acts of the user while an answer is outstanding

ASSUME DashboardAssumption ==
  /\ Owner \in [Merchants -> Users] /\ None \notin Users \cup Merchants
  /\ MaxInFlight \in Nat \ {0} /\ MaxFaults \in Nat /\ MaxHasty \in Nat

VARIABLES
  session,      \* the server's: the user the session cookie stands for
  exists,       \* the server's: merchants that are there
  settings,     \* the server's: whose settings each merchant has, and whose
                \* fee; its own, unless another one's have been written into it
  page,         \* "login", "manage", "currencies", or "settings" for the
                \* merchant's other pages
  user,
  merchants,    \* the list, None until it is loaded
  merchant,     \* the merchant on display, and the settings it came with
  globalFee,    \* on the currencies page: whose fee its form holds, None as
                \* long as it has the default
  loadedFor,    \* the merchant its effect last ran for
  isLoading,    \* the page shows a spinner in place of its content
  hasty         \* history: how often the user acted while an answer was
                \* outstanding

dashboardVars ==
  <<session, exists, settings, page, user, merchants, merchantId, merchant, globalFee,
    loadedFor, isLoading, request, faults, hasty>>
server == <<session, exists, settings>>
fees == <<globalFee, loadedFor>>
browser == <<page, user, merchants, merchantId, merchant, fees, isLoading>>

MerchantPages == {"settings", "currencies"}
Displays == [id : Merchants, settings : Merchants]
Own(u) == {m \in exists : Owner[m] = u}

(* "user" and "stored" are what loadUserInfo closed over and learned so far. *)
Asking(kind, id, then, stored) ==
  [kind |-> kind, at |-> "server", id |-> id, then |-> then, stored |-> stored]
Answer(r, ok, result) ==
  [kind |-> r.kind, at |-> "page", id |-> r.id, then |-> r.then,
   stored |-> r.stored, ok |-> ok, result |-> result]

loadUserInfo(stored) == Asking("me", None, "load", stored)
getMerchants(then, id, stored) == Asking("list", id, then, stored)
getMerchant(id, then) == Asking("show", id, then, None)

EffectIsDue == page = "currencies" /\ ~isLoading /\ merchantId # loadedFor

UserActs ==
  LET settled == Quiet /\ ~EffectIsDue IN
  /\ settled \/ hasty < MaxHasty
  /\ hasty' = IF settled THEN hasty ELSE hasty + 1
Unhurried == UNCHANGED hasty

DashboardInit ==
  /\ session \in Users \cup {None}
  /\ exists \in SUBSET Merchants
  /\ settings = [m \in Merchants |-> [own |-> m, fee |-> m]]
  /\ page = "settings" /\ user = None /\ merchants = None
  /\ merchantId \in Merchants \cup {None} /\ merchant = None
  /\ globalFee = None /\ loadedFor = None /\ isLoading = TRUE
  /\ request = [i \in Slots |-> IF i = 1 THEN loadUserInfo(merchantId) ELSE Free]
  /\ faults = 0 /\ hasty = 0

----------------------------------------------------------------------------
(* The server.  A request without a session is refused; what belongs to     *)
(* another user is not found.                                               *)

Allowed(r) ==
  CASE r.kind \in {"login", "logout"} -> TRUE
    [] r.kind \in {"me", "list", "create"} -> session # None
    [] OTHER -> r.id \in exists /\ Owner[r.id] = session

Result(r) ==
  CASE r.kind = "me" -> session
    [] r.kind = "list" -> Own(session)
    [] r.kind = "show" -> [id |-> r.id, settings |-> settings[r.id].own]
    [] r.kind = "fee" -> settings[r.id].fee
    [] OTHER -> r.id

Serve(i) ==
  LET r == request[i] IN
  /\ AtServer(i)
  /\ session' = CASE r.kind = "login" -> r.id [] r.kind = "logout" -> None [] OTHER -> session
  /\ exists' = CASE r.kind = "create" /\ Allowed(r) -> exists \cup {r.id}
                 [] r.kind = "delete" /\ Allowed(r) -> exists \ {r.id}
                 [] OTHER -> exists
  /\ settings' = IF r.kind = "save" /\ Allowed(r)
                 THEN [settings EXCEPT ![r.id] = IF r.then = "fee" THEN [@ EXCEPT !.fee = r.stored]
                                                ELSE [@ EXCEPT !.own = r.stored]]
                ELSE settings
  /\ GoesOn(i, IF Allowed(r) THEN Answer(r, TRUE, Result(r)) ELSE Answer(r, FALSE, "refused"))
  /\ UNCHANGED <<browser, faults>> /\ Unhurried

Lose(i) ==
  /\ request[i] # Free /\ faults < MaxFaults
  /\ request[i].at = "page" => request[i].ok
  /\ GoesOn(i, Answer(request[i], FALSE, "lost"))
  /\ faults' = faults + 1
  /\ UNCHANGED <<server, browser>> /\ Unhurried

SessionExpires ==
  /\ session # None /\ faults < MaxFaults
  /\ session' = None /\ faults' = faults + 1
  /\ UNCHANGED <<exists, settings, browser, request>> /\ Unhurried

----------------------------------------------------------------------------
(* loadUserInfo: four requests in a row.                                    *)

Handled == UNCHANGED <<server, faults>> /\ Unhurried

(* A refusal sends the user to the login page; getMe that fails otherwise   *)
(* leaves a page without a user.  Either way the rest does nothing.         *)
MeAnswered(i) ==
  LET r == request[i] IN
  /\ Arrived(i, "me")
  /\ IF r.ok
     THEN /\ user' = r.result /\ GoesOn(i, getMerchants("load", None, r.stored))
          /\ UNCHANGED <<page, isLoading>>
     ELSE /\ page' = IF r.result = "refused" THEN "login" ELSE page
          /\ isLoading' = FALSE /\ Ends(i) /\ UNCHANGED user
  /\ UNCHANGED <<merchants, merchantId, merchant, fees>> /\ Handled

(* Without a merchant the user is taken to the page that creates one.       *)
RouteFor(list) == IF list = {} /\ page # "login" THEN "manage" ELSE page

FirstOf(list) == IF list = {} THEN None ELSE CHOOSE m \in list : TRUE

(* The id kept from an earlier visit, unchecked.                            *)
ValidIdTrusted(stored, list) == IF stored # None THEN stored ELSE FirstOf(list)

(* The id kept from an earlier visit counts only if it is on the list.      *)
ValidId(stored, list) == IF stored \in list THEN stored ELSE FirstOf(list)

(* A user without merchants: the spinner is forgotten.                      *)
ListLoadedSpins(i) ==
  LET r == request[i]
      id == ValidId(r.stored, r.result) IN
  /\ Arrived(i, "list") /\ r.then = "load" /\ r.ok
  /\ merchants' = r.result /\ merchantId' = id /\ page' = RouteFor(r.result)
  /\ IF id = None THEN Ends(i) ELSE GoesOn(i, getMerchant(id, "load"))
  /\ UNCHANGED <<user, merchant, fees, isLoading>> /\ Handled

(* When the list does not arrive the function ends in an exception, and     *)
(* nothing clears isLoading.                                                *)
ListLoaded(i) ==
  LET r == request[i]
      id == ValidId(r.stored, r.result) IN
  /\ Arrived(i, "list") /\ r.then = "load"
  /\ IF ~r.ok
     THEN Ends(i) /\ UNCHANGED <<page, merchants, merchantId, isLoading>>
     ELSE /\ merchants' = r.result /\ merchantId' = id /\ page' = RouteFor(r.result)
          /\ IF id = None
             THEN isLoading' = FALSE /\ Ends(i)
             ELSE GoesOn(i, getMerchant(id, "load")) /\ UNCHANGED isLoading
  /\ UNCHANGED <<user, merchant, fees>> /\ Handled

(* getMerchant shows what it is answered, whatever is chosen by then.  The  *)
(* currencies page goes on with the fee.                                    *)
ShowAnswered(i) ==
  LET r == request[i] IN
  /\ Arrived(i, "show")
  /\ merchant' = IF r.ok THEN r.result ELSE merchant
  /\ isLoading' = (isLoading /\ ~(r.ok /\ r.then = "load"))
  /\ IF r.ok /\ r.then = "fee" THEN GoesOn(i, Asking("fee", r.id, "show", None)) ELSE Ends(i)
  /\ UNCHANGED <<page, user, merchants, merchantId, fees>> /\ Handled

----------------------------------------------------------------------------
(* Signing in and out.  A tab that was not closed keeps all its states.     *)

(* The only control the login page offers; it is disabled while in use.     *)
SignIn(u) ==
  /\ page = "login" /\ \A i \in Slots : request[i].kind # "login"
  /\ Send(Asking("login", u, "reload", None))
  /\ UserActs /\ UNCHANGED <<server, browser, faults>>

(* The promise of login() is also fulfilled when no response came: the      *)
(* interceptor of responses turns a network error into "undefined".         *)
LoginAnswered(i) ==
  /\ Arrived(i, "login")
  /\ page' = IF merchants = {} THEN "manage" ELSE "settings"
  /\ GoesOn(i, loadUserInfo(merchantId))
  /\ UNCHANGED <<user, merchants, merchantId, merchant, fees, isLoading>> /\ Handled

logout ==
  /\ page # "login"
  /\ merchantId' = None
  /\ Send(Asking("logout", None, "login", None))
  /\ UserActs /\ UNCHANGED <<server, page, user, merchants, merchant, fees, isLoading, faults>>

LogoutAnswered(i) ==
  /\ Arrived(i, "logout")
  /\ page' = IF request[i].ok THEN "login" ELSE page
  /\ Ends(i) /\ UNCHANGED <<user, merchants, merchantId, merchant, fees, isLoading>> /\ Handled

----------------------------------------------------------------------------
(* Choosing a merchant.                                                     *)

(* The list of the switcher; its onChange.                                  *)
SelectMerchant(m) ==
  /\ page \in MerchantPages /\ merchants # None /\ m \in merchants
  /\ merchantId' = m
  /\ Send(getMerchant(m, "show"))
  /\ UserActs /\ UNCHANGED <<server, page, user, merchants, merchant, fees, isLoading, faults>>

(* What the currencies page waits for when it is left has no effect on the  *)
(* page that is opened next.                                                *)
LeftBehind ==
  [i \in Slots |-> IF request[i] = Free THEN Free
                   ELSE IF request[i].then = "fee" /\ request[i].kind = "show"
                   THEN [request[i] EXCEPT !.then = "show"]
                   ELSE IF request[i].kind = "fee" THEN [request[i] EXCEPT !.then = "left"]
                   ELSE request[i]]
GoTo(p, sent) ==
  /\ page' = p /\ request' = sent /\ globalFee' = None /\ loadedFor' = None
  /\ UserActs /\ UNCHANGED <<server, user, merchants, merchantId, merchant, isLoading, faults>>

HasMerchants == ~isLoading /\ merchants # None /\ merchants # {}

(* The page shows the merchant that is there.                               *)
OpenSettingsAsIs ==
  /\ page \in {"manage", "currencies"} /\ HasMerchants
  /\ GoTo("settings", LeftBehind)

(* A page of the merchant loads it when it is mounted.  It is reached once  *)
(* there is a merchant.                                                     *)
OpenSettings ==
  /\ page \in {"manage", "currencies"} /\ HasMerchants
  /\ IF merchantId = None THEN GoTo("settings", LeftBehind)
     ELSE \E i \in FreeSlots : /\ \A j \in FreeSlots : i <= j
            /\ GoTo("settings", [LeftBehind EXCEPT ![i] = getMerchant(merchantId, "show")])

OpenManage == page \in MerchantPages /\ GoTo("manage", LeftBehind)

----------------------------------------------------------------------------
(* The currencies page.                                                     *)

OpenCurrencies == page \in {"manage", "settings"} /\ HasMerchants /\ GoTo("currencies", request)

(* Its effect on merchantId, also when it is mounted.                       *)
loadAll ==
  /\ EffectIsDue /\ loadedFor' = merchantId
  /\ IF merchantId = None THEN UNCHANGED request ELSE Send(getMerchant(merchantId, "fee"))
  /\ UNCHANGED <<page, user, merchants, merchantId, merchant, globalFee, isLoading>> /\ Handled

FeeAnswered(i) ==
  LET r == request[i] IN
  /\ Arrived(i, "fee")
  /\ globalFee' = IF r.ok /\ r.then # "left" THEN r.result ELSE globalFee
  /\ Ends(i)
  /\ UNCHANGED <<page, user, merchants, merchantId, merchant, loadedFor, isLoading>> /\ Handled

----------------------------------------------------------------------------
(* The page that manages merchants.                                         *)

OnManage == page = "manage" /\ ~isLoading /\ merchants # None

uploadCreatedMerchant(m) ==
  /\ OnManage /\ m \notin exists /\ Owner[m] = user
  /\ Send(Asking("create", m, "choose", None))
  /\ UserActs /\ UNCHANGED <<server, browser, faults>>

(* useAsyncFn returns the error instead of throwing it: a failed creation   *)
(* goes on like a successful one, with an undefined id.                     *)
CreateAnswered(i) ==
  /\ Arrived(i, "create")
  /\ merchantId' = IF request[i].ok THEN request[i].id ELSE None
  /\ GoesOn(i, getMerchants("reset", None, None))
  /\ UNCHANGED <<page, user, merchants, merchant, fees, isLoading>> /\ Handled

(* Only the name changes, and the list is loaded again.                     *)
uploadEditedMerchant(m) ==
  /\ OnManage /\ m \in merchants
  /\ Send(getMerchants("reset", None, None))
  /\ UserActs /\ UNCHANGED <<server, browser, faults>>

onConfirmDeleteMerchant(m) ==
  /\ OnManage /\ m \in merchants
  /\ Send(Asking("delete", m, "list", None))
  /\ UserActs /\ UNCHANGED <<server, browser, faults>>

(* The list the handler closed over decides which merchant comes next.      *)
DeleteAnswered(i) ==
  /\ Arrived(i, "delete")
  /\ IF request[i].ok
     THEN GoesOn(i, getMerchants("deleted", request[i].id, None)) ELSE Ends(i)
  /\ UNCHANGED browser /\ Handled

ListReloaded(i) ==
  LET r == request[i] IN
  /\ Arrived(i, "list") /\ r.then \in {"reset", "deleted"}
  /\ IF ~r.ok
     THEN UNCHANGED <<page, merchants, merchantId>>
     ELSE /\ merchants' = r.result /\ page' = RouteFor(r.result)
          /\ merchantId' = IF r.then = "deleted"
                           THEN FirstOf((IF merchants = None THEN {} ELSE merchants) \ {r.id})
                           ELSE merchantId
  /\ Ends(i) /\ UNCHANGED <<user, merchant, fees, isLoading>> /\ Handled

----------------------------------------------------------------------------
(* The merchant's settings: payment methods, currencies, webhook.           *)

(* What is on display, with one change, is sent to the merchant that is     *)
(* chosen.                                                                  *)
SaveSettings(then, value) ==
  /\ ~isLoading /\ merchantId # None /\ merchant # None
  /\ \A i \in Slots : request[i].kind = "save" => request[i].then # then
  /\ Send(Asking("save", merchantId, then, value))
  /\ UserActs /\ UNCHANGED <<server, browser, faults>>

PaymentMethodsChange == page = "settings" /\ SaveSettings("methods", merchant.settings)
toggleCurrency == page = "currencies" /\ SaveSettings("currency", merchant.settings)
updateWebhookSettings == page = "settings" /\ SaveSettings("webhook", merchant.settings)

(* The currency and the global fee.  The overrides of single currencies,    *)
(* which the server ignores, are left out.                                  *)
saveFeeSettings == page = "currencies" /\ SaveSettings("fee", globalFee)

(* Payment methods and the fee are not loaded again; the other two are when *)
(* the call succeeded, for the webhook form also when no response came.     *)
SaveAnswered(i) ==
  LET r == request[i] IN
  /\ Arrived(i, "save")
  /\ IF \/ r.ok /\ r.then \in {"currency", "webhook"}
        \/ r.result = "lost" /\ r.then = "webhook"
     THEN GoesOn(i, getMerchant(r.id, "show")) ELSE Ends(i)
  /\ UNCHANGED browser /\ Handled

----------------------------------------------------------------------------
Answered(i) ==
  \/ MeAnswered(i) \/ ListLoaded(i) \/ ShowAnswered(i) \/ LoginAnswered(i)
  \/ LogoutAnswered(i) \/ CreateAnswered(i) \/ DeleteAnswered(i) \/ ListReloaded(i)
  \/ SaveAnswered(i) \/ FeeAnswered(i)

UserDoes ==
  \/ \E u \in Users : SignIn(u)
  \/ \E m \in Merchants : SelectMerchant(m) \/ uploadCreatedMerchant(m)
       \/ uploadEditedMerchant(m) \/ onConfirmDeleteMerchant(m)
  \/ logout \/ OpenSettings \/ OpenManage \/ OpenCurrencies
  \/ PaymentMethodsChange \/ toggleCurrency \/ updateWebhookSettings \/ saveFeeSettings

DashboardNext ==
  \/ UserDoes \/ SessionExpires \/ loadAll
  \/ \E i \in Slots : Serve(i) \/ Lose(i) \/ Answered(i)

DashboardSpec == DashboardInit /\ [][DashboardNext]_dashboardVars

(* Requests are answered or fail.                                           *)
FairDashboardSpec ==
  DashboardSpec /\ \A i \in Slots : WF_dashboardVars(Serve(i)) /\ WF_dashboardVars(Answered(i))

----------------------------------------------------------------------------
DashboardTypeOK ==
  /\ session \in Users \cup {None} /\ exists \subseteq Merchants
  /\ settings \in [Merchants -> [own : Merchants, fee : Merchants \cup {None}]]
  /\ page \in {"login", "manage"} \cup MerchantPages /\ user \in Users \cup {None}
  /\ merchants \in (SUBSET Merchants) \cup {None}
  /\ merchantId \in Merchants \cup {None} /\ merchant \in Displays \cup {None}
  /\ globalFee \in Merchants \cup {None} /\ loadedFor \in Merchants \cup {None}
  /\ isLoading \in BOOLEAN /\ faults \in 0..MaxFaults /\ hasty \in 0..MaxHasty
  /\ \A i \in Slots : request[i] = Free \/ request[i].at \in {"server", "page"}

(* A user who waits for each answer, and loses none, never writes one       *)
(* merchant's settings or fee into another, nor the form's default over a   *)
(* fee, although three ways of changing the chosen merchant leave the one   *)
(* on display as it is.                                                     *)
SettingsStayApart ==
  hasty = 0 /\ faults = 0 => \A m \in Merchants : settings[m] = [own |-> m, fee |-> m]

(* When everything has been answered, the chosen merchant is one the        *)
(* signed-in user has, whoever used the tab before.                         *)
ChosenIsOwn ==
  Quiet /\ hasty = 0 /\ faults = 0 /\ page # "login" /\ user # None =>
    merchantId = None \/ merchantId \in Own(user)

(* The spinner goes away, or gives way to the login page, unless something  *)
(* was lost.  (A list that does not arrive leaves it there for good.)       *)
LoadingEnds == isLoading ~> ~isLoading \/ page = "login" \/ faults > 0

(* Once the new user's merchants are known, nothing of the last user of the *)
(* tab is on display.                                                       *)
NothingLeaks ==
  page = "settings" /\ merchant # None /\ hasty = 0 /\ faults = 0
  /\ merchants # None /\ (\A m \in merchants : Owner[m] = user) =>
    Owner[merchant.id] = user
============================================================================
