------------------------------- MODULE Quotes -------------------------------
(***************************************************************************)
(* What a checkout reads on its way to an order, while administrators edit *)
(* it: the limiter lets it in (rateLimit), it reads the menu and the       *)
(* store's word on it (CatalogRepo.resolve), the rates through the cache   *)
(* of parameters (ParamRepo), and prices and writes the order              *)
(* (ordersvc.Create, and Quote within it).                                 *)
(*                                                                         *)
(* One dish of one store, one process of the API.  A step is a statement   *)
(* or what runs between two.  Stock, slots and the promotion's uses are    *)
(* Ordering's; the customer is SignIn's, the principal Sessions'.          *)
(***************************************************************************)
EXTENDS Pricing, Catalogue, Parameters, RateLimit, Access

CONSTANTS
  Checkouts,     \* customers at a checkout, who may try again when refused
  Address,       \* the address they share
  Requests,      \* administrators' requests, each made once
  AdminRoles,    \* the roles that make them
  Prices,        \* the prices they set
  SysInputs,     \* the key and text of the group rows they write
  StoreInputs,   \* the same, of the store's rows
  FirstSys,      \* the group rows that were seeded
  Options,       \* the dish's option groups
  Selected,      \* the choices every cart makes
  Qty,           \* how many of the dish a cart holds
  Promo,         \* the promotion a cart may name
  Expected,      \* the totals clients send
  ReloadTime,    \* ticks a reload takes at most
  MaxNow         \* the last instant

RateKeys == <<"pricing.tax_bps", "pricing.service_charge_bps", "pricing.tax_inclusive">>

Store == "store"
Category == "category"

ASSUME QuotesAssumption ==
  /\ Keys = {RateKeys[i] : i \in DOMAIN RateKeys}
  /\ SysInputs \subseteq Keys \X Texts /\ StoreInputs \subseteq Keys \X Texts
  /\ FirstSys \in Table /\ Prices \subseteq Nat /\ Address \notin Checkouts
  /\ AdminRoles \subseteq StaffRoles
  /\ Qty \in Nat \ {0} /\ {ReloadTime, MaxNow} \subseteq Nat

VARIABLES
  now,        \* the clock
  item,       \* the dish's row of menu_items, with its category's is_active
  override,   \* its row of store_menu_overrides, or none
  eighties,   \* its rows of item_86s
  sys,        \* table sys_parameters
  stores,     \* table store_parameters, of the store
  cache,      \* ParamRepo's cache
  buckets,    \* the limiter's buckets
  requests,   \* where each administrator's request stands
  checkouts,  \* where each checkout stands
  orders,     \* the order each checkout has made
  allowed,    \* history: how many each bucket has let in by each instant
  held        \* history: when each text was last in force and then replaced

menu == <<item, override, eighties>>
tables == <<sys, stores>>
vars == <<now, menu, tables, cache, buckets, requests, checkouts, orders, allowed, held>>

BucketKeys == Checkouts \cup {Address}

\* Of a checkout: its step; when it began and began to quote; the 86s that stood then;
\* the dish's row and price as read; the rates read, the tables a reload has read and
\* when it began, whether one failed; the totals.
IdleCheckout ==
  [step |-> "IDLE", began |-> 0, quoted |-> 0, standing |-> {}, item |-> <<>>,
   price |-> 0, rates |-> <<>>, group |-> <<>>, rows |-> <<>>, since |-> 0,
   degraded |-> FALSE, totals |-> Refused]

NoOrder == [made |-> FALSE, at |-> 0, standing |-> {}]

Nobody == [k \in BucketKeys |-> [t \in 0 .. MaxNow |-> 0]]

Init ==
  /\ now = 0
  /\ item \in {[basePrice |-> p, isActive |-> TRUE, categoryActive |-> TRUE] : p \in Prices}
  /\ override = {} /\ eighties = {}
  /\ sys = FirstSys /\ stores = [k \in Keys |-> Absent]
  /\ cache = Loaded(sys, stores, now)
  /\ buckets = [k \in BucketKeys |-> NoBucket]
  /\ requests = [q \in Requests |-> [step |-> "IDLE", role |-> NoRole]]
  /\ checkouts = [c \in Checkouts |-> IdleCheckout]
  /\ orders = [c \in Checkouts |-> NoOrder]
  /\ allowed = Nobody
  /\ held = [k \in Keys |-> [t \in Texts |-> -1]]

At(c, step) == checkouts[c].step = step

Step(c, step) == checkouts' = [checkouts EXCEPT ![c].step = step]

\* The customer is answered an error, and may try again.
Refuse(c) == checkouts' = [checkouts EXCEPT ![c] = IdleCheckout]

\* The 86s that have not ended, which resolve selects and Lift86 ends.
Eighties(at) == {e \in eighties : e.ends = Never \/ e.ends > at}

-----------------------------------------------------------------------------
(* The limiter.                                                            *)

CountIn(keys) ==
  allowed' = [k \in BucketKeys |->
    IF k \in keys THEN [t \in 0 .. MaxNow |-> allowed[k][t] + IF t >= now THEN 1 ELSE 0]
    ELSE allowed[k]]

\* rateLimit asks the customer's bucket and then the address's; what the first gave is
\* spent although the second refuses.  Create reads the clock.
Arrive(c) ==
  LET mine == Allows(buckets[c], now)
      ours == Allows(buckets[Address], now)
      asked == IF mine THEN {c, Address} ELSE {c} IN
  /\ At(c, "IDLE")
  /\ buckets' = [k \in BucketKeys |-> IF k \in asked THEN Allow(buckets[k], now) ELSE buckets[k]]
  /\ CountIn({k \in asked : Allows(buckets[k], now)})
  /\ IF mine /\ ours
       THEN checkouts' = [checkouts EXCEPT
              ![c] = [IdleCheckout EXCEPT !.step = "MENU", !.began = now,
                        !.standing = {e.by : e \in Eighties(now)}]]
       ELSE UNCHANGED checkouts
  /\ UNCHANGED <<now, menu, tables, cache, requests, orders, held>>

-----------------------------------------------------------------------------
(* The menu.                                                               *)

\* Quote reads the clock, and resolve the dish and its category ...
ReadMenu(c) ==
  /\ At(c, "MENU")
  /\ checkouts' = [checkouts EXCEPT ![c].step = "STORE", ![c].quoted = now, ![c].item = item]
  /\ UNCHANGED <<now, menu, tables, cache, buckets, requests, orders, allowed, held>>

Query(row, at) ==
  [item |-> row, override |-> override, eightySixes |-> Eighties(at), stock |-> {},
   rules |-> {}, weekday |-> 0, time |-> 0]

\* ... and then the store's override and its 86s.
ReadStore(c) ==
  LET row == checkouts[c].item IN
  /\ At(c, "STORE")
  /\ IF Resolve(Query(row, checkouts[c].quoted), checkouts[c].quoted) # "AVAILABLE"
          \/ ~OptionsValid(Options, Selected)
       THEN Refuse(c)
       ELSE checkouts' = [checkouts EXCEPT ![c].step = "RATES",
                                           ![c].item = <<>>,
                                           ![c].price = EffectivePrice(row, override)]
  /\ UNCHANGED <<now, menu, tables, cache, buckets, requests, orders, allowed, held>>

-----------------------------------------------------------------------------
(* The parameters.                                                         *)

Loading(c) == checkouts[c].step \in {"GROUP", "ROWS"}

\* The text of the next rate, asked for at an instant; it is the last of three or not.
Take(c, text, asked) ==
  checkouts' = [checkouts EXCEPT
    ![c].rates = Append(@, [text |-> text, at |-> asked]), ![c].since = 0,
    ![c].step = IF Len(checkouts[c].rates) + 1 = Len(RateKeys) THEN "PRICE" ELSE "RATES"]

NextKey(c) == RateKeys[Len(checkouts[c].rates) + 1]

\* raw, of a cache that ensure finds fresh.
TakeFresh(c) ==
  /\ At(c, "RATES")
  /\ Fresh(cache, now)
  /\ Take(c, Raw(cache.group, cache.stores, NextKey(c)), now)
  /\ UNCHANGED <<now, menu, tables, cache, buckets, requests, orders, allowed, held>>

\* Reload reads the group's rows ...
SelectGroup(c) ==
  /\ At(c, "RATES")
  /\ ~Fresh(cache, now)
  /\ checkouts' = [checkouts EXCEPT ![c].step = "GROUP", ![c].group = sys, ![c].since = now]
  /\ UNCHANGED <<now, menu, tables, cache, buckets, requests, orders, allowed, held>>

\* ... and the stores' ...
SelectStores(c) ==
  /\ At(c, "GROUP")
  /\ checkouts' = [checkouts EXCEPT ![c].step = "ROWS", ![c].rows = stores]
  /\ UNCHANGED <<now, menu, tables, cache, buckets, requests, orders, allowed, held>>

\* ... and swaps them in as loaded now, whatever was invalidated meanwhile.
Swap(c) ==
  /\ At(c, "ROWS")
  /\ cache' = Loaded(checkouts[c].group, checkouts[c].rows, now)
  /\ checkouts' = [checkouts EXCEPT ![c].step = "LOADED", ![c].group = <<>>, ![c].rows = <<>>]
  /\ UNCHANGED <<now, menu, tables, buckets, requests, orders, allowed, held>>

\* A SELECT fails: the stale cache serves.
FailReload(c) ==
  /\ Loading(c)
  /\ checkouts' = [checkouts EXCEPT ![c].step = "LOADED", ![c].group = <<>>, ![c].rows = <<>>,
                                    ![c].degraded = TRUE]
  /\ UNCHANGED <<now, menu, tables, cache, buckets, requests, orders, allowed, held>>

\* raw, after its reload.
TakeLoaded(c) ==
  /\ At(c, "LOADED")
  /\ Take(c, Raw(cache.group, cache.stores, NextKey(c)), checkouts[c].since)
  /\ UNCHANGED <<now, menu, tables, cache, buckets, requests, orders, allowed, held>>

-----------------------------------------------------------------------------
(* The price and the order.                                                *)

Lines(c) ==
  <<[category |-> Category, unitPrice |-> checkouts[c].price,
     optionsDelta |-> OptionsDelta(Options, Selected), qty |-> Qty,
     kitchenUnits |-> 1 + OptionsUnits(Options, Selected)]>>

Config(c) ==
  [taxBps |-> AsInt(checkouts[c].rates[1].text, RateKeys[1]),
   serviceChargeBps |-> AsInt(checkouts[c].rates[2].text, RateKeys[2]),
   taxInclusive |-> AsBool(checkouts[c].rates[3].text)]

\* The cart names the promotion or not.  A total the client sends must be the one.
Price(c) ==
  /\ At(c, "PRICE")
  /\ \E named \in BOOLEAN :
       LET promo == EvaluatePromotion(Promo, Store, Lines(c), checkouts[c].quoted)
           totals == Compute(Lines(c), IF named THEN promo.discount ELSE 0, 0, Config(c)) IN
       IF (named /\ promo.reason # "OK") \/ ~totals.ok
         THEN Refuse(c)
         ELSE \/ checkouts' = [checkouts EXCEPT ![c] =
                   [IdleCheckout EXCEPT !.step = "RESOLVE", !.began = checkouts[c].began,
                      !.standing = checkouts[c].standing, !.totals = totals]]
              \/ /\ \E t \in Expected : t # totals.total
                 /\ Refuse(c)
  /\ UNCHANGED <<now, menu, tables, cache, buckets, requests, orders, allowed, held>>

\* Create resolves the dish again, as of when it began: a blocked one is not bookable.
ResolveAgain(c) ==
  /\ At(c, "RESOLVE")
  /\ IF Resolve(Query(item, checkouts[c].began), checkouts[c].began) = "AVAILABLE"
       THEN Step(c, "COMMIT") ELSE Refuse(c)
  /\ UNCHANGED <<now, menu, tables, cache, buckets, requests, orders, allowed, held>>

\* OrderRepo.Create writes the order, if the table accepts its totals.
Commit(c) ==
  /\ At(c, "COMMIT")
  /\ IF RowAccepted(checkouts[c].totals)
       THEN /\ orders' = [orders EXCEPT ![c] =
                 [made |-> TRUE, at |-> now, standing |-> checkouts[c].standing]]
            /\ checkouts' = [checkouts EXCEPT ![c] = [IdleCheckout EXCEPT !.step = "DONE"]]
       ELSE /\ Refuse(c)
            /\ UNCHANGED orders
  /\ UNCHANGED <<now, menu, tables, cache, buckets, requests, allowed, held>>

Checkout(c) ==
  \/ Arrive(c) \/ ReadMenu(c) \/ ReadStore(c)
  \/ TakeFresh(c) \/ SelectGroup(c) \/ SelectStores(c) \/ Swap(c) \/ FailReload(c)
  \/ TakeLoaded(c)
  \/ Price(c) \/ ResolveAgain(c) \/ Commit(c)

-----------------------------------------------------------------------------
(* Administrators.                                                         *)

Free(q) == requests[q].step = "IDLE"

Done(q, role) == requests' = [requests EXCEPT ![q] = [step |-> "DONE", role |-> role]]

May(role, permission) == role \in AdminRoles /\ Can(role, permission)

\* Service.SaveItem of a dish that exists, which saves the whole row.
SaveItem(q) ==
  /\ Free(q)
  /\ \E role \in AdminRoles, p \in Prices, active \in BOOLEAN :
       /\ May(role, "menu.manage")
       /\ item' = [item EXCEPT !.basePrice = p, !.isActive = active]
       /\ Done(q, role)
  /\ UNCHANGED <<now, override, eighties, tables, cache, buckets, checkouts, orders, allowed,
                 held>>

\* Service.SaveCategory.
SaveCategory(q) ==
  /\ Free(q)
  /\ \E role \in AdminRoles, active \in BOOLEAN :
       /\ May(role, "menu.manage")
       /\ item' = [item EXCEPT !.categoryActive = active]
       /\ Done(q, role)
  /\ UNCHANGED <<now, override, eighties, tables, cache, buckets, checkouts, orders, allowed,
                 held>>

\* Service.SetStoreOverride: a price needs a permission of its own; no price writes
\* NULL over the one that was set.  Of is_available, NULL and true are one.
SetStoreOverride(q) ==
  /\ Free(q)
  /\ \E role \in AdminRoles, available \in BOOLEAN, p \in Prices \cup {NoPrice} :
       /\ May(role, "menu.availability.manage")
       /\ p # NoPrice => May(role, "menu.price.override")
       /\ override' = {[available |-> available, price |-> p]}
       /\ Done(q, role)
  /\ UNCHANGED <<now, item, eighties, tables, cache, buckets, checkouts, orders, allowed, held>>

\* Service.Add86, until an instant or until it is lifted.
Add86(q) ==
  /\ Free(q)
  /\ \E role \in AdminRoles, until \in {Never, now + 1} :
       /\ May(role, "menu.86")
       /\ eighties' = eighties \cup {[by |-> q, starts |-> now, ends |-> until]}
       /\ Done(q, role)
  /\ UNCHANGED <<now, item, override, tables, cache, buckets, checkouts, orders, allowed, held>>

\* Service.Lift86 ends all that have not ended.
Lift86(q) ==
  /\ Free(q)
  /\ \E role \in AdminRoles : May(role, "menu.86") /\ Done(q, role)
  /\ eighties' = {IF e \in Eighties(now) THEN [e EXCEPT !.ends = now] ELSE e : e \in eighties}
  /\ UNCHANGED <<now, item, override, tables, cache, buckets, checkouts, orders, allowed, held>>

\* The texts in force are out of force from now on, where these tables replace them.
Replace(group, rows) ==
  /\ sys' = group /\ stores' = rows
  /\ held' = [k \in Keys |->
       IF Raw(group, rows, k) = Raw(sys, stores, k) THEN held[k]
       ELSE [held[k] EXCEPT ![Raw(sys, stores, k)] = now]]

Written(q, role) ==
  requests' = [requests EXCEPT ![q] = [step |-> "INVALIDATE", role |-> role]]

\* Service.SetParameter: the row is written ...
SetParameter(q) ==
  /\ Free(q)
  /\ \E role \in AdminRoles, w \in SysInputs :
       /\ May(role, "parameters.manage")
       /\ Replace([sys EXCEPT ![w[1]] = w[2]], stores)
       /\ Written(q, role)
  /\ UNCHANGED <<now, menu, cache, buckets, checkouts, orders, allowed>>

\* Service.SetStoreParameter.
SetStoreParameter(q) ==
  /\ Free(q)
  /\ \E role \in AdminRoles, w \in StoreInputs :
       /\ May(role, "store.capacity.manage")
       /\ Replace(sys, [stores EXCEPT ![w[1]] = w[2]])
       /\ Written(q, role)
  /\ UNCHANGED <<now, menu, cache, buckets, checkouts, orders, allowed>>

\* Service.DeleteParameter.
DeleteParameter(q) ==
  /\ Free(q)
  /\ \E role \in AdminRoles, k \in {w[1] : w \in SysInputs} :
       /\ May(role, "parameters.manage")
       /\ Replace([sys EXCEPT ![k] = Absent], stores)
       /\ Written(q, role)
  /\ UNCHANGED <<now, menu, cache, buckets, checkouts, orders, allowed>>

\* ... and the cache invalidated.
Invalidate(q) ==
  /\ requests[q].step = "INVALIDATE"
  /\ cache' = Invalidated(cache)
  /\ Done(q, requests[q].role)
  /\ UNCHANGED <<now, menu, tables, buckets, checkouts, orders, allowed, held>>

Administer(q) ==
  \/ SaveItem(q) \/ SaveCategory(q) \/ SetStoreOverride(q) \/ Add86(q) \/ Lift86(q)
  \/ SetParameter(q) \/ SetStoreParameter(q) \/ DeleteParameter(q) \/ Invalidate(q)

-----------------------------------------------------------------------------
\* The process ends and another starts, which loads the parameters first: cache and
\* buckets are memory.
Restart ==
  /\ cache' = Loaded(sys, stores, now)
  /\ buckets' = [k \in BucketKeys |-> NoBucket]
  /\ allowed' = Nobody
  /\ checkouts' = [c \in Checkouts |-> IF At(c, "DONE") THEN checkouts[c] ELSE IdleCheckout]
  /\ requests' = [q \in Requests |-> IF Free(q) THEN requests[q]
                                     ELSE [requests[q] EXCEPT !.step = "DONE"]]
  /\ UNCHANGED <<now, menu, tables, orders, held>>

\* No reload outlasts ReloadTime.
Tick ==
  /\ now < MaxNow
  /\ \A c \in Checkouts : Loading(c) => now < checkouts[c].since + ReloadTime
  /\ now' = now + 1
  /\ UNCHANGED <<menu, tables, cache, buckets, requests, checkouts, orders, allowed, held>>

Next ==
  \/ \E c \in Checkouts : Checkout(c)
  \/ \E q \in Requests : Administer(q)
  \/ Restart
  \/ Tick

Spec == Init /\ [][Next]_vars

-----------------------------------------------------------------------------
\* A dish that was out of stock when the checkout began is not ordered unless the 86
\* was lifted or ran out meanwhile (Resolve, read twice by Create).
NoDishAfter86 ==
  \A c \in Checkouts : \A e \in eighties :
    orders[c].made /\ e.by \in orders[c].standing => e.ends # Never /\ e.ends <= orders[c].at

\* A rate that prices an order was in force within the cache's life and the time of a
\* reload before it was asked for, unless that reload failed: an invalidation lost between a
\* reload's SELECTs and its swap, or a reload overtaken by an older one, costs no more
\* (params.go:68-69, "the short TTL bounds how stale a value can be").
RatesWereInForce ==
  \A c \in Checkouts : \A i \in DOMAIN checkouts[c].rates :
    LET rate == checkouts[c].rates[i] IN
    \/ checkouts[c].degraded
    \/ Raw(sys, stores, RateKeys[i]) = rate.text
    \/ held[RateKeys[i]][rate.text] > rate.at - TTL - ReloadTime

\* The calls that a bucket let in over the instants from a to b.
LetIn(k, a, b) == allowed[k][b] - IF a = 0 THEN 0 ELSE allowed[k][a - 1]

\* While the process lives no bucket lets in more than a burst and what refills
\* meanwhile, however the calls are spread (Allow; its lock makes each call one step).
BurstBounded ==
  Unlimited \/
  \A k \in BucketKeys, a, b \in 0 .. MaxNow :
    a <= b => (LetIn(k, a, b) - Burst) * Window <= (b - a) * Burst

\* Whatever Compute prices, the table of orders stores: the admin guide offers
\* pricing.tax_inclusive (docs/16:228), and BR-2.5.7 derives the tax line then.
PricedIsStorable ==
  \A c \in Checkouts : checkouts[c].totals.ok => RowAccepted(checkouts[c].totals)

\* The store's price of a dish changes by the hand of one who may set prices only
\* (adminsvc.go:439-440, "a store manager may only change availability").
PricesByAuthority ==
  [][\A q \in Requests :
       {o.price : o \in override'} # {o.price : o \in override} /\ requests'[q] # requests[q]
         => \/ {o.price : o \in override} = {} /\ {o.price : o \in override'} = {NoPrice}
            \/ Can(requests'[q].role, "menu.price.override")]_vars
=============================================================================
