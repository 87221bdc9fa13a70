# Verification of the food delivery service

TLA+ models of the service in `src/`, checked with TLC and proved with TLAPS.
Paths such as `orders.service.ts` are relative to `src/src/modules/*/` unless
they say otherwise.

## The system

An Express API over PostgreSQL through Prisma, one Node process (several may
run).  Everything durable is in the database; the process keeps only a cache of
users.  Handlers are `async`, so any two requests interleave at every `await`.
Two functions run inside a database transaction (`createOrder` and
`updateOrderStatus`), and two end in a batch that is one (`refreshTokens`,
`deleteUser`), at PostgreSQL's default isolation, READ COMMITTED.  All other handlers are sequences of statements that each commit on
their own.

| Component | Source | State | Operations | Module |
| --- | --- | --- | --- | --- |
| Order status changes | `orders.service.ts` 18-43, 229-326 | `orders.status`, `order_status_history` | place, change status | `OrderStatus` |
| Coupon redemption | `orders.service.ts` 99-221, `coupons.service.ts` | `coupons`, `coupon_usages`, `orders.couponId` | check out, create, update, expire, delete | `CouponRedemption`, `CouponLedger` |
| Pricing | `orders.service.ts` 80-163, `prisma/schema.prisma` 143-146 | `meals.price`, the amounts of `orders` | place an order, change a price | `Pricing` |
| Sessions | `auth.service.ts`, `users.service.ts` | `refresh_tokens`, `users` | register, login, refresh, logout, block, delete | `Sessions` |
| User cache | `middleware/authenticate.ts`, `utils/cache.ts` | the process's cache of users | authenticate, invalidate, expire | `UserCache` |
| Catalogue | `restaurants.service.ts`, `meals.service.ts` | `restaurants`, `meals`, `order_items` | create, block, edit, delete, order | `Catalogue` |
| Listing and reading | the list and get functions, `types/index.ts`, `utils/fieldSelection.ts` | none of its own | page, count, select fields, read one | `Browsing` |
| Accounts | `auth.service.ts`, `users.service.ts`, `prisma/seed.ts` | `users` | seed, register, log in, create, update, block, delete, read | `Accounts` |
| Checkout | `createOrder`, with all that meets it | the catalogue's and the coupons' tables | check out, edit, delete | `Checkout` |
| Process | `server.ts`, `config/index.ts` | the listening socket, its connections, timers | start, serve, shut down | `Server` |
| Request plumbing | `middleware/`, `app.ts`, `utils/errors.ts` | none | validate, authorize, answer errors | in part, by the others |

How they interact: there are no messages or queues.  `createOrder` is where the
catalogue, coupons, pricing and the order table meet, in one transaction.
`users.service.ts` writes what sessions and the cache read, and tells the cache
by calling `cacheService.del`.  Everything else meets in the database, through
foreign keys and row locks.

What is hard: a row is read without a lock, checked, and written later, inside
one transaction (status changes, coupon limits) or across statements that
commit on their own (deletion of restaurants and meals, blocking, uniqueness
checks); cached users outlive their rows; money is rounded column by column;
pages are offsets into rows that move.  `PROJECT.json` lists these hazards line
by line with the properties that watch them, and those that nothing watches
yet, with the reason.

What makes each component correct:

- **Order status**: the log and the row agree; nobody makes a move the table
  does not give them; no stage of a delivery is skipped; a settled order stays
  settled; every request ends.
- **Coupons**: the counter counts the usages; usages and orders agree; the
  limits hold, or are overshot by no more than the requests that overlap.
- **Pricing**: the stored total is what the stored parts say, to the cent the
  rounding costs; a coupon never takes more than the meals, nor any of the tip.
- **Sessions**: no token without its user; a token rotates a bounded number of
  times; a blocked user gets no token but one for each request that was in
  flight; an ended session needs a password.
- **Cache**: while entries end, a request is let in only as what its user
  recently was, and a blocked user is shut out in the end.
- **Catalogue**: no row dangles; a blocked restaurant and a meal off the menu
  are sold only by the orders that were in flight, each of them once.
- **Accounts**: however calls overlap, an email is won once and no two accounts
  hold it, an administrator remains, and what a client is told was true at some moment of its call.
- **Checkout**: `createOrder` is, to the catalogue and to the coupons, the one
  step each of them takes it for; a coupon stays with its restaurant.
- **Process**: a shutdown ends, and ends well only when nobody was left waiting.
- **Listing**: a client that pages to the end is shown all that was there; lists
  and single reads agree on what a role may see, but for named cases.

## How the modules correspond to the code

A handler is a set of actions, one for each statement at which another request
can get in between, with a `stage` and what it read kept in `tx` or `req`.
Where a statement waits for a row lock, the action's guard is the lock.
Statements that no other request can tell apart are one action.  A request that
fails a check throws and changes nothing, so it is a step that is not taken, or
an abort if it had started.

At READ COMMITTED a plain `SELECT` sees what is committed and takes no lock;
an `UPDATE` holds its row to the end of the transaction and, after a wait,
works on the row it then finds; an insert with a foreign key holds the row it
names against deletion.  `currentUsageTotal: { increment: 1 }` is such an
update, so it waits and then adds to the committed value.  These rules are the
database's and not the repository's; they are marked external in the map, or
stand in the guards.  The schema's foreign keys are modelled with the
`onDelete` that it states, and with Prisma's default where it states none.

`OrderTransitions` is the table of `orders.service.ts` 25-43 as constants.
`OrderLifecycle` is the abstract specification: an order appears as PLACED and
moves along the table.  `OrderStatus` is `updateOrderStatus`: `Validate` is
everything up to the update, `Write` takes the row lock, `Commit` makes both
writes visible, `Abort` is the transaction's timeout, a lost connection or a
crash.  `createOrder` is seen at its commit, because nobody else knows the id
before that.  What a request read (`seen`) and who made a change (`by`, which
keeps the role) are kept for the properties.

`CouponRedemption` is the coupon half of `createOrder`: read and check the
coupon, count the customer's usages, insert, increment, commit.  `usable`
stands for `isActive` and not past `expiresAt`.  Orders without a coupon touch
none of this and are left out.  What `coupons.service.ts` does is `CreateCoupon`,
`UpdateCoupon` and `DeleteCoupons`; the last takes one coupon, or with a
restaurant all of its coupons.  `ceiling` is a ghost: the highest limits a coupon carried,
since an owner may lower a limit under the usages there are.  The checks of the
catalogue that `createOrder` makes first appear here only as `Abort`; `Checkout`
has them.

`CouponLedger` is the abstract specification, what a customer and an owner see:
an order redeems a coupon in one step, while the coupon is live and has room; a
coupon is issued, its ceiling is raised, it is withdrawn and forgotten by every
order.  There is no counter and there are no usage rows; how often a coupon was
redeemed is counted by its orders.  `Overlap` is how many checkouts may run at
once: with 1 the room is what the limits say.  `CouponRedemption` implements it
with `State` for its coupons and the number of handlers for `Overlap`.

`Pricing` computes in units of 1/10000 of a cent, so that a percentage of
hundredths of a percent on whole cents is exact, as `Decimal` is; `StoredRow`
rounds each amount as its `DECIMAL(10,2)` column does.  A request whose amounts
do not fit fails.  A meal is in an order once: the schema refuses duplicates
(`orders.schema.ts` 13-18).

`Sessions` follows `auth.service.ts` statement by statement.  A login reads the
user, compares the password and inserts the token in statements of their own.
A rotation is one batch, after the read of the token.  `blockUser` is two
statements, with `Fail` possible in between.  `parent` is a ghost.

`UserCache` is what `authenticate` decides from.  A hit changes nothing and is
no action; a miss reads and then fills; a change commits and then invalidates.
Time is in ticks: an entry lives for `TTL`, a lookup is answered within
`Delay`.  A `TTL` of 0 is allowed, as `config/index.ts` allows it, and is what
it is to node-cache: entries do not run out (`Lifetimes`, `Older`).  The ticks
are the library's and external.  `since` is a ghost.  Roles and blocks are members of `Accounts`.

`Catalogue` has both deletions, each a count and then a delete, against
`createOrder`, which reads the restaurant, then the meals, then inserts.
`PlaceOrder` is one action because its foreign keys hold the rows from the
insert to the commit.  `Owner` is a constant because nothing changes an
`ownerId`.  `Unordered` is what the foreign keys of `orders` and `order_items`
ask for.  Who may call what is left out: nothing here depends on it.

`Browsing` has one client and one collection, of one of the five kinds.  The
read of a page and the count beside it are two statements in either order.
Rows are in the order of `createdAt` or `updatedAt`, whose values are taken to
differ; an edit moves a row to the end of the latter.  A page is a set of ids:
a row's `Place` is how many of the rows that match come no later in the order
asked for, and OFFSET and LIMIT are a range of places.  Ids are not used again.  Every role may be the
viewer.  `Readable` is the check the get functions make, which for restaurants
depends on the fields that were selected; `OnlyById` names the rows that it
shows and the lists do not.  `owed` and `excused` are ghosts.

`Accounts` has a table of users and calls that overlap on it.  A call is one run
of a service function or of the seed, and takes a step for every statement: the
lookup of an email and the insert after it, the read of a user, the check of a
new email and the update after that.  Hashing is why the steps are far apart.
The row that a call inserts is named after the call.  A row is `Fresh`, `Gone`
or a record; the UNIQUE column is the guard of `InsertUser` and `UpdateUser`.
Answers are those of `utils/errors.ts` and of `errorHandler`: `updateUser`
answers 422 when the built-in administrator would lose its role, the block and
the deletion of that account 403.  What each tells the client is `Says`, which
is part of a property and not of the code.  `truths` is a
ghost, the facts about a call's input that held at some moment between its
start and its answer; `left` is another, the rows that gave up their email.

`Checkout` is the whole of `createOrder`, with the restaurant, the meals, the
coupon, the inserts and the increment as steps of one transaction, against
owners and administrators who do what they do in `Catalogue` and
`CouponRedemption`.  Those two modules are instantiated three times.  `Desk` is
`Catalogue` for the requests of managers alone and gives their actions.  `Cat`
is `Catalogue` for managers and checkouts: it sees a checkout as `priced` from
the read of the meals to the commit, which is its `PlaceOrder`.  `Cou` is
`CouponRedemption`: it sees a checkout from the read of its coupon, and sees
none that redeems nothing.  `CatalogueStage`, `CatalogueRequest`, `CouponStage`
and `CouponTx` are these refinement mappings.  What neither module has is the
coupon's restaurant (`shop`), the cascade from a restaurant to its coupons, and
that uncommitted rows hold restaurants and meals against deletion
(`InsertingAt`, `InsertingWith`).

`Server` is the life of one process.  A connection is idle or has a request;
a signal closes the server and arms a timer.  What `server.close` does is
Node's and stated at the head of the module: it ends idle connections, waits
for the others, and calls back once they have ended, with an error when it was
called before.  The timer of each signal has `Deadline` ticks.

`Pricing`, `Browsing` and `Server` put their name before `Init`, `Next`, `Spec`,
`TypeOK` and `vars`, so that one module of proofs can extend all three.

Definitions named `X_Something` under the word "Mutant" are not part of the
model: each is `X` with a mistake in it, and shows that a property notices.

## Runs

| Run | Instance | Distinct states | Result |
| --- | --- | --- | --- |
| `order_race` | 1 order, 2 requests, both parties, two outsiders, an administrator | 16,439 | holds |
| `order_reopen` | 1 order, 2 requests | | `TerminalIsFinal` violated |
| `coupon_race` | 1 coupon, 2 customers, 4 orders, 3 requests, limits 1, 2 and none | 174,137 | holds; implements `CouponLedger` |
| `coupon_total_limit` | 2 orders, 2 requests, limit 1 or none | | `TotalLimitHolds` violated |
| `pricing` | 2 meals, prices, percentages and tips at the rounding boundaries | 7,695 | holds |
| `session_race` | 1 user, 5 tokens, 2 requests | 12,250 | holds |
| `user_cache` | 1 user, 3 accounts, 2 requests, TTL 2, Delay 1 | 33,312 | holds |
| `catalogue` | 2 restaurants, 2 meals, 2 orders, 2 requests | 126,163 | holds |
| `browsing` | 3 rows, limit given or not, pages of 1 and 2 | 879,106 | holds |
| `accounts` | 4 calls, 2 emails (one the administrator's), 2 passwords, 41 requests | 84,702 | holds |
| `checkout` | 2 restaurants, 1 meal, 1 coupon with a limit of 1 or none, 2 orders, 2 checkouts, 1 manager | 232,547 | implements `Catalogue` and `CouponRedemption` |
| `server` | 3 connections, 3 signals, 3 ticks | 4,130 | holds |

Why these are enough: each race is between two requests on one row, so two
requests and one row show it.  `coupon_race` has three requests because its
bound is stated in their number, and four orders so that a limit of two can be
overshot by all three.  `MaxHistory` bounds the entries of an order's
history, written or in flight: five lead from placed to received, and six leave
room for a race after the end.  `session_race` has five tokens: a login, a
rotation, and the two rotations that overlap it.  The TTL of two ticks is the
smallest in which an entry ages without expiring; more requests and ticks
repeat what is there, and the proofs cover every value.  A TTL of 0 is not run:
nothing bounds its staleness, and what holds of it is the types, by proof.  `accounts` has four
calls: the seed and three that meet on what it made, or two that make an account
and two that change it.  `checkout` has two requests at a time (`AtOnce`), of
two checkouts and a manager: two checkouts race for the coupon, or one meets a
manager's two-statement deletion.  The single statements of owners and of
administrators (blocking, editing, creating, the cascade from an owner) run
besides; two restaurants let a coupon be of the wrong one.  In `server`
`MaxSignals` bounds the signals: the first, one that registers a callback with
an error, and one more; three ticks of `Deadline` let the timers of
all three be set at different times.  `MaxAmount` is 5,000
cents in place of the column's ten digits, so that overflow happens.
`Browsing` pages over three rows with pages of one and of two: a full last
page, a part one and an empty one.  Where ids are interchangeable the run uses
symmetry; the three runs with a liveness property do not.

`CHECK_DEADLOCK FALSE` stands where a run may end: all ids are used up and
nobody has anything left to ask, or, in `server`, the process has exited.

Two runs end in a violation, each of a sentence in the documentation.
`PROJECT.json` quotes the sentences under "findings".

- `order_reopen`: a change validated before a cancellation committed overwrites
  it.  `OnlyARaceReopens` and `NoStageIsSkipped` are what remains true.
- `coupon_total_limit`: two checkouts pass the limit together.  The same goes
  for the limit per customer.  `OvershootBounded` is what remains true of both.

Other things worth knowing, seen while modelling:

- Two refreshes of one token that overlap both succeed, since the token is
  revoked by id without a condition (`auth.service.ts` 175).  `RotationsBounded`
  is what remains true, and `SerialSingleUse` what holds without overlap.
- A restaurant that has had an order cannot be deleted: `deleteRestaurant`
  counts active orders only, the foreign key of `orders` refuses for any
  (`Refuse`), and the client is answered 400.  `docs/key-decisions.md` 269 says
  that the order records remain.
- After the built-in administrator's email was changed, the seed makes a second
  built-in administrator; when another account holds the email it makes none.
- A second signal makes the exit code 1, even when every request is answered in
  time: its close callback has an error and exits before the database is
  disconnected.
- The stored total may be a cent off the sum of the stored parts.
- A login that overlaps a block inserts a live token after the revocation.  It
  cannot be used while the block lasts, and can be afterwards.
  `BlockedStaysOut` is what remains true: one token for each login or refresh
  that was in flight, and no more.
- An order that overlaps a block of its restaurant, or that has read a meal
  which is then taken off the menu, is placed all the same.
  `BlockedTakesNoOrders` and `UnavailableIsNotSold` are what remains true.
- With `USER_CACHE_TTL_SECONDS` 0, or a fraction that `parseInt` makes 0,
  entries do not expire (`config/index.ts` 36, `cache.ts` 5): a fill that
  overlaps an invalidation stays until the user is next changed or the process
  restarts.
- A lookup that overlaps an invalidation fills the cache with what it read
  before, for a whole TTL, although `docs/key-decisions.md` 215 says that the
  next request reads again.  Staleness is bounded by the TTL and one lookup.
- A customer who selects fields without `isBlocked` is given a blocked
  restaurant by its id (`restaurants.service.ts` 107); the list hides it.  An
  owner reads the blocked restaurants of others, and anybody a meal that is off
  the menu.  `ListAndReadAgree` is that these are all, by `OnlyById`.
- After a deletion or an edit a list has fewer rows before its offset, so a
  client that pages misses some.  `excused` is set by such a change, and
  `NothingMissed` then says nothing.

## Fairness

Safety properties need none.  `RequestsTerminate` assumes that a transaction in
flight takes a step in the end; Prisma ends an interactive transaction by a
timeout (five seconds, its default), which is `Abort`, so the wait for a lock is bounded whatever
the holder does.  `BlockedIsShutOut` assumes that time passes and that a query
is answered or fails.  `ShutdownEnds` assumes that time passes and that a timer
that is due runs, as Node's event loop has it while the process lives; of
handlers, clients and the database it assumes nothing.  Nothing assumes that a client tries again, that an
administrator acts, or that a request succeeds.

## Proofs

Each `X_proofs` module proves the theorems of `X`, and `Standalone_proofs` those
of the three modules that no other uses, for every value of the constants,
from the named assumptions: that markers such as `NoTx` are not values,
that handlers are finite where they are counted, that the limits of coupons and
pages are positive.  The only ones about size are that handlers, and the meals of a menu, are finite.  The argument is the same
everywhere: an inductive `IInv`, shown to hold initially (`InitIInv`) and to be
kept by each action (a lemma for each, or for each group that disturbs the same
conjuncts), then the theorems as consequences.

- `OrderStatus_proofs`: `IInv` adds `PendingWasLegal`, what a request in flight
  read was once the order's status and entitled its caller to the change, and
  `PlacedFirst`.  Without the first, a commit could log anything.  From it: the
  log mirrors the status, changes were legal, stages come in order, and only a
  race reopens.  `SerialRefinement`: with one request at a time `OrderStatus`
  implements `OrderLifecycle`, since what was read is then still the status.
- `CouponRedemption_proofs`: `IInv` adds the ledger seen from both sides, what
  a checkout in flight relies on, and `CounterLock`, that one checkout at a
  time holds the counter and nobody moves it meanwhile.  The overshoot bounds
  are inductive because they count the checkouts that have passed the check.
  `SerialLimits`: with one checkout at a time both limits hold.
  `RefinesLedger`: the commit of a checkout is the ledger's `Redeem`, all else
  it does is invisible.  That needs the whole invariant: the coupon is still
  live, since the inserted rows hold it; the order id is still free; and there
  is room, since the checkout itself is one of those the overshoot bounds count
  (`BookCounts` turns usages into orders, one for one).
- `Sessions_proofs`: `IInv` adds that unissued tokens are nobody's and that a
  rotated token is dead.  The bound on rotations counts those done and those in
  flight.  `SerialSingleUse`: with one request at a time a token is used once.
  `BlockedStaysOut` goes action by action: no request begins for a blocked user,
  and the step that inserts a token ends its request.
- `UserCache_proofs`: `IInv` bounds the age of what a lookup read by its wait,
  and the age of an entry by the time it has been there and one `Delay`, both
  for a `TTL` above 0.  The types are proved for 0 as well.
- `Catalogue_proofs`: `IInv` adds that a meal has its restaurant from when it
  exists, and that the meals a request has read are its restaurant's.  What a
  blocked restaurant still sells follows from `PlacingEnds`: an order is placed
  by the step that ends its request.
- `Accounts_proofs`: `IInv` adds `EmailsUnique`, `KeptEmails` (a row that has
  not given up its email still has the one it was inserted with), `SeedsStand`
  (what the seed made is there, an administrator and not blocked), and for each
  call what it has established at its stage: a change that found its user is
  allowed to do to it what it will do.  `AdminRemains` needs the last: the
  refusal is older than the write, but who is built-in never changes.
  `OneWinner` is `EmailsUnique` and `KeptEmails` together.
  `AnswersWereTrue` needs that a session follows a moment at which the password
  was the account's.
- `Checkout_proofs`: `IInv` adds that a checkout's order id is free and nobody
  else's (`Claims`), that orders which redeemed are orders (`Redeemed`), that
  the meals a checkout has read are its restaurant's (`Menus`), that inserted
  rows hold what they name (`Held`), and that a checkout's coupon is of its
  restaurant (`Homes`).  `RefinesCatalogue` and `RefinesCoupons`: every step is
  a step of `Catalogue`, and of `CouponRedemption`, or a stutter, by a lemma
  for each action or group of actions.  `CatTheorems` and
  `CouTheorems` instantiate the proofs of those two modules under the same
  mappings, so that what is proved there holds of the whole transaction, from
  its own assumptions: the catalogue stays whole, nothing blocked is sold, the
  coupons' rows agree, the limits hold as far as they do, and the ledger is
  implemented (`CatalogueStaysWhole` to `KeepsTheLedger`).
  `RedeemedOrdersAreWhole` takes all three modules: an order that redeemed a
  coupon, the coupon, its restaurant and the meals are there and belong together.
- `Standalone_proofs`, `Pricing`: a sum over a basket is a natural number for
  every finite basket (`SumsAgree`, `SumsExist`).  That is an induction over
  data, for which the provers cannot use the library's induction theorems; it is
  done by a smallest counterexample, since strict inclusion is well-founded on
  finite sets.  Rounding moves an amount by half a cent at most, so a total of
  one rounding and its parts of three differ by less than two cents, and the tip
  and the discount keep their order.
- `Standalone_proofs`, `Server`: `ServerIInv` adds that nothing
  has happened before the process runs, that the server listens until the first
  signal and only then, that the database goes last, and that no timer is ahead
  of the first one.
  `GracefulShutdown` needs the last two: an exit of code 0 comes from the
  callback of the first signal, which ran when every connection had ended.
- `Standalone_proofs`, `Browsing`: `BrowsingIInv` adds that a row which is owed
  still matches (`OwedIsListed`) and, when it was not shown, stands behind the
  pages that were read (`Ahead`), and that nothing that is owed stands behind a
  page the client may take for the last (`LastPage`), be its total counted
  before it or after it.  The work is in the table's changes: each keeps
  the place of every row that is owed, or moves the row back, and what it moves
  forward it excuses (`Removed`, `Shifted`, `EditFacts`).  `PageFits` is that no
  page is longer than its limit.

Only model-checked: the liveness properties `RequestsTerminate`,
`BlockedIsShutOut` and `ShutdownEnds`, whose fairness is stated with ENABLED.
Every invariant and every action property of a passing run is a theorem.  That
`OrderStatus` with one request at a time implements `OrderLifecycle` is shown by
proof alone.

## Not modelled

- The rate limiter is a library's and keeps its own counters.
- Routing, messages and the API description hold no state; what validation
  lets through is the range of the modules' inputs.
- Passwords and the signatures of tokens: a check fails or it does not.
- Searches, the status filter, other sort fields: data.
- A coupon's code and its uniqueness, which is the race of `Accounts` over
  emails again; names and descriptions.
- The timestamps of the history: `OrderStatus` has its entries in the order of
  commits.
- Ties in the sort field of a list.
- The developer portal, the Postman collection and the scripts describe the
  service and are no part of it.

## Plan

1. Done: order status, coupons, pricing, sessions, cache, catalogue, accounts
   and the checkout, with their proofs; browsing and the process.
2. `Access`, which composes `Sessions`, `UserCache` and `Accounts`: a block
   shuts a user out from end to end, by cache, by refresh and by login, within
   the lifetime of an entry; an abstract specification of who is let in, and
   the composition held against it.
3. Proofs: the same for `Access`, and an account of sessions from outside that
   `Sessions` implements.
