# Formal model of b2b-orders

TLA+ modules that model the ordering system in `src/`, TLC configurations that
check them on small instances, and TLAPS proofs of the facts that matter most.
Paths below are relative to the repository; `lib/` is `src/lib/`.

## 1. The system

A seller company (a *tenant*) has customers, a catalog and price lists. Buyers,
who are members of a customer, submit orders; sellers and their drivers confirm
them and move them to delivery. Everything runs as server actions of one
Next.js application on one PostgreSQL database, apart from a few scripts that an
operator runs. Processes share nothing else, so all concurrency is that of
database transactions, and of one browser's tabs.

Every domain service runs its statements in interactive transactions opened by
`withTenantContext` or `withCustomerContext` (`lib/db/with-tenant.ts`). No caller
sets an isolation level, so each is READ COMMITTED: every statement sees what was
committed when it began, a row that was written stays locked until the commit,
and an UPDATE that waited for a lock is applied to the new version of the row. A
transaction ends by a commit, by an exception, by Prisma's timeout, or by the loss
of its process. Many operations take *two or more* transactions in a row and
carry what they read from one to the next; a request's identity is read outside of
any transaction.

### Components

| Component | Source | State it keeps | Operations | What makes it correct |
|---|---|---|---|---|
| Order lifecycle | `lib/domain/orders/order-fulfillment-service.ts`, `driver-assignment-service.ts`, `order-status-machine.ts`, `requestOrderCancellation` | status, driver, line quantities, audit entries | confirm, advance, cancel, assign | statuses move along the machine; the audit log tells the row; quantities are those of one confirmation |
| Order submission | `submitOrder`, `cart-resolution.ts` | orders, their numbers and snapshots | resolve lines, take a number, insert, retry on a conflict | numbers are 1..n; nobody gives up without being overtaken; an order has its cart's lines and an address of its customer, at prices that were real |
| Order events | `order-events.ts` | listeners | publish | only committed changes are announced |
| Cart | `lib/cart/`, the cart, checkout and new-order pages | the browser's local storage, a copy per tab, what the page shows | add, set, remove, look up, submit, clear | the cart is what was put in and not ordered; the page shows the cart |
| Trading relationships | `lib/domain/trading-relationships/` | one relationship per user and tenant, customer memberships | invite, accept, decline, request, seller accept or decline, revoke | an active relationship has an active membership of its customer, and the reverse |
| Sessions | `lib/auth/`, the pages' guards | a cookie each for the user and the chosen seller | sign in and out, choose a seller, resolve a request's membership | no request acts under a membership that was off; the chosen seller is kept; redirects end |
| Bootstrap | `lib/bootstrap/`, `prisma/*.ts` | the first tenant, accounts and relationships | five scripts, restartable | at most one first tenant; a script that says done has done it |
| Catalog, pricing, customers | `lib/domain/catalog/`, `pricing/`, `customers/` | categories, measures, products, units, price lists, prices, customers, assignments, overrides | create, update, switch, delete a price; resolve a price | references stay in the tenant; the audit log replays; nothing withheld is offered |
| Addresses | `customer-address-service.ts` | the addresses of a customer, the default | create, update, deactivate | at most one default |
| CSV import | `lib/domain/import/` | none of its own | preview, confirm, for eight kinds of file | applied whole or not at all; absent columns keep their values; a second import changes nothing |
| Tenant isolation | `lib/db/`, `prisma/rls/policies.sql` | the request's tenant and customer | scope every query | no row of another tenant, or of another customer, is read or written |
| Audit log | `audit-log.ts` | entries | append, in the transaction of the change | an entry for every change, and none for others |
| Totals and cut-off | `order-totals.ts`, `cutoff.ts` | none | arithmetic on one order | |
| Dashboard, exports, audit queries, diagnostics, admin lists | `lib/domain/dashboard/`, `export/`, `audit/audit-query-service.ts`, `diagnostics/`, `admin/` | none (read only) | queries | |
| UI, i18n, logging, error reporting | `src/app/`, `src/components/`, `messages/`, `lib/observability/`, `lib/logging/` | none that the services read | rendering | |

### What is hard here

- *Read, then write by id.* Most updates are `findUnique` followed by
  `update({ where: { id } })` in one READ COMMITTED transaction: a change that
  commits between the two is overwritten.
- *Read in one transaction, write in the next.* Submission resolves prices, takes a
  number and inserts in separate transactions; accepting and revoking a
  relationship discover the row in one transaction and change it in another.
- *Many reads, one answer.* A price comes from six statements, a request's membership
  from up to a dozen queries; the database changes between them.
- *Row locks in data order.* Confirmations lock order lines one by one, in the order
  the rows were read; imports lock rows in file order.
- *Two copies of one fact.* A relationship's status and its customer membership; a row
  and its audit entry; an address's `isDefault` and those of its siblings; local
  storage and each tab's cart; what a file's diff compares and what its update writes.
- *At most once.* An event is published after the commit by the process that committed;
  the answer to a submission may be lost after the order was placed.
- *Restarts.* The set-up scripts are interrupted anywhere and started again.

## 2. Modules

| Module | Role |
|---|---|
| `OrderStatusMachine` | the transition table of `order-status-machine.ts`, as operators |
| `OrderLifecycle` | confirm, advance, cancel and assign as concurrent transactions |
| `OrderStatusSpec` | abstract: a status moves along the machine |
| `OrderLifecycleProperties`, `OrderLifecycleProofs` | its properties; its theorems |
| `OrderSubmission` | `submitOrder`, with the seller's edits between its transactions |
| `OrderNumberSpec` | abstract: a counter of placed orders |
| `OrderSubmissionProperties`, `OrderSubmissionProofs` | its properties; its theorems |
| `TradingRelationship` | the eight relationship calls, and the memberships they grant |
| `RelationshipStatusSpec` | abstract: a relationship's status machine with its audit log |
| `TradingRelationshipProperties`, `TradingRelationshipProofs` | its properties; its theorems |
| `CustomerAddresses` | the seller's address forms and the CSV import of addresses, statement by statement |
| `AddressBookSpec` | abstract: an address book in which each call, a whole file included, is one step |
| `CustomerAddressesProperties`, `CustomerAddressesProofs` | its properties; its theorems |
| `Permissions` | the capabilities of a role (`permissions.ts`) |
| `BackOffice` | catalog, pricing, customers and their imports as overlapping transactions on one table of rows, and the reads of a price meanwhile |
| `BackOfficeProperties`, `BackOfficeProofs` | its properties, among them a price's reference definition (`Quote`); its theorems |
| `AccountTables` | users, tenants, customers, memberships and relationships, shared by the two that follow |
| `Sessions` | a browser, and the membership that each of its requests resolves |
| `Setup` | the scripts that fill the tables |
| `Accounts` | composes `Sessions` and `Setup` on the tables |
| `AccountsProperties`, `AccountsProofs`, `SessionsProofs` | its properties; theorems about the scripts and about requests |
| `Cart` | a browser's tabs, its cart or basket, look-ups and submissions |
| `CartProperties`, `CartProofs` | its properties; its theorems |
| `MC...` | the instances that TLC checks: one module per component, one `.cfg` per run |

What joins them: `Cart` serves a submission in one step, whose steps are
`OrderSubmission`; `OrderSubmission` reads a price in one step, whose steps are the
readers of `BackOffice`; `Setup` invites and accepts in one step each, whose steps are
`TradingRelationship`, and imports by `BackOffice`. In each case the coarser module
takes any outcome that the finer one can have, failures included.

## 3. How the modules follow the code

All modules of services share one picture of the database. A caller's transaction is
a sequence of steps, one per SQL statement that can matter to another transaction;
each reads the committed variables. What it writes is in variables of its own
(`draft`, `entries`, `newRow`, `newMember`, `mine`, a `pc` of "written" or "inserted")
until its commit copies it, and while it is there, other writers of the row or key
wait (`WaitsFor`, `RowHeld`, `MemberHeld`, `Free`). An UPDATE sets its columns on the
row as committed when it gets the lock. Timeouts, lost connections and crashes are one
action (`Abort`, `Fail`, `Interrupt`), allowed at every point of a transaction.

An operator `X_Y` just before a definition `X` is `X` with a plausible bug (a dropped
check, a missing rollback). No behaviour uses them: each property of a passing run
has one that breaks it when it takes the place of `X`, so the property does depend
on that code. PROJECT.json pairs them.

`overlapped` is a history variable of three of the modules: it becomes true when a
transaction (in the relationship and address modules: a call) begins while another
is under way, and stays true. No guard reads it. Many promises of this code hold only
until then, and properties of the form `overlapped \/ ...` say so, in the same run
that lets calls interleave. In `BackOffice` the field `quiet` says it of one
transaction or one read: nobody committed since it began.

### OrderLifecycle

| Code | Model |
|---|---|
| `Order`, `OrderLine`, `AuditLogEntry` rows | `order`, `line`, `audit` |
| service calls and their arguments | `Calls`, built by operators with the services' names |
| the checks that precede the first write | `ConfirmAccepts`, `AdvanceAccepts`, `CancelAccepts`, `AssignAccepts` |
| `withTenantContext(async (tx) => ...)` opens and reads the order | `Begin`, or `Refuse` |
| the loop `for (const input of lines) await tx.orderLine.update` | `WriteLine`, once per entry |
| `tx.order.update({ where: { id } })` and its audit entry | `WriteOrder` |
| the end of the callback | `Commit`, `Abort`, `DeadlockVictim` |
| `publishOrderEvent` after the transaction | `Publish`, `LoseEvent` |

Confirmations lock lines in the order of their list. The page builds that list from
lines that were read without an `ORDER BY`, so two confirmations may lock in
opposite orders and deadlock; `ConfirmInputs` therefore has both orders. Line lists
with a wrong line, a missing line or a wrong quantity cannot come from the page, but
the services are called directly by tests, and check for them. Quantities are in
units larger than `QTY_TOLERANCE`, which then separates equal from different. A line
may belong to an order outside `Orders` (`orderOf`). `Drivers`, the active driver
memberships, do not change during a run.

### OrderSubmission

| Code | Model |
|---|---|
| `resolveCartLine`'s two transactions, all lines at once | `FindUnit`, `PriceUnit` |
| LINE_ISSUES, or all lines resolved | `RejectCart`, `AcceptCart` |
| `aggregate({ _max: orderNumber })` | `TakeNumber` |
| customer and address checks, `order.create` | `CheckCustomer`, `CheckAddress`, `Insert` |
| unique violation of (tenant, number), next attempt | `Insert` back to "numbering" |
| the loop ends without a result | `GiveUp` |
| commit; `publishOrderEvent` | `Commit`, `Publish` |
| catalog, pricing and customer services | `Edit` |

`price[c][u]` is what `resolveEffectivePrice` returns, all its reasons for having no
price being `NULL`; it is read in one step because a submission cannot tell its
statements apart by anything but the price they give (`BackOffice` has the statements).
`orderable` has the units of which a cart's quantity can be ordered.

### TradingRelationship

One buyer and one seller: the row is unique for the pair, and nothing in these
services reads or writes another pair's row. `customerOf(p)` is the customer whose
membership a call touches; for `accept` and `revokeAsBuyer` that is the customer of the
row as it was read, possibly in an earlier transaction.

| Code | Model |
|---|---|
| the eight entry points | `Call`, `Begin` |
| `discoverOwn...`, the first `findUnique`; the `assert...` functions and `resolveExisting...` | `ReadRow` with `Answers`, `Reopens` |
| `customer.findUnique`, `isActive` | `CheckCustomer` |
| `customerMembership.findUnique`, then `update` or `create` | `ReadMember`, `WriteMember`, `InsertMember` |
| `tradingRelationship.create` | `InsertRow`, and `Abort` after a unique violation |
| `updateMany({ where: { id, status } })`, `count === 0` | `WriteRow` with `StillSeen`, `WritesRow`, `LosesRow` |
| commit with the audit entry | `Commit` |
| `setCustomerActive` | `SetCustomerActive` |

After a unique violation PostgreSQL refuses every further statement of the
transaction, so the code's re-read in the `catch` fails as well: `InsertRow` goes to
"aborted". The audit log is kept as its last entry, which is enough to say that each
entry tells the move just made. Callers make one call after another without limit;
there is no counter, so the state space is finite.

### CustomerAddresses

The addresses of one customer: every statement of these services is limited to one.

| Code | Model |
|---|---|
| `CustomerAddress` rows | `address`; `isDefault` stands for the two default flags, which the code treats alike, `isActive` also for the other columns that are just stored |
| the three services that the forms call | `createCustomerAddress`, `updateCustomerAddress`, `setCustomerAddressActive` with `InsertAddress`, `UpdateAddress`, `WriteActive` |
| `clearOtherDefaults`, one `updateMany` | `FindOthers` (the rows its snapshot selects), `ClearOther` for each, once its lock is free and on its newest version, `Cleared` |
| `parseCsv`, `headerIndex`, `normalizeRow` | a member of `File`: rows that are read, or `NULL`, and which columns there are |
| `planAndExecuteRows` in mode "confirm" | `PlanRow` (duplicate keys, resolve, diff), then the service's statements, row by row; `Planned` |
| mode "preview" | `RowStatus` of each row against `address` |
| commit, or an exception out of the transaction | `Commit`, or `Duplicate`, `Deadlock`, `Fail` |

What a transaction wrote is in `mine`, and `view(c)` is what its own statements see.
A write takes the lock of its row and of the label it writes in one step, as nothing
can happen between the two that another transaction could tell. There is an id for
each label, so that there is always one for a new address.

### BackOffice

The services of catalog, pricing and customers have one shape: check the capability,
look the referenced rows up, read the row, write given columns, append an audit entry
with old and new values, in one transaction. Nine tables are therefore one function
`db` from row ids to rows on common `Columns`, and each service says which of them it
sets; `extra` is a product's image and a customer's contact.

| Code | Model |
|---|---|
| the nine models of `schema.prisma`, their unique keys and references | `kindOf`, `Columns`, `key`, `parent`, `other` |
| the entry points of the server actions, `requireCapability` | `...Actions`, `May` |
| one service function | the operator of its name (`createCategory`, `setCustomerDiscount`, ...), which opens a transaction with its operations |
| `findUnique` of the row, look-ups such as `assertCategoryBelongsToTenant` | `ReadRow`, `RefuseRow` |
| `create`, `update`, `upsert`, `delete` with the columns of its `data` | `WriteRow`; a duplicate key is `RefuseWrite` |
| `writeAuditLogEntry` | `Entry`, with `old` as it was read |
| `planAndExecuteRows` with a kind's adapter (`resolve`, `diff`, `executeCreate`, `executeUpdate`) | `ImportRow`, `PlanRow` with `Resolved`, `changed`, `executeCreate`, `executeUpdate` |
| what differs between the seven adapters | tables by kind: `LookedUp` (codes that `resolve` looks up), `Compared` (columns of `diff`), `Optional` (columns that a header may lack), `Saved` (columns that the `...InTx` update writes: the key too, and null for a product's image) |
| commit, exception, deadlock, timeout | `Commit`, `RefuseRow`, `BreakDeadlock`, `Fail` |
| `listBuyerCatalog`, the six reads of `resolveEffectivePrice` | `listBuyerCatalog`, `ReadCustomer` ... `ReadItem` |

An id of a price, an assignment or an override follows from what it is about, as each
is unique. Discount arithmetic is left out: an offer is price, discount and currency
as they were read. `Withheld` says why a buyer is not to be shown a unit, and
`reads[b].withheld` is which of these reasons held at every moment of a read. A file is
a list of normalised rows, or errors, and the columns in its header.

### Accounts

| Code | Model |
|---|---|
| `User`, `Tenant`, `Customer`, `TenantMembership`, `CustomerMembership`, `TradingRelationship` | `rows`: `None`, or `on` (isActive, or ACTIVE) and `is` (what the scripts look at: a name, a role, a status) |
| the JWT and the cookie `activeBuyerMembershipId` | `browser` |
| the `jwt` callback's `resolveActiveMembership` | phase "auth": `ReadUser` ... `Resolved` |
| `requireBuyerSession`'s second resolution, with the cookie | phase "session", `Preferred` |
| `listActiveCustomerMembershipsForUser`, `findOwnActiveCustomerMembership` | phases "list" and "own" |
| `validateCustomerMembershipCandidate` | `ReadCustomer`, `ReadCustomersTenant` |
| layouts and pages | `HomePage`, `requireSellerSession`, `requireBuyerSession`, `requirePlatformAdminSession`, `requireAuthenticatedSession` |
| server actions | `signIn`, `signOut`, `selectActiveSellerAction`, `revokeConnectionAction` |
| `prisma/bootstrap-pilot.ts` and the four other scripts | `installation.script`: a list of tasks per operator |
| `pg_advisory_xact_lock` with `lock_timeout` | `lock`, `acquireBootstrapLock` |
| Ctrl-C, a failure, a second start | `Interrupt`, `Stop`, `Start` |

`turned` is a history variable: the rows that changed since the request began. The order in which the database returns memberships is a nondeterministic
choice. Simplified: a layout's guard, which is the same as its page's, is evaluated
once (a second evaluation could only redirect as well); the page `exports` stands for
all pages whose capability only some roles have; the JWT stays in the browser after it
resolved to an inactive user; the eight files of an import are two steps, one that
makes the customers and one that makes the price lists; the two counts of the
bootstrap's precondition are one read (the first one is repeated under the lock);
prompts, password rules and the guard of the target database are left out.

### Cart

| Code | Model |
|---|---|
| local storage under the cart's key | `storage`: the quantity of each unit |
| the module variables of `cart-store.ts` in each tab | `tab[t].items` |
| `commit`, `addCartItem`, `setCartItemQuantity`, `removeCartItem`, `clearCartItems` | the actions of their names |
| the effects of `CartView`, `CheckoutForm`, `SellerOrderSummary` that call `resolveCartAction` | `ResolveCalls`, put into the tab's queue of server actions |
| what the page renders, `hasIssues` | `shownLines`, `hasIssues` |
| `submitOrderAction` of buyer and seller, `resolveCartLine` | `submitOrderAction`, `Issues` |
| answers, in the order of the calls | `setResolvedLines`, `SubmissionRefused`, `redirect`, `redirectSeller` |
| the order's page with `?submitted=1` | `ClearCartOnMount`, `OpenOrderAgain` |
| a link, a reload, a lost request or answer | `Follow`, `Load`, `Lose` |

`wanted` is the history of what was put into the cart and neither taken out again nor
ordered. `Account` begins it anew in the cases in which the code does lose account of
the cart, and names them: a tab writes back a copy that another tab has made stale; the
answer to a submission that placed an order never arrives; the page with `?submitted=1`
is opened again (although `clear-cart-on-mount.tsx:8` says "Rendered only once").
"elsewhere" is every page without lines: catalog, orders, errors. Next.js sends a tab's
server actions one at a time and discards them when the page is left; a submission
that was discarded unserved never arrived. The customer of a request may be any of the
user's at each request, since another tab can set the cookie; prices and hidden units
are arbitrary at each look-up. A browser is a buyer's or a seller's. Carts that the
schema of the action refuses for their size are left out.

## 4. Runs

Passing runs:

| Run | Instance | What it shows |
|---|---|---|
| `race` | one order, two lines and one of another order, three requests, two drivers, every kind of wrong line list | however requests interleave, fail and deadlock: the row is the last audited one, a confirmation is applied whole and its reductions are audited, events are committed changes, every request ends; refines `OrderStatusSpec`. The row's marks (confirmed, delivered, cancelled by) are those of the statuses the order ever had, also after raced moves. As long as no two transactions have overlapped: a finished order keeps its driver, the audit log tells before and after, and every quantity |
| `submissions` | three submissions of a line each, or two, one of them of two lines; two customers and attempts, one edit | an order has its cart's lines, all priced, and an address of its customer; one order at most to a submission, an attempt is lost only to another's order, and every submission ends; refines `OrderNumberSpec`, the numbers 1..n |
| `relationship_race` | two callers, one customer, all calls, without limit | refines `RelationshipStatusSpec`; a membership moves only with the status; answers and revocations end, deadlocks included. As long as no two calls have overlapped: membership and status agree, both sides consent |
| `addresses` | two sellers, two addresses, all forms and two-row files, and files with an unreadable row in between and without the default column | without an overlap: one default at most, each call is one step of `AddressBookSpec`, and the preview tells what the confirmation does to each row. With any: someone can go on, and the customer loses all defaults only to a call that unticks one |
| `backoffice` | two tenants with a row of each kind, two admins, a sales representative and a reading buyer; any two requests, twelve files | references stay in the tenant; replaying the audit log gives every row; what a sales representative saves changes a contact and undoes nothing that an admin saved meanwhile; a file that was imported alone changes nothing the second time and keeps what it has no column for; a price read alone is the one by the rules, and nothing that was withheld throughout is ever offered |
| `accounts` | eleven installations: an empty database with two bootstraps, a bootstrap beside the demo accounts, wrong accounts, skipped steps, two pilot buyers, two restores, a restore with a buyer at work, pending relationships, two operators who invite and request beside each other, and one in use by a buyer of two sellers who is also staff and admin | no page is served under anything that was off throughout; the chosen seller is kept, and one usable membership is always found; redirects end in a page; one bootstrap succeeds; a script that says done has done it; no script leaves accounts that the scripts refuse |
| `cart` | one tab with two look-ups at a time, or two tabs of a buyer, or a seller's page; two units, customers of two sellers | nothing in the cart is lost, ordered in part or left over, but for the three cases named; the page shows the cart whenever nothing is under way |

Runs that TLC ends with a counterexample, each about a sentence that the repository
says of itself:

| Run | The sentence | The counterexample |
|---|---|---|
| `moves` | "The single source of truth for which order-status transitions are legal." (`order-status-machine.ts:4`) | a cancellation and a confirmation both read SUBMITTED; the order goes CANCELLED to CONFIRMED, or back |
| `relationship_access` | a membership "means real, working access" (`schema.prisma:188`) | a buyer's revocation deactivates the membership of a customer the row no longer has |
| `addresses_default` | "Only one address per customer may be the default delivery address" ... "so it's enforced here" (`customer-address-service.ts:61`) | two default addresses are saved at once, and neither transaction sees the other's |
| `import_overlap` | "a column absent from the header leaves the existing value untouched" (`import/driver.ts:33`) | the import resolves a row, an admin switches the row off, and the import writes the switch that it read: `diff` restores every absent column from the row that was resolved, and the `...InTx` updates write them all |
| `restore_interrupted` | "safe to re-run, including after this script itself was interrupted partway through" (`restore-local-demo.ts:20`) | interrupted between invitation and acceptance, it refuses the PENDING relationship ever after |

All but the restore have one cause: what is read is not locked, and the
write that relies on it is another statement, or another transaction. The relationship one shows that
repeating the *status* in the UPDATE is not enough, since a status can come back. The
same cause makes each of the properties with `overlapped` fail without it; they have no
runs of their own. Among them is the driver's check ("there is no window for a
reassignment to race the check", `order-fulfillment-service.ts:178`, but it is a read
before an UPDATE by id), and "never respondable" by the buyer, which the buyer's late
acceptance of an invitation makes of the buyer's own request. More observations without
a run: a submission does not resolve its lines again before it inserts, although
`order-service.ts:210` says "right before the write"; after a unique violation the
code's re-read in `inviteBuyerForCustomerInTx` and `requestConnectionInTx` cannot
succeed, since PostgreSQL refuses every statement of an aborted transaction; an
address file without the default columns writes back what it read when it resolved the
row, as the other kinds do (`customer-addresses-import.ts:99`); and an import that updates
a row writes its key back too, in all tables but that of prices (`category-service.ts:82`),
which undoes a renaming that was committed since, or fails as a duplicate when another row
has taken the key. And a products file that changes a product sets its image to null,
with nothing beside it: no file has a column for it, `updateData` has no `imageUrl`, and
`updateProductInTx` writes `imageUrl ?? null` (`product-service.ts:136`). The model does
the same (`Saves`), and `AbsentColumnsKept` speaks of the columns a header may lack.

### Bounds, and why they are enough

- *Requests.* In the order modules each of `Requests` is handled once, which bounds the
  run. A violation of an order property involves a reader, a writer that overtakes it,
  and what had to happen before; deadlocks need two. `moves` has four, enough to
  confirm, advance and overtake.
- *Submissions.* `Mixes` says which carts come together: three of one line, which is
  what losing every attempt takes with MAX_ORDER_NUMBER_ATTEMPTS at 2 instead of 5, or
  two of which one has two lines, which is what ordering half a cart takes. The proofs
  are for every value. `MaxEdits` is one: a submission reads each fact once, so that one
  edit is before or after it.
- *Customers, callers.* Two customers are what a stale membership needs
  (`relationship_access`); the passing run has one, because AnswersEnd is about locks.
  The proofs of its other properties are for any number.
- *Addresses and files.* Two addresses are what a default moves between and what two
  callers lock in opposite orders. Two rows give every relation between a row and the
  next one (same label, both defaults, one new); calls repeat without limit. The
  theorems are for any number of addresses and rows.
- *Back office.* `MaxCalls` is two: what overlaps with a call, or what a price is read
  beside. Each table has the rows that exist, one more of each kind that can be
  created, and a row of the other tenant that a reference could lead to; the files
  have each kind, duplicate keys, an unreadable row, an unknown reference, rows in
  opposite orders, and every optional column present or absent.
- *Accounts.* `MaxStarts` is two, an interruption and a restart. `switches` is at most
  two in an installation: one before a request's query and one after it, or a customer
  and its tenant. An installation has either scripts or many switches, since requests
  do not look at scripts but only at what they committed.
- *Cart.* A quantity of two is the smallest that the instance's increment allows
  (`Orderable`), so that one is not orderable. Two calls of a tab overlap; a third
  would only wait behind them, as a tab has one under way. With two tabs one call at a
  time is enough, since they share nothing but storage and the cookie.
- *Symmetry* is used over requests, customers, callers, ids, labels, tabs and units, only
  in runs without liveness properties.

### Fairness

`OrderLifecycle` and `OrderSubmission`: weak fairness of each running handler's next
step. A step waits only for a lock, and stays enabled once the lock is free and, by the
properties checked, whoever has the lock ends; a deadlock is detected by
PostgreSQL. Nothing is assumed about arrivals, timeouts, crashes or the seller.
`TradingRelationship`: strong fairness, because callers call without limit, so that a
waiter's lock can be taken again and again; PostgreSQL queues the waiters of a row, so a
waiter does get it. Invitations and requests read again after losing the row and may
lose it each time, so `AnswersEnd` speaks of the other six calls only. `Accounts`: weak
fairness of `Answer`, that is, the server answers; nobody has to browse, to start a
script or to let it end. `CustomerAddresses` has no fairness: `SomeoneGoesOn` says
that running calls never all wait for each other without the database ending
one. `BackOffice` and `Cart` have none, and only safety is said of them.

`accounts` is the only run without a deadlock check: its installations without a
visitor stop when the scripts have ended and may not be started again.

## 5. Proofs

Proved with TLAPS for every value of the constants, from the modules' own named
assumptions (`OrderLifecycleAssumption`, `OrderSubmissionAssumption`,
`NoCallAssumption`, `TradingRelationshipAssumption`, `CustomerAddressesAssumption`,
`BackOfficeAssumption`, `KeyAssumption`, `TenantOfAssumption`, `NoneAssumption`, `SessionsAssumption`,
`OperatorsAssumption`, `InstallationsAssumption`, `BrowsersAssumption`, `NoAnswerAssumption`):

| Module | Theorems |
|---|---|
| `OrderLifecycleProofs` | `TypeCorrect`, `HistoryConnected`, `RowAudited`, `Refinement` (implements `OrderStatusSpec`), `MarksStay`, `AloneAssignments`, `AloneDriverOwnsMove`, `EventsAreCommitted`, `QuantitiesConfirmed`, `AuditTells`, `RequestsGoOn`, `RequestsComeNearer` |
| `OrderSubmissionProofs` | `TypeCorrect`, `NumbersInOrder`, `CartsMatched`, `NumbersAreACounter` (implements `OrderNumberSpec`), `AttemptsAreCounted`, `EachSubmissionGoesOn`, `SubmissionsComeNearer` |
| `TradingRelationshipProofs` | `TypeCorrect`, `AccessFollows`, `Refinement` (implements `RelationshipStatusSpec`), `AloneMembershipFollows`, `AloneBothSidesAgree`, `AloneCustomerKept`, `CallsGoOn`, `AnswersComeNearer` |
| `CustomerAddressesProofs` | `TypeCorrect`, `AloneOneDefault`, `LastDefaultIsUnticked`, `PreviewHolds`, `AddressesImplementBook` (implements `AddressBookSpec`), `SomeCallGoesOn` |
| `BackOfficeProofs` | `TypeCorrect`, `ReferencesStay`, `NothingWithheld`, `LogReplays`, `LogTellsOld`, `ContactsOnly`, `QuietOffers`, `AbsentColumnsStay`, `ImportsSettle` |
| `AccountsProofs` | `OneBootstrapHolds`, `ScriptsDo`, `AccountsGoOn`, `EachScriptGoesOn`, `ScriptsComeNearer` |
| `SessionsProofs` | `RequestsActWhileOn`, `ChosenSellersAreKept`, `AccessIsFound`, `NavigationsComeNearer` |
| `CartProofs` | `CartIsAccounted`, `CartIsShown` |

Most assumptions only say what kind of value a constant is and that markers such as
`NULL` are not among the data. Two say more. `BackOfficeAssumption` has the database
begin as its schema demands (`RefsWithin`, and `KeysUnique` for the unique indexes;
a price's key is its list and unit, and an assignment has a list), and lets only customer
files have a discount column, as only their adapter has one. `KeyAssumption` says of a
file that each row that is read has a key, without which `normalizeRow` makes an error
of it, and that the key of a price is made of the codes of its list and unit. TLC
evaluates both on the runs' instances.

The arguments:

- *Lifecycle.* That the row is the last audited one is inductive only with what a
  transaction holds: it passed its checks on a row (`seen`) that the order once had, and
  its uncommitted entries are line entries, then one for the order. A commit appends
  them, so the order's last entry is its own. The status read may no longer be current,
  but it is one the log knows; hence the history is connected and the abstract machine
  may move from any past status. Without an overlap `ReadsAreCurrent` makes it the
  present one, and the machine is the strict one. A commit sets the mark of its own status
  and leaves the others, as the row has them then and not as it was read (`MarksStay`). A second invariant, `WritesOK`, says
  what a transaction has written: its uncommitted line versions and entries are those of
  the inputs it has handled (`DraftOK`, `EntriesOK`), each line once, all of them when the
  order is written. A committing confirmation therefore replaces every line of its order,
  with which the order's lines are always those of one confirmation (`ConfirmedBy`).
  Without an overlap it is also the order's first (`NeverBack`), so that its entries are
  all there are of its lines. `DriverOwnsMove` is proved only: an
  order needs five requests to get to a driver's move, and one more to violate it.
- *Submission.* An uncommitted insert holds its number, which is above every committed
  one or taken; at most one insert of a number exists. A commit's number is therefore
  the next, so that the numbers are 1..n without anyone having locked the counter.
  An attempt is lost to a number that another submission's order has, and the next attempt
  takes a number above it, so that no order is counted twice (`AttemptsOK`).
- *Relationship.* The UPDATE that repeats the status holds the row until the commit, so
  that the status that was read is the row's again, and stays it (`CallOK`, `OneHolds`).
  That gives the machine, the audit log and the memberships that move with it, with any
  number of callers. Whose membership is active is not inductive then, as the findings
  show; without an overlap `LoneInv` adds that the whole row is as read, and that
  the membership is as found.
- *Addresses.* The types need what each stage of a call holds (`CallerOK`): the row
  that a call sets or clears exists in its view, and rows are never deleted. For the
  default, the committed rows are not enough, because a transaction writes its default
  first and clears the others after it: `Lone` says of the one call under way that at
  "clearing" the defaults it sees are the address it saves and those still to be
  cleared, and at every other stage after a write that it sees one at most. With calls
  that overlap, `TickedInv` says that a row has one writer (`Exclusive`), that a switch of
  `isActive` leaves `isDefault` as it is committed, and that a call that unticks nothing
  has written a default if it has written anything, so that its commit leaves one.
  That a file does what its preview says, and that a call is one step of
  `AddressBookSpec`, need to know what a call has done so far: `Story` says that its view
  is the effect of its form, or of the rows of its file up to the current one, on the
  committed addresses, and for a row half done which of its statements are left; that
  no two addresses have one label is part of it (`StoryInv`). A commit is then
  the whole file at once, and every other step is a stutter of the book.
- *Back office.* Beside the types, `Inv` says of a transaction that what it looked up for
  the operation it is at is still there (`TransactionOK`): rows that others refer to are
  neither deleted nor moved to another tenant, so that a check need not hold a lock to stay
  true, unlike the checks of the other services. What it has written and not committed
  has references as good as committed ones (`DraftOK`), a row has one writer
  (`OneHolder`), and a read has not passed, at each of its statements, a reason to
  withhold the unit that held all the time (`ReadOK`).
- *Audit log.* `AuditReplays` compares a recursive function of the log with the
  database. What is provable is that there is a sequence of rows which follows the log
  entry by entry from the row's first state and ends in the present one (`Replay`);
  such a sequence is unique, and extends with each entry. `LogOK` says it of the
  committed log and row, and also that the entries of a transaction under way lead from
  the committed row to its draft. As one transaction at a time has written a row,
  a commit joins the two. That each entry of a quiet transaction tells the old values, and that
  a column that a commit changes was set by one of its entries (`ColumnsTold`), follow from
  the same drafts. A sales representative's entries set the contact of customers
  that are there (`Limited`): no other request is open to the role.
- *Prices.* `TermsOK` says of a read during which nobody commits that each of its
  statements found what `Quote` says of the database as it is. It needs the unique keys
  in what is committed, seen and drafted (`KeysOK`), so that a price, an assignment
  or an override is the only one, and that a row's key is made of what it refers to
  (`RowsShaped`).
- *Imports.* `FilesOK` says what an import knows while nobody else commits: a row of the
  file that is done is `Settled` (some database row has its key, and all that the file
  says of it), the current one is `UnderWay` (its create, update or discount still
  to do), and each draft is as committed in every column that the file lacks. Two
  accepted rows of a file are about different database rows, so that writing one leaves
  the others settled. After the commit `KeysOK` makes the row that a second import finds
  the one that was settled, and `PlanRow` then has nothing to do.
- *One bootstrap.* The lock is held from the second check to the commit, so that of all
  operators at most one is between them, and what the check looks for is never deleted:
  once one bootstrap has committed, every later check sees it, and a check that was made
  before the lock is repeated under it. The other tasks, and the steps of requests, are
  shown to leave this alone.
- *Scripts.* `Progress` says of each task what it has found and drafted
  (`Found`, `DraftFits`), that what was found is still there, that what an operator is
  past is met as long as nothing was switched off, and that a tenant has its admin
  from the moment that it exists. `DoneMeansDone` and `AccountsReconcile` carry
  hypotheses, which are their meaning: nothing is off at first or switched off later; at
  all tasks that set up the relationship of a user and a tenant want the same of it (an
  invitation and a request of one pair would refuse each other); for the second, the database was empty,
  the scripts agree on a tenant's admin, and no catalog is imported before its tenant
  is made. The two-bootstrap and the two-restore installations satisfy them.
- *Requests.* `RequestInv` says what is known of a request at each query: every row that
  it found on and goes on with is on now or has changed since the request began
  (`AliveIn`), and a membership that was usable throughout is found already or still to
  be tried (`FoundIn`). It needs nothing about who switches rows, only that a change
  is recorded in `turned` (`Keeps`), so it holds beside any scripts.
- *Cart.* A submission that is under way has the lines of the cart, because the page it was
  sent from cannot change it (`AsCalled`); so that what the redirect clears is what was
  ordered. Of the page's look-ups, the last one in the queue, or the last one answered, is
  of the present lines (`LookUpCurrent`).
- *Going on.* What a liveness property says beyond fairness is safety: whoever is
  under way can take a step or waits for somebody who can, and each step lowers a number
  that nobody else raises. Both halves are proved, with guards written out
  (`CanGoOn`) where one would write ENABLED, which the prover does not know.
  `RequestsFinish` and `SomeoneGoesOn`: whoever cannot go on waits for another one,
  so that in a finite set where nobody can, some wait in a circle (`CircleOfWaiting`:
  the pigeonhole principle on a sequence in which each waits for the next), and
  PostgreSQL ends one of a circle, of any length. That a file of addresses always
  finds an id for a new label needs as many ids as labels. `SubmissionsEnd`: only an
  insert waits, for an insert of the same number, and that one holds everything it
  needs; its measure is lexicographic, the attempts left and then the steps of an attempt.
  `AnswersEnd`: acceptances and revocations lock the relationship and the membership in
  opposite orders, so that two calls may wait for each other, which PostgreSQL ends, but
  never three in a circle.
  `NavigationsSettle`: while no row is switched, each answer shows a page, or leaves fewer
  redirects, of three at most, or as many and fewer queries.
  Nothing obliges an operator to let a script go on, so that scripts have no liveness
  property, but both halves: an insert waits for an uncommitted row with its key, which is
  a tenant's or a user's; every script inserts the tenant before the user and a
  membership last, so that whoever holds a user waits for nobody (`EachScriptGoesOn`).
  `Setup` has therefore no action by which PostgreSQL ends a deadlock.

These theorems need what they count to be finite (`Requests`, `Callers`, `Ids`,
`Labels`, `Units`, `Users`, `Customers`, as each theorem says), and, as
said, ids enough; nothing else.

Only model-checked: the liveness properties themselves (`RequestsFinish`,
`SubmissionsEnd`, `AnswersEnd`, `NavigationsSettle`), that is, the step from the two
halves to "eventually" by the fairness assumed, which is out of the prover's reach.
For `NavigationsSettle` the proved half is the measure (`NavigationsDescend`); that the
server can answer is left to the run. Every invariant, action property and refinement
that a passing run checks has a theorem above. The halves (`SomeRequestGoesOn`,
`RequestsDescend`, `SubmissionsGoOn`, `SubmissionsDescend`, `SomeCallGoesOn` and
`AnswersDescend` of relationships, `NavigationsDescend`, `ScriptsGoOn`,
`ScriptsDescend`) are theorems and in no run; the runs check the liveness properties that
they explain.

## 6. Not modelled

PROJECT.json lists every component with its status. Of the services that change state
everything has a module but these: `reset-local-seller-password` (one UPDATE of a
password), the development seed (`prisma/seed.ts`), and the row-level policies of
`prisma/rls/policies.sql`, which repeat in SQL the scoping that the modules give every
statement (a tenant's rows in `BackOffice`, a customer's in `CustomerAddresses` and
`OrderSubmission`). Left out of the modelled ones: in submission the cut-off decision,
totals, VAT and delivery dates (arithmetic on one order that is stored and not read
again); in relationships the checks of user account and tenant status, which refuse a
call before it reads the pair, and memberships that `pilot-buyer-service.ts:88` creates
without a relationship, for which `MembershipFollows` does not hold; of the addresses
the read-only lists, the audit entries, and the check that the customer exists, which
nothing can change; in the lifecycle the deactivation of a driver while a request runs;
passwords in `Sessions`. Time-zone and decimal arithmetic (`cutoff.ts`,
`order-totals.ts`) have no state and are covered by unit tests of the repository.
Pages, queries, exports, logging and translation change no state.
