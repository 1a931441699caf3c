# TLA+ models of taskbot

taskbot is a React Native client (`src/App.js`, `src/src/**`) of a freelancer
marketplace: buyers post projects and order tasks, sellers send proposals and
offer tasks, and both follow the work through milestones, payments and
disputes.  The server is a WordPress REST plugin that is not in the repository;
the models treat it as an external party and say of it only what the client's
handlers rely on.

Everything below refers to the JavaScript sources.  Paths are relative to
`src/src/screens/` unless they start with `Redux/` (`src/src/Redux/`) or `App.js`.

## How the program executes

One JavaScript thread.  A touch handler, an effect or a promise callback runs to
its end, so each is one action.  Everything hard about the program comes from
what happens between two of them:

* A handler is a closure over one render.  The callback of a request sees the
  state, the token and the profile of the render that sent the request, not
  those of the moment of the answer.
* Nothing is cancelled: not on navigation, not on logout, not when a newer
  request of the same kind is sent.  Answers arrive in any order or not at all.
* Some lists are arrays that handlers mutate in place (`list.length = 0`,
  `push`) and that every closure shares; what is painted follows only at the
  next render, and React renders only when a `setState` changes a value.
* A spinner that covers the screen (`{loader && <Spinner visible/>}`) is what
  keeps the user from acting twice; where there is none, or where a callback of
  another request takes it down, the user may.
* redux-persist writes the store to AsyncStorage some time after a dispatch; a
  crash or `RNRestart.Restart` brings the last written copy back.

## Inventory

| Component | State | Operations | Hard because | Correct when |
|---|---|---|---|---|
| Milestones of a hired proposal (`myProjects/ProjectActivity.js`) | rows held and painted, selected proposal, overlay, sheets; the milestones' statuses on the server | select a proposal, approve, ask for approval, decline, pay, add milestones, comment, dispute, complete, refresh | buyer and seller act on stale boards; refreshes overtake each other; rows mutated in place; overlay shared by all requests | money is released only for work that was funded and handed over; rows are of one proposal, none twice; a payment in flight cannot be repeated; the screen never stays blocked |
| Session (`Redux/AuthSlice.js`, `Redux/Store.js`, `auth/`, `drawer/`, `dashboard/`, `profileSetting/accountSetting.js`, `identityInformation.js`, `home/Home.js`) | token, userInfo, privacy, image, verification, wallet; the copy on disk | log in, sign up, restore, switch profile, log out, deactivate, refresh of the fields | answers of an earlier session write the store of the next; restart from an older copy | nobody is signed in without a password; the fields shown are of one person |
| Paged lists (nine screens, see `PagedListing`) | list, page number, filter, overlay, footer spinner | first page, load more, change filter, refocus | load-more answers replace the list by the one captured | pages in order, none left out, none twice, of one filter |
| Freelancer search result (`searchResults/searchResult.js`) | as above, the list emptied in place | as above | as above, and the page is never reset | as above |
| Saved items (`Redux/SavedSlice.js`, `exploreProjects/projectDetails.js`, `detailPages/`, `saved/`) | cached lists, flag of the screen | save, remove, reload | the list is rebuilt from a captured copy: lost updates | cache equals the server's list when nothing is in flight |
| Post-project wizard (`Redux/PostProjectSlice.js`, `postProjects/`) | step, draft with project id | start, template, save each step, back, leave, invite | no overlay: double taps; answers of a wizard that was left move the one now open | one project per visit; saves reach the project they are meant for; a step is saved before the next |
| Post-task wizard (`Redux/PostTaskSlice.js`, `manageTasks/PostTask*.js`) | step, task id (persisted), packages, add-ons, gallery | edit, save each step | late answers move the wizard now open; steps that advance on errors; lists of the item edited in place | saves reach their task; one task per visit; steps in order; nothing saved is lost |
| Task list of a seller (`manageTasks/TaskListing.js`, `TaskListCard.js`) | the paged list | delete, hide, edit | index captured by the card | the row deleted is the task deleted, and what is painted is what is held |
| Proposal of a buyer's project (`myProjects/ProposalActivity.js`, `ProposalListing.js`, cards) | the project as fetched, dialog, sheet | hire and pay, decline | the project fetched is stale; late answers navigate | a hire names the milestone that was touched, one of its proposal |
| Sending a proposal (`exploreProjects/sendProposal.js`) | rate, fee, milestone draft | fee look-up, edit draft, submit | look-ups overtake; rows changed in place; button stays enabled | the fee shown is that of the rate; what is accepted is what was meant |
| Ordering a task (`detailPages/orderDetail.js`, `checkout/Checkout.js`) | package, add-ons, running total | choose, order, add to wallet | total kept by increments | total is that of the selection |
| Orders and disputes (`manageTasks/availableTaskDetail.js`, `disputes/`) | an order as fetched, its overlay and sheets; the list of disputes, whose objects the detail screen changes | complete, cancel, write, dispute, reply | only a message fetches the order anew; one overlay for all requests; an answer after the screen was left | one request at a time, the order shown is the server's; replies held and painted are those accepted |
| Search filters (`searchResults/narrowSearch.js`, `exploreProjects/searchProjects.js`, the search of `home/Home.js`) | chosen filters | choose, reset, search | look-ups overtake | sub-categories of the chosen category |
| Categories of Home, settings (`home/Home.js` 374-412, `preloader/`, `Redux/SettingSlice.js`) | the list, its copy in the store, the settings | load at the start and at each focus | nested loop over hidden ids; the settings of an older render | every category not hidden, once |
| Earnings and payouts (`earnings/`) | balance, payout methods | reload, edit, save | arrays emptied and refilled in place, painted by a flag that is toggled; a button that stays enabled | one row of each method, the saved one marked |
| Profile settings (`profileSetting/`) | profile, education | reload, edit, save | edited before saved | edits kept or undone |
| Password recovery, presentation | none of interest | | | |

How they interact: the redux store is shared by all screens; each request carries
the token and the profile of the session slice at the render that sent it; the
saved lists and the draft of a task outlive the session that filled them; a paged
list is reloaded when its screen gains the focus after another component
changed the server's data; `ProjectActivity` receives its first rows from
`MyProjectListing` and sends the user to `Checkout`, whose payment only the
server sees.

`PROJECT.json` lists every component with its status, and under `hazards` each
place where the code can go wrong in a way that tests hardly reach.

## Modules

| Module | Models | Extends |
|---|---|---|
| `MilestoneContract` | the promise: the life cycle of a milestone, over the set of statuses it has had | |
| `ProjectActivity` | screens of a buyer and of sellers, server, network | `MilestoneContract` by `INSTANCE` |
| `PagedListing` | nine paged screens | |
| `TaskDeletion` | the tasks of a seller, deleted and switched from their cards | |
| `CategoryLookups` | categories, sub-categories and types: step one of a task, two search forms | |
| `SearchResult` | the sellers a search finds | |
| `SavedItems` | the saved projects, on the server, in the store and as hearts | |
| `Session` | the session slice, its copy on disk, navigation, requests | |
| `PostProject` | the wizard that posts a project, its draft, the server's projects | |
| `PostTask` | the wizard that posts a task | |
| `SendProposal` | the form of a seller's proposal | |
| `Hiring` | the screens on which a buyer hires or declines a proposal | |
| `OrderDetail` | the order of a task, its subtotal | |
| `Orders` | the screen of an order that was made | |
| `Disputes` | the list of disputes, and one with its replies | |
| `HomeCategories` | the categories of Home and the wizards, and the setting that hides some | |
| `Payouts` | the payout methods of a seller | |
| `MC*` | instances for TLC, see Runs | the component of that name |
| `*Proofs` | theorems and proofs | the component of that name, `TLAPS` |

A definition marked `Mutant:` stands before the one it changes and is used by no
specification: it is a plausible slip in that handler, under which a property fails.

### ProjectActivity

`ui[s]` is the React state of screen `s`, a record; `SetLoader`, `SetLoading`,
`SetRefreshList`, `OpenDialog`, ... are the `setState` calls and render (copy
`rows` to `painted`) exactly when they change a value.  `rows` stands for the two
arrays `mileStoneData` and `completedMileStone`, which `Refill` mutates without
rendering.  Each button or handler is an action: `Approve`, `MarkCompleted`,
`SubmitDecline` (all through `UpdateMileStoneStatus`), `HireAndPay`,
`HandelAddNewMileStone`, `GetDisputeIssues`, `CreateDispute`,
`CompleteProjectContract`, `AddComment`, `GetDisputes`, `SetSelectedItem`,
`Refocus`, and the sheets and dialogs.  Guards are those of the JSX: which button
a row offers (`Offered`), what the overlay covers (`CanTap`), what lies above it
(`CanTapIn`).  `Serve` is the external server, `Deliver` the `then` callbacks with
the refresh some of them ask for (`Refreshes`), `Fail` the `catch`.  `PayAtCheckout`
is the web page of `Checkout.js`.  `listed` is what the listing handed over, with
the statuses of an earlier moment.  The server does not check the order of
statuses; the client's buttons alone are responsible for it.

Left out: `getSingleProject`, the invoice PDF (128-278), the file pickers, the
text of messages.  History variables: `was` (statuses a milestone has had) and
`hist` (a request failed, one overtook another, a contract is finishing), on
which properties are conditioned by name.

### PagedListing

Nine screens carry the same two handlers with small differences.  A record of
type Kind states the differences (initial page, what an empty page does, when the
overlay shows, whether the catch forgets the footer spinner, ...) and each screen
is one such record, mapped to its source.  `ChangeFilter`, `Refocus`,
`MomentumScrollBegin`, `OnEndReachedHandler`, `Deliver` (`ShowFirstPage`,
`ShowMore`) and `Fail` are the handlers.  A request for more carries the captured
list; its answer puts captured list and page back.  Sizes are counted in half
pages, the unit that `list.length >= 10` and the twenty tasks of a page require.

### Session

`store` is `AuthSlice`; a value is represented by the profile it belongs to, since
the question is whose data it is.  `disk` is redux-persist's copy.  `Submit` (login,
sign-up), `Ask` (switch, restore, deactivate, privacy, avatar), `Logout`,
`Navigate`, `DrawerFocus` are the user's; `Deliver` writes what the callback
dispatches (`Written`) and navigates (`Destination`), which may set off Home's or
the identity screen's effects (`Focused`); `Persist` and `Restart` are those of
redux-persist and `PersistGate`.  `owner` is a history variable: the person who
last entered a password and has not signed off.  Requests that name no profile
are refused by the server, and `switch-user` returns a profile of the same person.

Left out: adding to the wallet, changing the password, the dashboard's counters,
Home's other fetches.

### PostProject

`one`, `two` and `step` are `PostProjectSlice`, `form` the local state of the step on
screen; what a form holds is a version number, 0 when blank.  `Enter` (by
`StartNewProject` or `UseThisTemplate`) replaces the draft and starts a visit;
`postProject` is a stack screen, so `Leave` unmounts it and a step that appears
fills its form from the draft (`Mounted`).  `SaveStepOne`, `SaveStepTwo` and
`SendInvite` send the id found in the draft; `Create`, `UpdateProject` and `Refuse` are
the external server; `Saved` is the `then` of the two saves, which puts what was
sent into the draft and moves to the next step; `Fail` is the `catch`.  History
variables: `late`, `again` and `lost` say for each visit whether a save of an earlier
one was answered in it, whether it created a second project before the first
create was settled, and whether the answer of a create was lost.

Left out: attachments and pickers, `getFreelancerProfile`, and the persistence of the
draft, which every entry into the wizard replaces.

### TaskDeletion

`arrays` holds every array that was `tasks`, the last one held; a card keeps its
state by its index, as React does for list items without moving keys.  `DeleteTask` and
`ChangeTaskDisplay` capture index, item and array of the render; `DeliverDelete`
splices the captured array at the captured index (`TaskListing.js:120-124`) and
`DeliverSwitch` flips the item object in place, so `status` is kept per item object
(the task and the request that brought it).

Neither renders by itself.  `cards` are the mounted cards with the row and the status they were last painted
with: `PaintAll` is a render of the list (`setTasks`, a state of `TaskListing` that is set to another value, or a
render of the list's own, `Render`), `SetCard` one of a card.  A deletion and a switch then set `refreshList`, of the
list or of the card, to the opposite (`Toggled`) of what it was in the render they captured: the second of two
answers sets the value it has, and what it did in place stays unpainted.  `server` is the list in the server's
order; pages shift when a task is deleted.  `hist` names what the properties except:
a deletion that met another array or row (`missed`), a page asked for after a deletion
(`skipped`), a switch touched again (`turned`), two deletions of renders with the same
`refreshList` (`together`).

### CategoryLookups

`PostTaskStepOne`, `narrowSearch` and `searchProjects` share their look-ups;
`screen` says which one a behaviour is about.  Home has the category and its slug too
(`SearchFromHome`): each focus empties the category, not the slug (`FocusHome`).  `ChooseCategory`, `ChooseSubCategory`,
`HandelSelectedCategory`, `HandelSelectedSubCategory` (the two search forms keep a
slug besides the name), `ToggleType`, `ClearAllData`, `SaveStepOne`, `Search`; `Show`
is the effect of a form that is filled from a task.  `asked` keeps the order of the
look-ups, and `hist` why a list or a choice may be of something else.

Left out: price, country, skills, levels and languages, single values or toggles.

### SearchResult

`heap` holds the arrays, since `freelancers.length = 0` empties the one that a
request for more has captured and will append to a copy of.  `First` is asked for at each
focus, with a double page; `LoadMoreData` asks with `page`, which starts at three and is never
put back, and with the types of sellers that no screen passes.

### SavedItems

`cached` is `state.saved.savedProjects`; `cards` and `detail.added` are the hearts,
`shown` is savedItem's own list.  A change carries the copy of its render and its
answer writes it back, changed (`Changed`); `Home` reloads the copy when it gains the
focus.  `Show` is what each screen does with the focus; the effect of a card
(`CardEffect`) compares with one entry after another, so the last one decides.

Left out: saved tasks and sellers, whose detail screens change the server but never
the copy.

### PostTask

`step` and `taskId` are `PostTaskSlice`, `item` is `route.params.data`, the object of the
list of tasks that is edited (`rows`), `form` the local state of the step that is mounted; what a form
holds is a version.  `CreateTask` and `EditTask` enter the wizard, which is a drawer screen and stays
mounted: a step that is shown already is not mounted anew (`Goto`).  `Save`,
`SaveSecondStep` (with the packages, which `LoadPackages` fetches) and `HandelSelectedStep`
(the circles) are the user's; `Deliver` stores id and step of whatever wizard is open.
Steps three and four keep their lists in the item itself (`InPlace`).

Left out: the sheet of add-ons, file pickers, and the persistence of step and id, which
every entry replaces.

### SendProposal

`rate`, `method` and `milestonesArray` are the form, `open` and `selectedMilestone` the
sheet in which a milestone is added or changed in place; `amounts` is the rate the
fee and total shown are of.  Every change of the rate asks for its fee (`TypeRate`);
`DeliverFee` is its answer, `DeliverProposal` that of the proposal to edit, which fills
the form over what was typed, `DeliverSubmit` leaves the screen.  `meant` is a history
variable: the proposal the seller wants, as each touch changes it.

Left out: the comment, loaded and sent as the rate is.

### Hiring

`mainItem` is the project as `MyProjectListing` fetched it, with its proposals; `terms` and
`status` are the server's, which sellers edit meanwhile (`EditProposal`, the submission of
`SendProposal` seen from here, draws the keys anew).  `listing`, `item` and `checkout`
are the stack of screens; `PayAndHire`, `Hire`, `HireAndPay`, `DeclineProposal` the
buttons; `DeliverHire` and `DeliverDecline` navigate even when their screen was left.

Left out: the reviews of `BuyerProjectCard`; and, for proposals of a fixed price, that
`ProposalActivity.js:495` mixes `||` and `&&`, which decides whether "Hire" is shown.

### OrderDetail

`totalPrice` is kept by increments: the first package's price when the screen is
mounted, then plus and minus `parseInt` of each service (`AddInBudget`).  `ChoosePackage` changes
the package alone.  With fewer than three packages, showing the others reads a missing one: the screen
"crash" ends the behaviour.

Left out: `addWallet`, which shares only its spinner with the order, and `taskDetail`.

### Orders

`order` is the server's, `data` what the screen has of it.  `Ask` sends a request and puts the
overlay up, under which nothing can be touched (`Tapped`); each answer takes it down (`Answered`),
but that of a message, which fetches the order under the overlay again (`DeliverMessage`,
`Covered`).  `OpenSheet`, `Settle` (complete, cancel), `CreateDispute`, `UpdateDispute`,
`ShowDisputeDetail` and `UpdateActivities` are the buttons, guarded as the JSX shows them
(`Offered`); `Others` is the other party.  `dispute_status` is "" when `data.dispute` is not 'yes'.

Left out: attachments (which stay attached after a message was sent), the file pickers, the
rating; that a seller sees "View details", and a buyer "Update dispute", only in some cases.

### Disputes

`item` is the object of the list that the detail screen shows and pushes replies into, `comments`
and `status` are the server's.  `Open` mounts the screen, which asks for the order; `PostReply` sends what
is typed, by one of two handlers (`project`); `DeliverPost` closes the sheet and, for a project, pushes
the text of the render that sent it (`Pushed`).  `painted` is how many of the comments the screen had when it
rendered last: it renders when a state changes (`Rendered`), and after the push `refresh` is set to the opposite of
what it was when the button was touched (`Toggled`), so that a second answer pushes and paints nothing.  `visit` tells the mounted screen from one that was left.

### HomeCategories

`present` and `hidden` are the server's categories and its setting `hide_product_cat`; `settings` and
`taxonomy` the store's copies, which outlive the program; `categories` Home's list.  `Built` is the loop
of `getCategories` as the number of times it pushes each category.  `Mount` and `Focus` run the effects of Home
(`Ask`), which ask with the settings of their render; `DeliverCategories` throws, and leaves the skeleton,
when these had not arrived.

### Payouts

`payoutList` and `savedPayout` are the two arrays of `earnings.js`: `Emptied` by the refresh that follows a
save, refilled by its answer (`DeliverPayouts`), the fields typed into in place (`ChangeInputValue`).
`GetEarningInformation`, `OpenSheet`, `ChangePayoutData` are the buttons; the button of the sheet stays
enabled.  The one overlay is taken down by either look-up.

`painted` is what the list of methods had when Earnings rendered last (`View`: the methods, and the one marked).
The answer takes the overlay down before it pushes the rows, pushes them, sets `refresh` to the opposite of
what it was in the closure (`Toggled`), pushes the saved method, and sets `refresh` to that value again; so the mark
is painted by the next touch that renders (`hist.touched`).  A refresh keeps the `refresh` of the save
that causes it: when a field was typed into meanwhile, the answer sets the value there is and paints no row
(`hist.meanwhile`).

Left out: the amounts; that one of them changes renders or does not (`DeliverBalance`).

## Runs

Twelve runs.  Components that share nothing are checked in one run: the MC module
declares the variables of each, `active` says which one moves, and the others wait in
one of their initial states; so the states are the sum, not the product.  The MC
module states the properties of the instances under their own names.

| Run | Module | Asks | Instance |
|---|---|---|---|
| `contract` | `MCContract` | do buyer and seller together keep the life cycle? does the client implement `MilestoneContract`? are the rows those of one proposal, none twice, fresh when quiet? does the overlay hold a payment back? | four situations, see below |
| `screens` | `MCScreens` | do overlay and spinner come down? is the order shown the server's, one request at a time? | a buyer on a lossy network, 4 taps; `Session` with 3 taps; an order, 4 touches; fairness |
| `listing` | `MCPagedListing` | pages in order, of one filter, on nine screens? are the rows, held and painted, the server's when tasks are deleted? do lists follow the chosen category? | two filters, two and a half pages, 6 requests, 3 in flight; four tasks, one published, pages of two, 5 touches; two categories, 6 touches |
| `session` | `MCSession` | whose data does the store hold? does Home offer the categories that are not hidden? | two people, three profiles, 4 taps, 3 in flight, 1 restart; three categories, 3 focuses, 5 in flight |
| `wizard` | `MCPostProject` | does every save of a wizard reach its project, or task? | three projects, two visits, 8 taps; three tasks, 7 touches; 2 in flight |
| `proposal` | `MCSendProposal` | are the amounts those of the rate? is what was accepted what was meant? is each payout method listed once, the saved one kept, and is that painted? | three rates, 6 touches; two methods, 6 touches; 3 in flight |
| `hiring` | `MCHiring` | does a hire name a milestone of its proposal? is the subtotal that of the selection? are replies held and painted? | two proposals, two versions, 8 touches; four offers, three services, 6 touches; a dispute, 6 touches; 2 in flight |
| `sellers` | `MCSearchResult` | nobody twice, of the search? do copy and hearts agree with the server? | three texts, two with results, 6 requests, 3 in flight; two projects, 5 touches, 2 in flight |
| `clear_filters` | `MCPagedListing` | expected to be violated: `SearchIsWhatIsShown` | as `listing` |
| `seller_types` | `MCSearchResult` | expected to be violated: `ResultsOfTypes` | as `sellers` |
| `offered` | `MCHiring` | expected to be violated: `ShownAreOffered` | as `hiring` |
| `package` | `MCHiring` | expected to be violated: `SubtotalOfPackage` | as `hiring` |

The four situations of `contract`, one of which each behaviour stays in: a buyer with 4 taps and a
seller with 2 work through one milestone; a buyer goes between two proposals of a milestone each, 4 taps; a
seller adds milestones, three keys, sheets of two rows, 6 taps; a buyer pays, comments, disputes and
completes on a network that loses messages, 4 taps.  Two requests are in flight in each.

Why these bounds are enough.  Each hazard needs a small number of actors: a stale
write needs one captured render and one newer one (two requests in flight), an
overtaken filter needs two filters and a second page, a late answer two visits, a
mixed board two proposals, an inherited field two people, a shifted row a deletion
before another in a list of two pages.  Four taps are what the longest of the session's
takes (log in, ask, log out, log in again).  Two and a half pages give a full page, a
last short one and the empty one after it.  `hist`-conditions were tested by dropping
each in turn: TLC then finds a counterexample within the bounds, with one exception
(`Returned` of a new task in `PostTask`, which needs one touch more: that instance has
9.8 million states and was checked apart).  `PostTask` counts its touches from two, so nine is
seven touches.  Larger bounds of `TaskDeletion`, `PostTask`, `SavedItems` and
`CategoryLookups` were simulated without a violation.  `SearchResult` needs two texts
with results: with one, a row is never of another search.  Three categories let two be hidden
and one remain; at the start Home asks twice, which takes five requests with the splash screen's.
A second save of a payout method meets the refresh of the first: three in flight.

The runs use symmetry in the two profiles of the first person and in the categories
(`session`), the proposals (`hiring`) and the texts with results (`sellers`).  In `listing` and `wizard`
interchangeable tasks and ids are taken in one order instead.  The liveness run uses
no symmetry.  The bounds on taps, restarts and requests end a behaviour, so the runs
do not check deadlock: a quiet screen waiting for its user is a legal end.

Every property has a mutant under which TLC finds it violated.  The type invariants are in no run
of the list; those of `ProjectActivity`, `PagedListing`, `Session`, `PostProject`, `PostTask`, `Hiring`,
`SearchResult`, `SendProposal`, `SavedItems`, `HomeCategories`, `Payouts`, `OrderDetail`, `Disputes`,
`CategoryLookups`, `Orders` and `TaskDeletion` are proved.

## What the checks show

* `CausalLifecycle`, `ImplementsContract`: whatever the boards show, nothing is
  released or declined that was not funded and handed over.  The check is the
  client's alone, through the buttons of a row, and rests on `NoInventedStatus`.
* `SingleBoard` holds even when refreshes overtake each other, since every refill
  empties the arrays in the same step.  `NoDuplicateRows` needs the answers in order: a refresh that
  overtakes may show milestones the pending `handelAddNewMileStone` pushes again.
* `QuietBoardFresh` compares with one of the proposals that can be selected, not the
  selected one: the follow-up refresh of an action on the proposal selected before
  arrives last and stays.  It speaks of a screen that alone changes its proposals: nothing tells
  a board of what the other party does.
* `PaymentBlocksScreen` fails after a network error: the catch of the refresh
  (`ProjectActivity.js:670`) takes down the overlay of a payment in flight.
* `OverlayClears` excepts completion (582, 584 commented out) and a dispute
  submitted without an issue (402 throws).
* `NoPageSkipped` excepts the screens that keep their page number on refocus
  (`searchResultTask.js`, `savedItem.js`); `TaskSkipsNoPage` needs orderly answers,
  because `tasks.js:107` puts the captured list back.
* `OneFilter` needs orderly answers: a page of the old filter that arrives late
  puts the old list back (`MyProjectListing.js:122`).
* `RowsAreTheServers` excepts a deletion whose row was moved by another one, or whose array was
  replaced: the wrong row disappears, or none; a switch touched again before its answer:
  both answers flip it; and, of what is painted, two deletions of renders with the same `refreshList`
  (`TaskListing.js:122`): the second row is spliced out of the array and stays on the screen.
* `ListsFollowChoice` and `SentBelongTogether` need the answers in order; a category chosen again
  keeps what was chosen below it.
* `ResultsOfSearch`: nobody is listed twice whatever happens, because the page number only grows;
  rows of an earlier search stay only in the cases named.
* `CopyIsTheServers` excepts an answer built on an older copy: one of two changes in
  flight is lost in the copy until the next reload.  `HeartsAreSaved` says that hearts are of
  saved projects; not every saved project has one, since the effect keeps its last comparison.
* `SignedInByPassword` names the two answers that break it, `switch-user` after
  logout and `deactive_account` in the next session, and the restart from an
  older copy.  `SessionWhole` holds in spite of them.
* `OnePerson` names the late answers that write a field of another person, and
  the sign-up after a deactivation.  `QuietAccountFresh` fails for a switch from
  the drawer over Home, which does not gain the focus.
* `OneProjectPerVisit`: going back and saving again updates the project, because the
  first answer put its id into the draft; saved again before that answer
  (`PostProjectStepOne.js:217`), a second project is created.
* `SavesReachTheirProject` and `QuietDraft` name the answer of a wizard that was left,
  which puts the earlier project into the draft of the one now open
  (`PostProjectStepOne.js:235`); `InvitedWhenComplete` names this and the second create.
* `SavesReachTheirTask` and `StepsInOrder` name the same two of the wizard of
  tasks, and the third step, which goes on when the server refused it.  `FormOfVisit`
  excepts "create" over the first step, and what is typed before the packages arrive.
  `NothingReverted` excepts a step that is shown again, which is filled from the item as it was listed.
* `AmountsOfRate` needs the fees in order.  `AcceptedAsMeant` excepts a form submitted before the
  proposal to edit arrived or changed while it was, and one changed after it was submitted.
* `HireNamesOwnMilestone` excepts proposals other than the project's first one and those edited since.
* `SubtotalOfSelection` excepts other packages than the first and prices with cents.
* `OrderShown`: the overlay does keep an order from being completed and cancelled by two touches.  The
  order shown is stale after it was completed or disputed, since nothing fetches it anew; a dispute
  without an issue throws under the overlay (`availableTaskDetail.js:309`).
* `RepliesShown` excepts the reply whose screen was left: `RBSheetReply.current` is null and the push
  is never reached (`disputesDetails.js:126`); and disputes of orders, whose handler does not push.
  Of what is painted it excepts a button touched again before the answer: both replies are pushed, and the
  second is not shown (`disputesDetails.js:133`).
* `CategoriesShown` says "just these" for at most one hidden category: with two, the loop pushes the hidden
  ones too (`Home.js:393-398`).  It excepts a look-up made before the settings had arrived.
* `PayoutsShown` excepts two refreshes in flight, after a save was touched twice: both push their rows.
  The mark of the saved method is not painted by the refresh itself (`earnings.js:99`, `109`): it says only that no
  other method is marked, until a touch renders.  Typed into while a save is in flight, the refresh paints no row.

Four places contradict what the screen itself says (`findings`): a search after "Clear
all filters" still filters by the category (`narrowSearch.js:345`); further pages of a
search for sellers of one type are not of it (`searchResult.js:126`); "Offered
milestons" are those of the first proposal, whichever is shown
(`ProposalActivity.js:76`); "Subtotal" does not follow the package
(`orderDetail.js:433`).  The other exceptions contradict no statement of the
repository and are recorded where they belong, as conditions of the properties and
as hazards.

## Fairness

Weak fairness only on the network: every HTTP exchange ends, in an answer or in
an error, and the promise's `then` or `catch` runs.  In `ProjectActivity` it is per
screen, in `Session` for the requests together.  Users owe no tap, the disk
no write, and nobody a restart.  `OverlayClears` and `FormUncovers` need no more.

## Proofs

TLAPS checks the following for every value of the constants that satisfies each
module's `ConstantsAssumption` (which TLC evaluates in the runs).

* `ProjectActivityProofs`: `TypeCorrect`, `NothingInvented`,
  `ReleasedWasRequested`.  The inductive invariant is `Real` (theorem `Backed`):
  TypeOK; every status on a screen, painted, captured by a sheet, handed over
  by the listing or carried by an answer in flight is one the server has held;
  what a request asks for follows from such a status; and `was` is closed under
  the life cycle.  CausalLifecycle is not inductive alone, because a button
  acts on a row, not on the server's status.  The user's actions share one
  lemma (`ShapePreserves`): each changes one screen to a real one and adds real
  requests.

  For the rest each action is first shown to be of one of a few shapes: it `Looks`, `Asks`
  for something, `Reloads`, `Delivers`, `Fails` or `Serves`.  `ProposalsApart` is the invariant
  `OneProposal`: rows on a screen, painted or in an answer are of one proposal, and a screen on
  which milestones can be created is of the proposal it was opened with; from it
  `BoardsApart` (`SingleBoard`).  `PaymentsOneAtATime` (`PaymentBlocksScreen`) is inductive with
  it: what asks for a payment finds the overlay down and puts it up.

  `ContractImplemented` is the refinement, `Spec => Contract!Spec` step by step: `Init` maps to the
  contract's, each step of the server to one of the contract's or a stutter, all others to stutters.
  `OneKey` says that an update is about one milestone; `Real`, that the status it leads from
  was held.

  `RowsTracked` is the invariant `Tracked`, for `RowsUnique` (`NoDuplicateRows`) and
  `QuietScreenCurrent` (`QuietBoardFresh`).  Requests are numbered (`Queued`) and, until
  one crosses another, served in order (`ServedInOrder`); the keys a create was given are in no other request
  (`KeysDrawn`), nor on the screen or in a refresh before it (`RowsOnce`).  `Current`: as long as a screen's
  requests end well, its rows are the server's, or will be by a refresh not yet served, by one that an
  answer in flight will ask for, or by the last one served; the rows that a create is still to push are counted
  in (`Pictures`).  `BoundedMax` provides the last request.
* `PagedListingProofs`: `ListingTypes`, `NoneSkipped`, `NoneTwice`, `NeverStuck` from
  `Sound` (theorem `CapturedListsSound`): what is claimed of the list on screen
  holds of every captured list too, and the page a request asks for is the one
  after its captured list.  That is why an answer, however late, keeps the list
  exact.  `RequestsOrdered` adds what holds while answers come in order (`Ordered`): the last first page
  asked for is of the filter shown, no further page is asked for before the first ones in
  flight are answered (`LastFetchCurrent`), and with none in flight all lists are of that filter (`RowsCurrent`), whence
  `RowsOfTheFilter` (`OneFilter`).  For `tasks.js`, which asks for its last page once more, `RewindSound`
  gives `TaskNoneSkipped` (`TaskSkipsNoPage`).

  It extends `MCPagedListing`, whose instance `Lookups` is `CategoryLookups`: `LookTypeCorrect`, `ListsFollow`
  (`ListsFollowChoice`) and `SavedBelongTogether` (`SentBelongTogether`) from `LookInv`.  As long as no answer
  overtook another, failed or came after a clearing, the last look-up in flight of a list is of the choice above it, and
  with none in flight the list is what the server has below that choice (`LookSub`, `LookTask`); without a
  sub-category the services of `narrowSearch` are none (`LookNone`).  What is chosen on the form belongs together
  (`LookForm`), and so do the slugs that are searched with (`LookSlug`).  The look-ups in flight are a
  sequence: what appending one (`LookConcat`) and answering one do to its last look-up of a kind are lemmas of their own.

  Its instance `Cards` is `TaskDeletion`: `CardTypeCorrect` and `RowsFollowServer` (`RowsAreTheServers`) from
  `CardInv`.  A row is a task the server has, or one whose deletion was carried out and will be answered
  (`CardKnown`); no task has two rows, because the page on its way lists none that a row shows (`CardSingle`,
  `CardPages`), which needs that deletions only move tasks to the front.  What the server has before a task of a row has its row
  before that one (`CardInOrder`): a deletion keeps that, on the server and among the rows, and with every row a task of the
  server it makes the rows the first tasks (`CardAreFirst`).  A further page keeps it because the rows before it are exactly
  the pages before it as long as nothing was deleted since the first (`CardWhole`).  `CardSwitches` is about the
  switches on their way: there is one of a row, it says what the row does not show, and once it was carried out the server has
  that.  `CardScreen` is about what is painted: the cards are of the rows as long as the deletion in flight, one at most, has captured
  `refreshList` as it is (`CardAlike`), and a card has the status of its item as long as the switch in flight has captured
  the flag of its card (`CardLit`); a card painted before is never of a list still on its way (`CardPainted`).  `CardNumbered` and `CardFresh` tell the items of one answer from those of another; `CardMoves` and `CardPage` are the
  lemmas about a spliced array and a page of the server.
* `SessionProofs`: `TypeCorrect`; `SignedInKnown` (inductive together with it);
  `SessionStaysWhole`; `FieldsOfOnePerson` from `Both`, which asks `Consistent` of
  the store and of the copy on disk, since a restart may bring that one back.  `AccountsFresh`
  (`QuietAccountFresh`) from `Fresh`: a field is of the profile signed in, or will be, because the last look-up of
  its kind in flight names that profile (`Owed`).  It extends `MCSession`, whose instance `HomeList` is
  `HomeCategories`: `HomeTypeCorrect` and `CategoriesFollow` (`CategoriesShown`) from `HomeInv`, by which, unless an
  exception was noted, every look-up was made with the settings of the server and one is in flight or was
  the last word (`HomeSettled`); `HomeBuilt` says what the loop makes of them.
* `PostProjectProofs`, of `PostProject`: `TypeCorrect`, and `OneProject`, `SavesGoHome` and
  `InvitedHaveSkills` from `Sound` (theorem `WizardSound`).  `Known`: ids were given out by
  the server.  `Reach`: ids that the draft and the requests of a visit name were born
  in it.  `Once`: until a create is answered its visit has no project.  `Complete`:
  at the last step the draft's project has its skills.  They need one another: the
  answer of step two speaks of the request's project, and that this is the draft's
  follows from there being only one.  `DraftIsTheServers` (`QuietDraft`) adds `Numbered`, by which answers
  are those of the oldest requests, and `Drafted`: of the answers on their way to a step of the draft the newest holds
  what the server has, and with none on its way the draft does.

  It extends `MCPostProject`, whose instance `Task` is `PostTask`: the rest is about that wizard, whose steps
  are first shown to be of one of a few shapes (`TaskShape`).  `TaskTypeCorrect` needs that whatever the
  wizard, the list or a save speaks of was created (`TaskKnown`).  `TaskInv`, for `TaskSavesApart`, `TaskFormHolds` and
  `TaskStepsFollow`: a save is of a visit so far and says of the open one what the wizard does
  (`TaskDated`); it goes to the task of its item or of its visit (`TaskOwned`); a visit whose create was sent
  once has one create in flight or one task (`TaskOnce`); a step shown or saved follows those the
  server has (`TaskDone`); the form is that of the visit (`TaskFilled`).  `TaskNothingReverted` is an action property,
  so its invariant, `TaskValues`, is about all that could still be saved: with no step shown again, no old item and no
  overtaking, what the form holds, what the item would fill a step with and what is in flight is no
  older than what the server has (`TaskCurrent`); everything typed was typed before (`TaskCounted`); and until the
  answer of the visit's create has come nothing speaks of its task (`TaskApart`).
* `HiringProofs`: `TypeCorrect` and `HiresOwnMilestone` from `Inv`.  `DialogInv`: the dialog is open on
  a proposal and its key is the one touched last, one of the milestones shown, or none if
  the project was fetched without terms for it.  `AsSent` says the same of every hire in
  flight about the project as it was when it was sent.  The keys of a proposal depend on
  its terms alone, so they are still the server's unless the proposal was edited.

  It extends `MCHiring`, whose instances `Dispute` and `Order` are `Disputes` and `OrderDetail`.
  `DisputeTypeCorrect` and `RepliesFollow` (`RepliesShown`) from `DisputeInv`: while nothing of `hist` happened
  every text is on the server as often as it is held, plus the accepted replies of that text in
  flight (`DisputeCounted`), which are told apart by their numbers (`DisputeNumbered`); and unless the button was
  touched again the mounted screen has one reply in flight at most, which captured `refresh` as it is, so that
  its answer paints what it pushes (`DisputePainted`).  `OrderTypeCorrect` and
  `SubtotalFollows` (`SubtotalOfSelection`) from `OrderInv`: the total without its cents is always that of the first
  package and of the services chosen, each without its cents (`OrderTotal`), whichever package is shown.  The sum
  over a set of services is a fold that takes them in an order nobody knows; `OrderSumExists`,
  `OrderSumTakes` and `OrderFolds` show that there is such a sum and that the order does not matter.
* `SearchResultProofs`: `TypeCorrect` and `SellersOfSearch` from `Inv` (theorem
  `ArraysSound`): the pages of every array, shown or captured, increase (`Ordered`) and are below the page that
  is asked for next (`Asked`); requests and arrays are numbered (`Numbered`); while nothing of `hist` has
  happened the rows are of the search (`Current`).

  It extends `MCSearchResult`, whose instance `Saved` is `SavedItems`; `SavedTypeCorrect`, `SavedCopyIsKept`
  (`CopyIsTheServers`) and `SavedHeartsAreKept` (`HeartsAreSaved`) are about that one.  The steps are shown to be of
  a few shapes (`SavedShapes`).  The copy differs from the server only by changes that were carried out and not
  delivered (`SavedMirrored`); it has no item twice, nor will any list that may become it (`SavedSingle`); a
  change of the details is of this visit or an earlier one (`SavedVisits`); and a heart is what the copy says,
  if only this screen wrote it since (`SavedHeartsOfCopy`).  What `Without` computes for every list is shown by
  induction over the numbers in a set (`SavedNatsInSet`, from the well-foundedness of `<`), since
  the induction theorems of the library, which take an operator, cannot be used.
* `SendProposalProofs`: `FeeOfRate` from `Inv`: the rate, the amounts and the looked-up rates are
  rates (`FeeTypes`), the numbers of the look-ups grow with the touches (`Numbers`), and the
  youngest look-up is of the rate in the form (`LastIsOfRate`).  `TypeCorrect`, with the finiteness of the
  milestones, which `SetToSeq` needs.  `AcceptedIsMeant` (`AcceptedAsMeant`) from `Intended`: until the proposal to edit
  has arrived nothing was submitted and, if nothing was typed, the form waits for what the server has (`Awaited`);
  from then on the form is what the seller wants (`Written`), and so is every submission in flight.  No two
  milestones are of the same touch, hence changing or deleting one in the list does so in the set; that `Append`,
  `RemoveAt`, `EXCEPT` and `SetToSeq` do this are lemmas of their own.

  It extends `MCSendProposal`, whose instance `Earnings` is `Payouts`: `PayoutsTypeCorrect` and
  `PayoutsFollow` (`PayoutsShown`) from `PayInv`.  There is one look-up at a time (`PayOnce`), while it is in flight
  the arrays are empty (`PayEmpty`), and its answer, or what is held, is what the server has, unless a save was
  carried out whose answer is still to come (`PayCurrent`).  What is painted follows from `PayScreen`: with the overlay down
  the look-up in flight finds the empty list painted, and captured `refresh` as it is unless a field was typed into
  (`PayFlag`), so that its answer paints the rows; after it only the mark may be missing (`PayPainted`).
* `OrdersProofs`: `TypeCorrect`, and `OrderStaysShown` from `Inv`.  `OneOverlay`: the overlay is the one request that is in flight.
  `Settled`: what the screen holds while that request is in flight is the order already, unless its answer is to
  leave the screen or to fetch the order, which then carries it.

Only model-checked: the liveness properties (`OverlayClears`, `FormUncovers`), which are
out of the prover's reach.

## Plan

1. The composition of `Session` with the lists of the drawer, which keep what they fetched for another
   profile; `invoice.js:38` alone never reloads.
2. The education list of the profile settings, which is edited before it is saved, and the payout
   history.

## Not modelled

* The server's own checks, and what it does between two requests beyond what the modules name.
* Wording, layout, styles and translations; file pickers, permissions and downloads.
* Profile settings: the forms are filled from one answer and saved whole; billing information likewise.
* Payout history: one list for each filter, replaced whole by its answer.
* Password recovery: one request without client state.  The language of the splash screen.
* `addWallet` of the drawer and of `orderDetail.js`: one request that leads to `Checkout`.
* The tags of a task: `PostTaskStepOne` keeps them and their ids in two lists.  Editing a task fills
  the ids with `undefined` (120), so that choosing another tag drops those the task had: a matter of
  one handler, which no order of steps changes.
* The page of `Checkout.js` beyond the payment it makes.

Third-party and generated code (`android`, `ios/Pods`) is outside the project.
