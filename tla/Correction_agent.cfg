\* Two requests of one payment, with a contract proposed or not, and two contracts
\* to give; a submitter and the cron beside a call of the API, by a reviewer, the
\* agent or its chat.
SPECIFICATION Spec
CONSTANTS
    None = None
    MaxReq = 2
    Reqs <- MCReqs
    Payments = {t1}
    Contracts = {c1, c2}
    Proposals = {c1, None}
    Submitters = {w1}
    Staff = {call}
    Agents = {cron, call}
    Cron = cron
    Rechecks = TRUE
    MaxTrouble = 1
INVARIANTS TypeOK ApprovedEntered DoneIsDecided
CHECK_DEADLOCK FALSE
