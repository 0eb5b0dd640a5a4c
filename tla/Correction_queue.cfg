\* Two requests of two payments, no reviewer: the cron, another run and the chat.
SPECIFICATION FairSpec
CONSTANTS
    None = None
    MaxReq = 2
    Reqs <- MCReqs
    Payments = {t1, t2}
    Contracts = {c1}
    Proposals = {c1}
    Submitters = {w1}
    Staff = {}
    Agents = {cron, bot}
    Cron = cron
    Rechecks = FALSE
    MaxTrouble = 1
INVARIANT AgentAlone
PROPERTY AgentLooks
CHECK_DEADLOCK FALSE
