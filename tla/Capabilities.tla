---------------------------- MODULE Capabilities ----------------------------
(***************************************************************************)
(* What the two roles may do (internal/tenancy).  A capability is named by *)
(* its wire value; the routes that ask for it are told apart only by it    *)
(* and by whether they change anything (internal/httpapi/router.go and the *)
(* requireCapability call at the head of each handler).                    *)
(***************************************************************************)

RoleOwner == "owner"
RoleStaff == "staff"

staffCapabilities ==
    {"business:read", "members:read", "catalogue:read", "sales:record", "bills:read",
     "bills:manage", "bills:share", "credit:grant", "payments:record", "expenses:record",
     "inventory:read", "inventory:count", "inventory:adjustment_request", "activity:read"}

allCapabilities == staffCapabilities \cup
    {"business:update", "members:manage", "devices:manage", "catalogue:manage",
     "sales:reverse", "bills:write_off", "payments:reverse", "expenses:reverse",
     "inventory:receive", "inventory:adjustment_approve", "inventory:receipt_reverse",
     "reviews:read", "reviews:resolve", "reports:read"}

offlineSafeCapabilities ==
    {"catalogue:read", "sales:record", "bills:read", "bills:manage", "bills:share",
     "credit:grant", "payments:record", "expenses:record", "inventory:read",
     "inventory:count", "inventory:adjustment_request"}

ForRole(role) ==
    CASE role = RoleOwner -> allCapabilities
      [] role = RoleStaff -> staffCapabilities
      [] OTHER -> {}

OfflineSafe(role) == ForRole(role) \cap offlineSafeCapabilities

\* The capabilities that a GET route, and those that any other route, asks for.
ReadRoutes ==
    {"business:read", "members:read", "devices:manage", "catalogue:read", "inventory:read",
     "inventory:adjustment_approve", "reviews:read", "activity:read", "reports:read",
     "expenses:record", "bills:read"}

WriteRoutes ==
    {"business:update", "members:manage", "devices:manage", "catalogue:manage",
     "inventory:receive", "inventory:receipt_reverse", "inventory:count",
     "inventory:adjustment_request", "inventory:adjustment_approve", "reviews:resolve",
     "sales:record", "sales:reverse", "expenses:record", "expenses:reverse",
     "activity:read", "bills:manage", "bills:write_off", "bills:share",
     "payments:record", "payments:reverse"}
=============================================================================
