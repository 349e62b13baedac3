SPECIFICATION UpgradeSpec
CONSTANTS
    Admins = {"a1", "a2"}
    MemberId <- AdminMember
    BuiltIn = "a1"
    NoLeader = "none"
    Weights = {4, 5}
    Fleet = {"n1", "n2"}
    HomeNode <- AdminHome
    Supervised = {"n2"}
    Reports = {"q1", "q2"}
    Recipients = {"r1"}
    TermBound = 1
    UploadBound = 2
CHECK_DEADLOCK FALSE
PROPERTIES
    MajorityApproves
