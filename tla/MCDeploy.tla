----- MODULE MCDeploy -----
EXTENDS Deploy
ConstReleases == 1..46
ConstUpgraded == {11, 25, 40}
====
