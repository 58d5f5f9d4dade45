---------------------------- MODULE MCVideoTasks ----------------------------
EXTENDS VideoTasks

MCTasks == {"v1", "v2"}
===============================================================================
