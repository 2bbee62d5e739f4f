---------------------------- MODULE MCCourseLifecycle ----------------------------
(* The handlers in use in the runs of CourseLifecycle. *)
EXTENDS CourseLifecycle

AllOps == Staff \cup Admin

\* the two JSON endpoints that change the status after checking it
ApiOps == {"TransitionCourse", "PublishCourse"}
=============================================================================
